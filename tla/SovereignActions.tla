-------------------------- MODULE SovereignActions --------------------------
(***************************************************************************)
(* Contracts between nodes (sovereign_action_protocol.py).  Each node has  *)
(* a criticality matrix, of which only the protection of each weight       *)
(* matters here, a SovereignActionEngine over it, and the channel by which *)
(* its Bearer stops the engine.                                            *)
(*                                                                         *)
(* A contract is one object that every engine may be handed, at any time   *)
(* and as often as its callers like.  A call runs to its end in one step,  *)
(* but for the wait for the approval channel, which may be a human at a    *)
(* console: meanwhile anything may happen.  Nothing reads party_b_node.    *)
(***************************************************************************)
EXTENDS Naturals

CONSTANTS
  Node,
  Contract,
  WeightName,           \* weights that matrices hold and contracts name
  W0Name,      \* W0_INVARIANT_NAMES
  Brake,          \* "CorrigibilityChannel"
  NoName, NoNode

ASSUME NameAssumption == W0Name \subseteq WeightName /\ Brake \in W0Name /\ NoName \notin WeightName
ASSUME NodeAssumption == NoNode \notin Node

VARIABLES
  weight,         \* is_immutable of each weight in each node's matrix, if it is there
  engine,         \* each node's engine: not built, or with an approval channel or none
  veto, review,   \* CorrigibilityChannel's two signals
  contract,
  contract_log,
  asked,          \* <<node, contract>>: evaluations that wait for the approval channel
  security_log    \* the contracts each node has logged a rejection of

sovereignVars == <<weight, engine, veto, review, contract, contract_log, asked, security_log>>
signals == <<veto, review>>
books == <<contract, contract_log, security_log>>

Protection == {"absent", "mutable", "immutable"}
Reason == {"veto", "sovereignty", "manual_review", "denied"}

Draft == [status |-> "draft", cedes |-> NoName, party_a |-> NoNode,
          signature_party_a |-> NoNode, signature_party_b |-> NoNode,
          rejection_reason |-> "none"]

-----------------------------------------------------------------------------
SovereignInit ==
  /\ weight = [n \in Node |-> [k \in WeightName |-> "absent"]]
  /\ engine = [n \in Node |-> "unbuilt"]
  /\ veto = [n \in Node |-> FALSE]
  /\ review = [n \in Node |-> FALSE]
  /\ contract = [c \in Contract |-> Draft]
  /\ contract_log = [n \in Node |-> {}]
  /\ asked = {}
  /\ security_log = [n \in Node |-> {}]

\* Mutant: the registry is not asked.
RegistrationAllowedAlways(k, p) == TRUE

\* W0Guard.enforce_registration: a canonical name only as immutable.
RegistrationAllowed(k, p) == k \in W0Name => p = "immutable"

\* CriticalityMatrix.register, of a new name or again.
RegisterWeight(n, k, p) ==
  /\ RegistrationAllowed(k, p)
  /\ weight' = [weight EXCEPT ![n][k] = p]
  /\ UNCHANGED <<engine, signals, asked, books>>

\* The constructor refuses a matrix whose brake is missing or mutable.
BuildEngine(n, e) ==
  /\ engine[n] = "unbuilt"
  /\ weight[n][Brake] = "immutable"
  /\ engine' = [engine EXCEPT ![n] = e]
  /\ UNCHANGED <<weight, signals, asked, books>>

\* raise_veto, clear_veto, require_manual_review, clear_manual_review.
SetVeto(n, on) ==
  /\ engine[n] # "unbuilt"
  /\ veto' = [veto EXCEPT ![n] = on]
  /\ UNCHANGED <<weight, engine, review, asked, books>>

SetReview(n, on) ==
  /\ engine[n] # "unbuilt"
  /\ review' = [review EXCEPT ![n] = on]
  /\ UNCHANGED <<weight, engine, veto, asked, books>>

-----------------------------------------------------------------------------
Rejected(k, why) == [k EXCEPT !.status = "rejected", !.rejection_reason = why]

\* A refusal marks the contract, leaves its signatures, and is logged.
Reject(n, c, k, why) ==
  /\ contract' = [contract EXCEPT ![c] = Rejected(k, why)]
  /\ security_log' = [security_log EXCEPT ![n] = @ \cup {c}]
  /\ UNCHANGED contract_log

Fresh(n, terms) == [Draft EXCEPT !.cedes = terms, !.party_a = n]
Offered(n, terms) == [Fresh(n, terms) EXCEPT !.signature_party_a = n, !.status = "pending"]

\* Mutant: only the receiving side is gated.
InitiationHaltedNever(n) == FALSE

InitiationHalted(n) == veto[n]

\* initiate_contract
Initiate(n, c, terms) ==
  /\ engine[n] # "unbuilt"
  /\ contract[c].status = "draft"
  /\ \/ /\ InitiationHalted(n)
        /\ Reject(n, c, Fresh(n, terms), "veto")
     \/ /\ ~InitiationHalted(n)
        /\ contract' = [contract EXCEPT ![c] = Offered(n, terms)]
        /\ contract_log' = [contract_log EXCEPT ![n] = @ \cup {c}]
        /\ UNCHANGED security_log
  /\ UNCHANGED <<weight, engine, signals, asked>>

\* _check_sovereignty_violation: an unknown name counts as protected.
Violates(n, c) == contract[c].cedes # NoName /\ weight[n][contract[c].cedes] # "mutable"

\* Mutant: the counter-signature is enough.
StatusByCounterSignature(k) == "active"

StatusOf(k) == IF k.signature_party_a # NoNode THEN "active" ELSE "pending"

CounterSigned(n, k) == [k EXCEPT !.signature_party_b = n, !.status = StatusOf(k)]

CounterSign(n, c) ==
  /\ contract' = [contract EXCEPT ![c] = CounterSigned(n, contract[c])]
  /\ contract_log' = [contract_log EXCEPT ![n] = @ \cup {c}]
  /\ UNCHANGED security_log

\* evaluate_and_sign_contract asks neither for the contract's status nor for
\* its parties.  With an approval channel it waits for the channel's answer.
Evaluate(n, c) ==
  /\ engine[n] # "unbuilt"
  /\ contract[c].status # "draft"
  /\ <<n, c>> \notin asked
  /\ \/ veto[n] /\ Reject(n, c, contract[c], "veto") /\ UNCHANGED asked
     \/ ~veto[n] /\ Violates(n, c) /\ Reject(n, c, contract[c], "sovereignty") /\ UNCHANGED asked
     \/ /\ ~veto[n] /\ ~Violates(n, c)
        /\ \/ /\ engine[n] = "channel"
              /\ asked' = asked \cup {<<n, c>>}
              /\ UNCHANGED books
           \/ /\ engine[n] = "no_channel"
              /\ IF review[n] THEN Reject(n, c, contract[c], "manual_review") ELSE CounterSign(n, c)
              /\ UNCHANGED asked
  /\ UNCHANGED <<weight, engine, signals>>

\* The channel answers; nothing is looked at again.
Resolve(n, c) ==
  /\ <<n, c>> \in asked
  /\ asked' = asked \ {<<n, c>>}
  /\ CounterSign(n, c) \/ Reject(n, c, contract[c], "denied")
  /\ UNCHANGED <<weight, engine, signals>>

SovereignNext ==
  \E n \in Node :
    \/ \E k \in WeightName, p \in Protection \ {"absent"} : RegisterWeight(n, k, p)
    \/ \E e \in {"no_channel", "channel"} : BuildEngine(n, e)
    \/ \E on \in BOOLEAN : SetVeto(n, on) \/ SetReview(n, on)
    \/ \E c \in Contract, terms \in WeightName \cup {NoName} : Initiate(n, c, terms)
    \/ \E c \in Contract : Evaluate(n, c) \/ Resolve(n, c)

SovereignSpec == SovereignInit /\ [][SovereignNext]_sovereignVars

-----------------------------------------------------------------------------
(* Properties                                                              *)

ContractType ==
  [status : {"draft", "pending", "active", "rejected"}, cedes : WeightName \cup {NoName},
   party_a : Node \cup {NoNode}, signature_party_a : Node \cup {NoNode},
   signature_party_b : Node \cup {NoNode}, rejection_reason : Reason \cup {"none"}]

SovereignTypeOK ==
  /\ weight \in [Node -> [WeightName -> Protection]]
  /\ engine \in [Node -> {"unbuilt", "no_channel", "channel"}]
  /\ veto \in [Node -> BOOLEAN] /\ review \in [Node -> BOOLEAN]
  /\ contract \in [Contract -> ContractType]
  /\ contract_log \in [Node -> SUBSET Contract]
  /\ asked \subseteq Node \X Contract
  /\ security_log \in [Node -> SUBSET Contract]

\* The engine that exists has its brake: no later registration takes the
\* immutable "CorrigibilityChannel" away that the constructor insisted on.
BrakeStays == \A n \in Node : engine[n] # "unbuilt" => weight[n][Brake] = "immutable"

\* No node ever counter-signs away control of a canonical invariant, whatever
\* was registered, approved, or evaluated again, in whatever order.
NoW0Ceded ==
  \A c \in Contract : contract[c].cedes \in W0Name => contract[c].signature_party_b = NoNode

\* A contract is active only if both its initiator and another evaluation
\* signed it and both have it in their logs; a contract whose initiation was
\* blocked never gets there.  A rejected one has a reason, and is in some
\* node's security log.
StatusIsBacked ==
  \A c \in Contract :
    LET k == contract[c]
    IN /\ k.status = "active" =>
            /\ k.signature_party_a = k.party_a /\ k.party_a \in Node
            /\ k.signature_party_b \in Node
            /\ c \in contract_log[k.signature_party_a] \cap contract_log[k.signature_party_b]
       /\ k.status = "rejected" =>
            k.rejection_reason # "none" /\ \E n \in Node : c \in security_log[n]

\* While a node's veto is up the node signs nothing, as initiator or as
\* counterparty, and takes up no contract: "all contract processing is halted
\* until the Bearer clears it" (sovereign_action_protocol.py:353-355).
VetoHolds ==
  [][\A n \in Node : veto[n] =>
       /\ contract_log'[n] = contract_log[n]
       /\ \A c \in Contract :
            /\ contract'[c].signature_party_a = n => contract[c].signature_party_a = n
            /\ contract'[c].signature_party_b = n => contract[c].signature_party_b = n]_sovereignVars

\* What a veto does hold: the node initiates nothing and puts nothing to its
\* approval channel, and signs only what was before the channel already.  A
\* node without a channel signs nothing at all.
Pending(n) == {c \in Contract : <<n, c>> \in asked}
VetoHoldsButForPending ==
  [][\A n \in Node : veto[n] =>
       /\ Pending(n)' \subseteq Pending(n)
       /\ contract_log'[n] \subseteq contract_log[n] \cup Pending(n)
       /\ \A c \in Contract :
            /\ contract'[c].signature_party_a = n => contract[c].signature_party_a = n
            /\ contract'[c].signature_party_b = n =>
                 contract[c].signature_party_b = n \/ c \in Pending(n) \ Pending(n)']_sovereignVars
=============================================================================
