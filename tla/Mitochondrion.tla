--------------------------- MODULE Mitochondrion ---------------------------
(***************************************************************************)
(* Knowledge by consensus of peers (mitochondrion_protocol.py).  An engine *)
(* takes over a payload when two thirds of its peers hold an anchor of the *)
(* same content for the topic.                                             *)
(*                                                                         *)
(* An element of Engine is one engine object; add_node makes a new one     *)
(* each time, for an id that is new or that an earlier engine had.         *)
(* content_hash is injective, so a content stands for its hash.  Anchors   *)
(* are earned outside ("its own prior consensus event, presumably") or by  *)
(* assimilation; metabolize polls its peers in one call.                   *)
(***************************************************************************)
EXTENDS Naturals, FiniteSets

CONSTANTS
  Engine, Topic, Content,
  MaxQuarantine,   \* bound: payloads in any quarantine, before one more is taken
  NoContent

ASSUME EngineAssumption == IsFiniteSet(Engine) /\ NoContent \notin Content /\ MaxQuarantine \in Nat

VARIABLES
  engines,          \* the values of KnowledgeNetwork.engines
  peers,
  verified_ledger,  \* the trusted content of each topic, per engine
  knowledge_base,
  quarantine,       \* its length
  seeded,           \* history: <<engine, topic, content>> of anchors from outside
  confirmed         \* history: what was assimilated, and who was polled

knowledgeVars == <<engines, peers, verified_ledger, knowledge_base, quarantine, seeded, confirmed>>

KnowledgeInit ==
  /\ engines = {}
  /\ peers = [e \in Engine |-> {}]
  /\ verified_ledger = [e \in Engine |-> [t \in Topic |-> NoContent]]
  /\ knowledge_base = [e \in Engine |-> [t \in Topic |-> NoContent]]
  /\ quarantine = [e \in Engine |-> 0]
  /\ seeded = {} /\ confirmed = {}

\* The engines made so far.  One that lost its place in the network has the
\* engine that took it among its peers.
Built == {e \in Engine : e \in engines \/ peers[e] # {}}

\* add_node: the new engine becomes a peer of all in the network, and they of
\* it.  Where its id is taken, the engine that had it is wired like the others
\* and then loses its place: it stays a peer, but meets no later engine.
AddNode(e, sameId) ==
  /\ e \in Engine \ Built
  /\ sameId \subseteq engines
  /\ peers' = [f \in Engine |-> IF f = e THEN engines
                                ELSE IF f \in engines THEN peers[f] \cup {e} ELSE peers[f]]
  /\ engines' = (engines \ sameId) \cup {e}
  /\ UNCHANGED <<verified_ledger, knowledge_base, quarantine, seeded, confirmed>>

\* An engine earns an anchor outside of the network.
EarnAnchor(e, t, c) ==
  /\ e \in Built
  /\ verified_ledger[e][t] = NoContent
  /\ verified_ledger' = [verified_ledger EXCEPT ![e][t] = c]
  /\ seeded' = seeded \cup {<<e, t, c>>}
  /\ UNCHANGED <<engines, peers, knowledge_base, quarantine, confirmed>>

\* Mutant: a peer without an anchor goes along.
PollTrusting(p, t, c) == verified_ledger[p][t] \in {c, NoContent}

\* poll_peer_confirmation: no anchor, no confirmation.
Poll(p, t, c) == verified_ledger[p][t] = c

Confirming(e, t, c) == {p \in peers[e] : Poll(p, t, c)}

\* Mutant: one half instead of two thirds.
HalfReached(yes, total) == total > 0 /\ 2 * yes >= total

\* ratio >= CONSENSUS_THRESHOLD, and nobody polled is nobody convinced.
Reached(yes, total) == total > 0 /\ 3 * yes >= 2 * total

\* setdefault: the ledger keeps what it has.
Settled(e, t, c) == IF verified_ledger[e][t] = NoContent THEN c ELSE verified_ledger[e][t]

\* metabolize
Assimilate(e, t, c) ==
  /\ e \in Built
  /\ Reached(Cardinality(Confirming(e, t, c)), Cardinality(peers[e]))
  /\ knowledge_base' = [knowledge_base EXCEPT ![e][t] = c]
  /\ verified_ledger' = [verified_ledger EXCEPT ![e][t] = Settled(e, t, c)]
  /\ confirmed' = confirmed \cup
       {[engine |-> e, topic |-> t, content |-> c, polled |-> peers[e]]}
  /\ UNCHANGED <<engines, peers, quarantine, seeded>>

\* metabolize of a payload whose signature does not fit its content, or which
\* the peers do not confirm.
Quarantine(e, t, c, intact) ==
  /\ e \in Built
  /\ \A f \in Engine : quarantine[f] < MaxQuarantine
  /\ ~intact \/ ~Reached(Cardinality(Confirming(e, t, c)), Cardinality(peers[e]))
  /\ quarantine' = [quarantine EXCEPT ![e] = @ + 1]
  /\ UNCHANGED <<engines, peers, verified_ledger, knowledge_base, seeded, confirmed>>

KnowledgeNext ==
  \E e \in Engine :
    \/ AddNode(e, {})
    \/ \E f \in engines : AddNode(e, {f})
    \/ \E t \in Topic, c \in Content :
         \/ EarnAnchor(e, t, c)
         \/ Assimilate(e, t, c)
         \/ \E intact \in BOOLEAN : Quarantine(e, t, c, intact)

KnowledgeSpec == KnowledgeInit /\ [][KnowledgeNext]_knowledgeVars

-----------------------------------------------------------------------------
(* Properties                                                              *)

Confirmation == [engine : Engine, topic : Topic, content : Content, polled : SUBSET Engine]

KnowledgeTypeOK ==
  /\ engines \subseteq Engine
  /\ peers \in [Engine -> SUBSET Engine]
  /\ \A e, f \in Engine : e \in peers[f] => f \in peers[e] /\ e # f
  /\ \A e, f \in engines : e # f => e \in peers[f]
  /\ verified_ledger \in [Engine -> [Topic -> Content \cup {NoContent}]]
  /\ knowledge_base \in [Engine -> [Topic -> Content \cup {NoContent}]]
  /\ quarantine \in [Engine -> Nat]
  /\ seeded \subseteq Engine \X Topic \X Content
  /\ confirmed \subseteq Confirmation

\* The least number of confirmations that reach two thirds.
QuorumOf(polled) == (2 * polled + 2) \div 3

\* Two contents of one topic are ever assimilated, by one engine or by two, only
\* if their quorums fit side by side among all that were polled for either.  In a
\* network of fixed size that takes exactly two or four engines; beyond, an engine
\* that took the id of another, or a network that has grown.
KnowledgeAgrees ==
  \A x, y \in confirmed :
    x.topic = y.topic /\ x.content # y.content =>
      QuorumOf(Cardinality(x.polled)) + QuorumOf(Cardinality(y.polled)) <=
        Cardinality(x.polled \cup y.polled)

\* Whatever an engine knows, some engine had verified outside of the network:
\* consensus makes nothing up, over however many hops.
KnowledgeHasWitness ==
  \A e \in Engine, t \in Topic :
    knowledge_base[e][t] # NoContent =>
      \E f \in Engine : <<f, t, knowledge_base[e][t]>> \in seeded
=============================================================================
