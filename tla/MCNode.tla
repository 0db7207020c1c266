------------------------------- MODULE MCNode -------------------------------
(***************************************************************************)
(* The transport under every caller it allows, and under the one the       *)
(* repository has: a behaviour is either one of NodeTransport, whose       *)
(* caller may stop, flush and cancel at any moment, or one of the node.    *)
(***************************************************************************)
EXTENDS NetworkedNode

VARIABLE owner   \* "anyone" or "node"

mcVars == <<nodeVars, owner>>

MCInit == NodeInit /\ owner \in {"anyone", "node"}

Anyones(step) == owner = "anyone" /\ step /\ UNCHANGED <<node, first, swallowed, owner>>
Nodes(step) == owner = "node" /\ step /\ UNCHANGED owner

MCNext == Anyones(Next) \/ Nodes(NodeNext)

\* FairSpec in the one case, NodeFairSpec in the other.
MCSpec ==
  /\ MCInit /\ [][MCNext]_mcVars
  /\ WF_mcVars(Anyones(RunForeverStep))
  /\ WF_mcVars(Anyones(FlushLoopStep))
  /\ WF_mcVars(Anyones(CallerFlushEnds))
  /\ WF_mcVars(Nodes(NodeTaskStep))
  /\ WF_mcVars(Nodes(NodeFlushStep))
  /\ WF_mcVars(Nodes(CloseStep))
=============================================================================
