---------------------------- MODULE MCRelayLive ----------------------------
(***************************************************************************)
(* Two small relays in one model: the store under many reports, which one  *)
(* node and one socket bring as well as many would, and the service of two *)
(* nodes that compete for it, with fewer reports.                          *)
(***************************************************************************)
EXTENDS MCRelay

CONSTANTS n1, s1, MaxServed   \* bound: reports while there are two nodes

VARIABLE focus

mcVars == <<vars, focus>>

MCInit == Init /\ focus \in {"store", "service"}

MCNext ==
  /\ Next /\ UNCHANGED focus
  /\ focus = "store" => open' \subseteq {s1} /\ who'[s1] \in {n1, NoNode}
  /\ focus = "service" => Len(published') <= MaxServed /\ ToSet(published') \subseteq {p1, p3}

\* The fairness of FairSpec; what the two bounds cut short is never a step of
\* a handler.
MCFairSpec ==
  /\ MCInit /\ [][MCNext]_mcVars
  /\ \A s \in Sess : WF_mcVars(HandlerStep(s) /\ UNCHANGED focus)
=============================================================================
