---------------------------- MODULE MCStandalone ----------------------------
(***************************************************************************)
(* The parts that share no state with the network or with each other, side *)
(* by side in one model: a behaviour exercises one of them while the       *)
(* others stay as they were built.  The watchdog meets the repository's    *)
(* own tasks and schemes, and variants of the tasks: permitted,            *)
(* unpriceable, and without a lawful way out.                              *)
(***************************************************************************)
EXTENDS MCUpdateLoop, SovereignActions, Mitochondrion, WatchdogCases, ProbeTrace, TLC

MCTask == LET labelled == Tasks \cup ControlTasks
          IN  labelled \cup Permitted(labelled) \cup Unpriceable(labelled) \cup Stuck(labelled)
MCScheme == {BASELINE, LOOP, LOOP_V1, STRUCTURE}
MCBlind == SUBSET {"wall", "undeclared_path", "zone"}

VARIABLE subject

\* What a part starts with while another one is exercised.
IdleSetting == CHOOSE s \in Setting : TRUE
IdleThreshold == CHOOSE t \in Thresholds : TRUE

MCInit ==
  /\ LoopInit /\ SovereignInit /\ KnowledgeInit /\ Init /\ ProbeInit
  /\ subject \in {"loop", "contracts", "knowledge", "watchdog", "probe"}
  /\ subject # "loop" => threshold = IdleThreshold
  /\ subject # "watchdog" => setting = IdleSetting

MCNext ==
  /\ UNCHANGED subject
  /\ \/ /\ subject = "loop" /\ LoopNext
        /\ UNCHANGED <<sovereignVars, knowledgeVars, vars, probeVars>>
     \/ /\ subject = "contracts" /\ SovereignNext
        /\ UNCHANGED <<loopVars, knowledgeVars, vars, probeVars>>
     \/ /\ subject = "knowledge" /\ KnowledgeNext
        /\ UNCHANGED <<loopVars, sovereignVars, vars, probeVars>>
     \/ /\ subject = "watchdog" /\ Next
        /\ UNCHANGED <<loopVars, sovereignVars, knowledgeVars, probeVars>>
     \/ /\ subject = "probe" /\ ProbeNext
        /\ UNCHANGED <<loopVars, sovereignVars, knowledgeVars, vars>>

MCSpec ==
  MCInit /\ [][MCNext]_<<subject, loopVars, sovereignVars, knowledgeVars, vars, probeVars>>

StandaloneSymmetry == Permutations(Node) \cup Permutations(Content)
=============================================================================
