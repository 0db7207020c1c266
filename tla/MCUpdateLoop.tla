---------------------------- MODULE MCUpdateLoop ----------------------------
(***************************************************************************)
(* A matrix of the weights every node registers, and TruthPriority, which  *)
(* core_engine.run_with_strategy adds: in force, or with a value apart     *)
(* from its baseline.                                                      *)
(***************************************************************************)
EXTENDS UpdateLoop

Weigh(name, value, baseline, immutable) ==
  [name |-> name, value |-> value, baseline |-> baseline, immutable |-> immutable]

MCRegistrations ==
  {Weigh("adaptability", 1, 1, FALSE), Weigh("BearerIntegrity", Top, Top, TRUE),
   Weigh("TruthPriority", Top, Top, TRUE), Weigh("TruthPriority", Top, Top, FALSE),
   Weigh("TruthPriority", 0, Top, TRUE)}
=============================================================================
