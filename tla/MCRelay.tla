------------------------------ MODULE MCRelay ------------------------------
(***************************************************************************)
(* Instances of Relay for TLC.  Payloads p1 and p2 share a hash, as when   *)
(* the same prompt is reported against two weights; p3 and p4 do not.      *)
(***************************************************************************)
EXTENDS Relay, TLC

CONSTANTS k1, k2, k3, p1, p2, p3, p4

MCKeyOf1 == (p1 :> k1)
MCKeyOf2 == (p1 :> k1) @@ (p3 :> k2)
MCKeyOf4 == (p1 :> k1) @@ (p2 :> k1) @@ (p3 :> k2) @@ (p4 :> k3)

NodeSymmetry == Permutations(Node) \cup Permutations(Sess)

\* Where no two payloads share a hash they can be exchanged too: the states
\* hold no hash, and KeyOf is only ever compared.
FullSymmetry == NodeSymmetry \cup Permutations(Payload)
=============================================================================
