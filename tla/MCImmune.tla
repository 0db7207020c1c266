------------------------------ MODULE MCImmune ------------------------------
(***************************************************************************)
(* Instances of ImmuneNetwork for TLC.  Two bands of two slots, one of     *)
(* which may differ.  c2 and c3 are variants of c1 but not of each other;  *)
(* c4 has no shingles and matches exactly or not at all.                   *)
(***************************************************************************)
EXTENDS ImmuneNetwork, TLC

CONSTANTS c1, c2, c3, c4, s1, s2, s3

Bits(a, b, c, d) == [x \in Slot |-> IF x[1] = 0 THEN IF x[2] = 0 THEN a ELSE b
                                    ELSE IF x[2] = 0 THEN c ELSE d]

MCSlotsOf == (s1 :> Bits(0, 0, 0, 0)) @@ (s2 :> Bits(0, 0, 0, 1)) @@ (s3 :> Bits(1, 0, 0, 0))
MCSigOf == [c \in Ctx |-> CASE c = c1 -> s1 [] c = c2 -> s2 [] c = c3 -> s3 [] OTHER -> NoSig]

NodeSymmetry == Permutations(Node)
=============================================================================
