--------------------------- MODULE MCProofEngine ----------------------------
(* Instances of ProofEngine for TLC.                                       *)
EXTENDS ProofEngine

CONSTANTS a, b

(* A composition of a may be stored at b.                                  *)
MCPair == [p \in Path |-> IF p = b THEN <<a>> ELSE <<>>]
=============================================================================
