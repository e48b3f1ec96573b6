--------------------------- MODULE MCProofReads -----------------------------
(* Instances of ProofReads for TLC.                                        *)
EXTENDS ProofReads

CONSTANTS top, mid, a, b

(* top is made of mid and a, mid of b.                                     *)
MCTree == [p \in Path |-> IF p = top THEN <<a, mid>>
                          ELSE IF p = mid THEN <<b>> ELSE <<>>]

MCPlain == [p \in Path |-> <<>>]

=============================================================================
