------------------------------ MODULE MCShadow ------------------------------
(* Two comparers of one report; one of them sweeps twice and finds a key,  *)
(* the other, which is timed, sweeps once and finds none.                  *)
EXTENDS Shadow

CONSTANTS p1, p2

MCSweeps == [p \in {p1, p2} |-> IF p = p1 THEN 2 ELSE 1]

MCKeys == [p \in {p1, p2} |-> IF p = p1 THEN 1 ELSE 0]
=============================================================================
