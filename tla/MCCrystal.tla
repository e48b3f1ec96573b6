----------------------------- MODULE MCCrystal ------------------------------
(* Instances of Crystal for TLC.                                           *)
EXTENDS Crystal, TLC

(* The writers are interchangeable, and so are the paths.                  *)
MCSymmetry == Permutations(Writer) \cup Permutations(Path)
=============================================================================
