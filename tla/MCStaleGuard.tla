---------------------------- MODULE MCStaleGuard ----------------------------
(* Two rows of one table and one of another, one to a query, and room for  *)
(* one in the channel.                                                     *)
EXTENDS StaleGuard

CONSTANTS t1, t2

MCMaxId == [t \in {t1, t2} |-> IF t = t1 THEN 2 ELSE 1]
=============================================================================
