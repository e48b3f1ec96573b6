----------------------------- MODULE ProofReads -----------------------------
(***************************************************************************)
(* ProofEngine with a history of the values a key had during each GET, to  *)
(* state that reads are not stale.                                         *)
(***************************************************************************)
EXTENDS ProofEngine

VARIABLE seen   \* the values the query had since the GET began

(* The value a frontier gives a path, computed from nothing.               *)
Reduced(f, path) ==
  LET V[p \in Path] ==
        IF f[p] = Absent THEN Nil
        ELSE IF f[p].expr.kind = "const" THEN Leaf(f[p].expr.val)
        ELSE UNION {Field(q, V[q]) : q \in {origin[h] : h \in Range(f[p].expr.atoms)}}
  IN V[path]

ReadsInit == Init /\ seen = [r \in Reader |-> {}]

Observe ==
  seen' = [r \in Reader |->
             IF rd'[r].pc \in {"idle", "panic"} THEN {}
             ELSE IF rd'[r].pc = "done" THEN seen[r]
             ELSE seen[r] \cup {Reduced(frontier', rd'[r].q)}]

ReadsNext == Next /\ Observe

ReadsSpec == ReadsInit /\ [][ReadsNext]_<<vars, seen>>

(* The same with no write while a GET is under way, as in the tests.       *)
Quiet == \A r \in Reader : rd[r].pc = "idle"

SerialNext == ((Quiet /\ WriteStep) \/ \E r \in Reader : GetStep(r)) /\ Observe

SerialSpec == ReadsInit /\ [][SerialNext]_<<vars, seen>>

(* A GET answers with a value its key had at some moment of the call: the  *)
(* value reduced from the frontier, nothing older.                         *)
NoStaleReads == \A r \in Reader : rd[r].pc = "done" => ans[r].val \in seen[r]
=============================================================================
