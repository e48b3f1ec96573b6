------------------------------ MODULE LossyMap ------------------------------
(***************************************************************************)
(* What a frontier cache promises its callers: a linearizable map from     *)
(* paths to contents that may lose a content at any time (eviction,        *)
(* expiry), never change one.  A write that is still pending may be        *)
(* skipped only if another write to the same path took effect after it     *)
(* began: it then counts as overwritten at once.  A write that finds a     *)
(* content it cannot be told apart from may leave that content in place.   *)
(***************************************************************************)
CONSTANTS
  Path, Content, Proc, Absent,
  Alike     \* pairs of contents the store does not tell apart

VARIABLES
  value,    \* the content each path shows, or Absent
  pending,  \* the write each caller has under way, or Absent
  over      \* another write to its path took effect since it began

vars == <<value, pending, over>>

Init ==
  /\ value = [p \in Path |-> Absent]
  /\ pending = [w \in Proc |-> Absent]
  /\ over = [w \in Proc |-> FALSE]

Begin(w, p, c) ==
  /\ pending[w] = Absent
  /\ pending' = [pending EXCEPT ![w] = [path |-> p, content |-> c]]
  /\ over' = [over EXCEPT ![w] = FALSE]
  /\ UNCHANGED value

(* The write takes effect: the path shows its content, or goes on showing  *)
(* one like it; the content may be lost in the same instant (a deadline    *)
(* already past).                                                          *)
Apply(w) ==
  /\ pending[w] # Absent
  /\ \E c \in {pending[w].content, Absent, value[pending[w].path]} :
       /\ c \in {pending[w].content, Absent} \/ <<c, pending[w].content>> \in Alike
       /\ value' = [value EXCEPT ![pending[w].path] = c]
  /\ pending' = [pending EXCEPT ![w] = Absent]
  /\ over' = [x \in Proc |->
                /\ x # w
                /\ \/ over[x]
                   \/ pending[x] # Absent /\ pending[x].path = pending[w].path]

Skip(w) ==
  /\ pending[w] # Absent
  /\ over[w]
  /\ pending' = [pending EXCEPT ![w] = Absent]
  /\ over' = [over EXCEPT ![w] = FALSE]
  /\ UNCHANGED value

Lose(S) ==
  /\ UNCHANGED <<pending, over>>
  /\ value' = [p \in Path |-> IF p \in S THEN Absent ELSE value[p]]

Next ==
  \/ \E S \in SUBSET Path : Lose(S)
  \/ \E w \in Proc : Skip(w) \/ Apply(w)
  \/ \E w \in Proc, p \in Path, c \in Content : Begin(w, p, c)

Spec == Init /\ [][Next]_vars
=============================================================================
