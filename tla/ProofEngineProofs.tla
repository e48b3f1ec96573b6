------------------------- MODULE ProofEngineProofs --------------------------
(***************************************************************************)
(* Theorems about ProofEngine, for any paths, compositions, number of      *)
(* connections and size of the proof cache.                                *)
(***************************************************************************)
EXTENDS ProofEngine, TLAPS

(* The hash was written to this path.                                      *)
Wrote(o, h, p) == h \in 1..Len(o) /\ o[h] = p

(* Every leaf was written to the field it is shown under, or to the path   *)
(* itself.                                                                 *)
Own(o, p, v) ==
  /\ v \in Value
  /\ \A e \in v : e[2] # 0 => Wrote(o, e[2], IF e[1] = <<>> THEN p ELSE Last(e[1]))

(* An expression read from this path.                                      *)
OwnExpr(o, p, x) ==
  /\ x \in Expr
  /\ x.kind = "const" /\ x.val # 0 => Wrote(o, x.val, p)
  /\ \A i \in 1..Len(x.atoms) : x.atoms[i] \in 1..Len(o)

OwnAtom(o, p, a) == Wrote(o, a.hash, p) /\ OwnExpr(o, p, a.expr)

(* A tree, its nodes numbered from the root, under construction ...        *)
Tree(o, nodes) ==
  /\ nodes \in Seq(Node)
  /\ \A n \in 1..Len(nodes) : nodes[n].up < n /\ OwnExpr(o, nodes[n].path, nodes[n].expr)

(* ... and with its values.                                                *)
Filled(o, nodes) == \A n \in 1..Len(nodes) : Own(o, nodes[n].path, nodes[n].cached)

(* A proof of this query.                                                  *)
OwnProof(o, x, q) ==
  /\ x \in Proof
  /\ Tree(o, x.nodes)
  /\ Filled(o, x.nodes)
  /\ x.nodes # <<>> /\ x.nodes[1].path = q
  /\ Own(o, q, x.value)

-----------------------------------------------------------------------------
StoreInv ==
  /\ origin \in Seq(Path) /\ Len(origin) <= MaxHash
  /\ frontier \in [Path -> [hash : Hash, expr : Expr] \cup {Absent}]
  /\ \A p \in Path : frontier[p] # Absent => OwnAtom(origin, p, frontier[p])

LruInv ==
  /\ cache \in [Query -> Ref \cup {0}]
  /\ lru \in Seq(Query) /\ Len(lru) <= Capacity
  /\ \A i, j \in 1..Len(lru) : lru[i] = lru[j] => i = j
  /\ \A q \in Query : cache[q] # 0 <=> \E i \in 1..Len(lru) : lru[i] = q

ProofsInv ==
  /\ proofs \in [Ref -> Proof \cup {Absent}]
  /\ \A q \in Query : cache[q] # 0 => OwnProof(origin, proofs[cache[q]], q)

(* The locals of a GET; the stack holds nodes or what is still to be built.*)
Locals(x) ==
  [pc : Ops, q : Query \cup {Absent}, ref : Ref \cup {0}, hash : Hash \cup {0},
   nodes : Seq(Node), vv : Vector, todo : SUBSET Path, changed : SUBSET Path,
   stack : {x.stack}, open : {x.open}]

Building == {"build", "vector"}
Using == {"respond", "lock", "verify", "find", "reduce", "update"}

Item(o, it, n) ==
  /\ it.path \in Path \cup {Absent}
  /\ it.path = Absent => it.hash \in 1..Len(o)
  /\ it.up \in 0..n

(* What is still to be built: first the root, then children of built ones. *)
ToBuild(o, q, nodes, s) ==
  /\ s \in Seq([hash : Hash \cup {0}, path : Path \cup {Absent}, up : Nat])
  /\ \A i \in 1..Len(s) : Item(o, s[i], Len(nodes))
  /\ nodes = <<>> => \A i \in 1..Len(s) : i = 1 /\ s[i].path = q

OwnTree(o, x) == Tree(o, x.nodes) /\ (x.nodes # <<>> => x.nodes[1].path = x.q)

OwnLocals(o, pf, x) ==
  /\ x \in Locals(x)
  /\ x.pc \notin {"idle", "panic"} => x.q \in Query
  /\ x.pc \in Building => OwnTree(o, x)
  /\ x.pc = "build" => ToBuild(o, x.q, x.nodes, x.stack)
  /\ x.pc \in Using <=> x.ref # 0
  /\ x.ref # 0 => OwnProof(o, pf[x.ref], x.q)
  /\ x.pc \notin Building => x.nodes = <<>>

ReaderInv ==
  /\ rd = [r \in Reader |-> rd[r]]
  /\ \A r \in Reader : OwnLocals(origin, proofs, rd[r])

AnswerInv ==
  /\ ans \in [Reader -> [q : Query \cup {Absent}, val : Value]]
  /\ \A r \in Reader : Own(origin, ans[r].q, ans[r].val)

EngineInv == StoreInv /\ LruInv /\ ProofsInv /\ ReaderInv /\ AnswerInv

-----------------------------------------------------------------------------
(* Induction over the naturals, for a set: a hypothesis of the lemmas that *)
(* need it, until it is proved from the library below.                     *)
Induction ==
  \A T : 0 \in T /\ (\A n \in Nat : n \in T => n + 1 \in T) => \A n \in Nat : n \in T

(* What was written stays written.                                         *)
Grows(o, o2) ==
  /\ Len(o) \in Nat /\ Len(o2) \in Nat /\ Len(o) <= Len(o2)
  /\ \A h, p : Wrote(o, h, p) => Wrote(o2, h, p)

LEMMA AppendGrows ==
  ASSUME NEW o \in Seq(Path), NEW p \in Path, NEW o2, o2 = Append(o, p)
  PROVE  Grows(o, o2) /\ Wrote(o2, Len(o) + 1, p) /\ o2 \in Seq(Path) /\ Len(o2) = Len(o) + 1
  BY DEF Grows, Wrote

LEMMA OwnGrows ==
  ASSUME NEW o, NEW o2, Grows(o, o2), NEW p, NEW v, Own(o, p, v)
  PROVE  Own(o2, p, v)
  BY DEF Grows, Own

LEMMA OwnExprGrows ==
  ASSUME NEW o, NEW o2, Grows(o, o2), NEW p, NEW x, OwnExpr(o, p, x)
  PROVE  OwnExpr(o2, p, x)
  BY DEF Grows, OwnExpr

LEMMA OwnAtomGrows ==
  ASSUME NEW o, NEW o2, Grows(o, o2), NEW p, NEW a, OwnAtom(o, p, a)
  PROVE  OwnAtom(o2, p, a)
  BY OwnExprGrows DEF Grows, OwnAtom

LEMMA TreeGrows ==
  ASSUME NEW o, NEW o2, Grows(o, o2), NEW nodes, Tree(o, nodes)
  PROVE  Tree(o2, nodes)
  BY OwnExprGrows DEF Tree

LEMMA OwnProofGrows ==
  ASSUME NEW o, NEW o2, Grows(o, o2), NEW x, NEW q, OwnProof(o, x, q)
  PROVE  OwnProof(o2, x, q)
<1>1. Filled(o2, x.nodes)
  BY OwnGrows DEF Filled, OwnProof
<1> QED BY <1>1, TreeGrows, OwnGrows DEF OwnProof

LEMMA ToBuildGrows ==
  ASSUME NEW o, NEW o2, Grows(o, o2), NEW q, NEW nodes, NEW s, ToBuild(o, q, nodes, s)
  PROVE  ToBuild(o2, q, nodes, s)
<1>1. \A it, n : Item(o, it, n) => Item(o2, it, n)
  BY DEF Grows, Item
<1> QED BY <1>1 DEF ToBuild

LEMMA OwnLocalsGrows ==
  ASSUME NEW o, NEW o2, Grows(o, o2), NEW pf, NEW x, OwnLocals(o, pf, x)
  PROVE  OwnLocals(o2, pf, x)
<1>1. x.pc \in Building => OwnTree(o2, x)
  BY TreeGrows DEF OwnLocals, OwnTree
<1>2. x.pc = "build" => ToBuild(o2, x.q, x.nodes, x.stack)
  BY ToBuildGrows DEF OwnLocals
<1>3. x.ref # 0 => OwnProof(o2, pf[x.ref], x.q)
  BY OwnProofGrows DEF OwnLocals
<1> QED BY <1>1, <1>2, <1>3 DEF OwnLocals

-----------------------------------------------------------------------------
(* Values.                                                                 *)
LEMMA LeafOwn ==
  ASSUME NEW o, NEW p, NEW v \in Hash \cup {0}, v # 0 => Wrote(o, v, p)
  PROVE  Own(o, p, Leaf(v))
<1>1. <<>> \in Seq(Path)
  OBVIOUS
<1>2. Leaf(v) \in Value
  <2>1. <<<<>>, v>> \in Seq(Path) \X (Hash \cup {0})
    BY <1>1, Zenon
  <2> QED BY <2>1, Zenon DEF Leaf, Value
<1>3. \A e \in Leaf(v) : e[1] = <<>> /\ e[2] = v
  BY DEF Leaf
<1> QED BY <1>2, <1>3 DEF Own

LEMMA NilOwn == \A o, p : Own(o, p, Nil) /\ Nil \in Value
  BY LeafOwn, Zenon DEF Nil, Own

(* A child's value as a field.                                             *)
LEMMA FieldOwn ==
  ASSUME NEW o, NEW p \in Path, NEW v, Own(o, p, v), NEW q
  PROVE  Own(o, q, Field(p, v))
<1> SUFFICES ASSUME NEW e \in v
             PROVE  /\ <<<<p>> \o e[1], e[2]>> \in Seq(Path) \X (Hash \cup {0})
                    /\ e[2] # 0 => Wrote(o, e[2], Last(<<p>> \o e[1]))
                    /\ <<p>> \o e[1] # <<>>
  <2>1. \A x \in Field(p, v) : \E e \in v : x = <<<<p>> \o e[1], e[2]>>
    BY DEF Field
  <2>2. \A x \in Field(p, v) : x \in Seq(Path) \X (Hash \cup {0})
    BY <2>1, Zenon
  <2>3. ASSUME NEW x \in Field(p, v), x[2] # 0
        PROVE  Wrote(o, x[2], IF x[1] = <<>> THEN q ELSE Last(x[1]))
    <3>1. PICK e \in v : x = <<<<p>> \o e[1], e[2]>>
      BY <2>1, Zenon
    <3>2. x[1] = <<p>> \o e[1] /\ x[2] = e[2]
      BY <3>1
    <3> QED BY <2>3, <3>2, Zenon
  <2> QED BY <2>2, <2>3 DEF Own, Value
<1>1. e[1] \in Seq(Path) /\ e[2] \in Hash \cup {0}
  BY DEF Own, Value
<1>2. <<p>> \o e[1] \in Seq(Path) /\ Len(<<p>> \o e[1]) = 1 + Len(e[1]) /\ Len(e[1]) \in Nat
  BY <1>1
<1>3. <<p>> \o e[1] # <<>>
  BY <1>2
<1>4. CASE e[1] = <<>>
  <2>1. Last(<<p>> \o e[1]) = p
    BY <1>2, <1>4 DEF Last
  <2>2. e[2] # 0 => Wrote(o, e[2], p)
    BY <1>4 DEF Own
  <2> QED BY <1>1, <1>2, <1>3, <2>1, <2>2, Zenon
<1>5. CASE e[1] # <<>>
  <2>1. Last(<<p>> \o e[1]) = Last(e[1])
    BY <1>1, <1>2, <1>5 DEF Last
  <2>2. e[2] # 0 => Wrote(o, e[2], Last(e[1]))
    BY <1>5 DEF Own
  <2> QED BY <1>1, <1>2, <1>3, <2>1, <2>2, Zenon
<1> QED BY <1>4, <1>5

LEMMA UnionOwn ==
  ASSUME NEW o, NEW p, NEW vs, \A v \in vs : Own(o, p, v)
  PROVE  Own(o, p, UNION vs)
<1>1. UNION vs \in Value
  BY DEF Own, Value
<1>2. \A e \in UNION vs : \E v \in vs : e \in v
  OBVIOUS
<1> QED BY <1>1, <1>2 DEF Own

-----------------------------------------------------------------------------
(* FillIn takes the values from a recursive function over the nodes.       *)
Combine(nodes, V, n) == UNION {Field(nodes[m].path, V[m]) : m \in LastKids(nodes, n)}
ValueStep(nodes, open, V, n) == IF n \in open THEN Combine(nodes, V, n) ELSE nodes[n].cached
Solves(nodes, open, V) == V = [n \in DOMAIN nodes |-> ValueStep(nodes, open, V, n)]
Values(nodes, open) == CHOOSE V : Solves(nodes, open, V)

LEMMA FillInUnfold ==
  ASSUME NEW nodes, NEW open
  PROVE  FillIn(nodes, open) =
           [n \in DOMAIN nodes |->
              IF n \in open
                THEN [nodes[n] EXCEPT !.cached = Values(nodes, open)[n], !.dirty = FALSE]
                ELSE nodes[n]]
  BY DEF FillIn, Values, Solves, ValueStep, Combine

(* Children have greater numbers: a node's value depends on theirs only.   *)
LEMMA LaterKids ==
  ASSUME NEW o, NEW nodes, Tree(o, nodes), NEW n, NEW m \in LastKids(nodes, n)
  PROVE  m \in 1..Len(nodes) /\ n < m /\ nodes[m].path \in Path
<1>1. m \in DOMAIN nodes /\ nodes[m].up = n
  BY DEF LastKids, Kids
<1>2. nodes \in Seq(Node)
  BY DEF Tree
<1>3. m \in 1..Len(nodes) /\ nodes[m] \in Node
  BY <1>1, <1>2
<1> QED BY <1>1, <1>3 DEF Tree, Node

LEMMA StepAgrees ==
  ASSUME NEW nodes, NEW open, NEW n, NEW V, NEW W, \A m \in LastKids(nodes, n) : V[m] = W[m]
  PROVE  ValueStep(nodes, open, V, n) = ValueStep(nodes, open, W, n)
<1>1. {Field(nodes[m].path, V[m]) : m \in LastKids(nodes, n)} =
      {Field(nodes[m].path, W[m]) : m \in LastKids(nodes, n)}
  OBVIOUS
<1> QED BY <1>1, Zenon DEF ValueStep, Combine

(* The recursion has a solution: build it from the last node to the first. *)
LEMMA ValuesExist ==
  ASSUME Induction, NEW o, NEW nodes, Tree(o, nodes), NEW open
  PROVE  \E V : Solves(nodes, open, V)
<1> DEFINE N == Len(nodes)
           From(k, V) == \A n \in 1..N : N < n + k => V[n] = ValueStep(nodes, open, V, n)
           T == {k \in Nat : \E V : V = [n \in 1..N |-> V[n]] /\ From(k, V)}
<1>0. N \in Nat /\ DOMAIN nodes = 1..N
  BY DEF Tree
<1>1. 0 \in T
  <2> DEFINE V == [n \in 1..N |-> {}]
  <2>1. V = [n \in 1..N |-> V[n]]
    OBVIOUS
  <2>2. From(0, V)
    BY <1>0
  <2> QED BY <2>1, <2>2
<1>2. ASSUME NEW k \in Nat, k \in T PROVE k + 1 \in T
  <2>1. PICK V : V = [n \in 1..N |-> V[n]] /\ From(k, V)
    BY <1>2
  <2> DEFINE W == [n \in 1..N |-> ValueStep(nodes, open, V, n)]
  <2>2. \A n \in 1..N : N < n + k => W[n] = V[n]
    BY <2>1
  <2>3. ASSUME NEW n \in 1..N, N < n + (k + 1) PROVE W[n] = ValueStep(nodes, open, W, n)
    <3>1. \A m \in LastKids(nodes, n) : V[m] = W[m]
      <4> SUFFICES ASSUME NEW m \in LastKids(nodes, n) PROVE V[m] = W[m]
        OBVIOUS
      <4>1. m \in 1..N /\ n < m
        BY LaterKids
      <4>2. N < m + k
        BY <1>0, <2>3, <4>1
      <4> QED BY <2>2, <4>1, <4>2
    <3>2. ValueStep(nodes, open, V, n) = ValueStep(nodes, open, W, n)
      BY <3>1, StepAgrees, Zenon
    <3> QED BY <3>2
  <2>4. W = [n \in 1..N |-> W[n]]
    OBVIOUS
  <2>5. From(k + 1, W)
    BY <2>3
  <2> HIDE DEF From, W
  <2> QED BY <2>4, <2>5
<1>3. N \in T
  <2> HIDE DEF T
  <2> QED BY <1>0, <1>1, <1>2, Zenon DEF Induction
<1>4. PICK V : V = [n \in 1..N |-> V[n]] /\ From(N, V)
  BY <1>3
<1>5. \A n \in 1..N : V[n] = ValueStep(nodes, open, V, n)
  BY <1>0, <1>4
<1>6. V = [n \in DOMAIN nodes |-> ValueStep(nodes, open, V, n)]
  BY <1>0, <1>4, <1>5
<1> QED BY <1>6 DEF Solves

(* Every value is made of what was written where it is shown.              *)
LEMMA ValuesOwn ==
  ASSUME Induction, NEW o, NEW nodes, Tree(o, nodes), NEW open,
         \A n \in 1..Len(nodes) : n \notin open => Own(o, nodes[n].path, nodes[n].cached)
  PROVE  \A n \in 1..Len(nodes) : Own(o, nodes[n].path, Values(nodes, open)[n])
<1> DEFINE N == Len(nodes)
           V == Values(nodes, open)
           T == {k \in Nat : \A n \in 1..N : N < n + k => Own(o, nodes[n].path, V[n])}
<1>0. N \in Nat /\ DOMAIN nodes = 1..N
  BY DEF Tree
<1>1. \A n \in 1..N : V[n] = ValueStep(nodes, open, V, n)
  <2>1. Solves(nodes, open, V)
    BY ValuesExist DEF Values
  <2> HIDE DEF V
  <2> QED BY <1>0, <2>1 DEF Solves
<1> HIDE DEF V
<1>2. 0 \in T
  BY <1>0
<1>3. ASSUME NEW k \in Nat, k \in T PROVE k + 1 \in T
  <2> SUFFICES ASSUME NEW n \in 1..N, N < n + (k + 1) PROVE Own(o, nodes[n].path, V[n])
    OBVIOUS
  <2>1. CASE n \notin open
    BY <1>1, <2>1 DEF ValueStep
  <2>2. CASE n \in open
    <3>1. ASSUME NEW m \in LastKids(nodes, n)
          PROVE  Own(o, nodes[n].path, Field(nodes[m].path, V[m]))
      <4>1. m \in 1..N /\ n < m /\ nodes[m].path \in Path
        BY LaterKids
      <4>2. Own(o, nodes[m].path, V[m])
        BY <1>0, <1>3, <4>1
      <4> QED BY <4>1, <4>2, FieldOwn
    <3>2. Own(o, nodes[n].path, Combine(nodes, V, n))
      BY <3>1, UnionOwn, Zenon DEF Combine
    <3> QED BY <1>1, <2>2, <3>2 DEF ValueStep
  <2> QED BY <2>1, <2>2
<1>4. N \in T
  <2> HIDE DEF T
  <2> QED BY <1>0, <1>2, <1>3, Zenon DEF Induction
<1> QED BY <1>0, <1>4 DEF V

-----------------------------------------------------------------------------
(* Operations on trees.                                                    *)
LEMMA NodeSet ==
  ASSUME NEW a \in Node, NEW b,
         \/ \E d \in BOOLEAN : b = [a EXCEPT !.dirty = d]
         \/ \E c \in Value : b = [a EXCEPT !.cached = c]
         \/ \E c \in Value : b = [a EXCEPT !.cached = c, !.dirty = FALSE]
         \/ \E x \in Expr : b = [a EXCEPT !.expr = x]
         \/ \E x \in Expr, c \in Value : b = [a EXCEPT !.expr = x, !.cached = c, !.dirty = FALSE]
  PROVE  b \in Node /\ b.path = a.path /\ b.up = a.up
<1>1. b \in Node
  BY Zenon DEF Node
<1>2. b.path = a.path /\ b.up = a.up
  BY Zenon DEF Node
<1> QED BY <1>1, <1>2, Zenon

(* A tree whose nodes keep their paths and parents.                        *)
Reread(o, a, b) == b \in Node /\ b.path = a.path /\ b.up = a.up /\ OwnExpr(o, a.path, b.expr)

LEMMA Relabelled ==
  ASSUME NEW o, NEW nodes, Tree(o, nodes), NEW new, DOMAIN new = DOMAIN nodes,
         new = [n \in DOMAIN new |-> new[n]],
         \A n \in 1..Len(nodes) : Reread(o, nodes[n], new[n])
  PROVE  /\ Tree(o, new) /\ Len(new) = Len(nodes)
         /\ new = <<>> <=> nodes = <<>>
         /\ \A n \in 1..Len(nodes) : new[n].path = nodes[n].path
<1>1. nodes \in Seq(Node) /\ DOMAIN nodes = 1..Len(nodes) /\ Len(nodes) \in Nat
  BY DEF Tree
<1>2. \A n \in 1..Len(nodes) : new[n] \in Node
  BY DEF Reread
<1>3. new \in [1..Len(nodes) -> Node]
  BY <1>1, <1>2
<1>4. new \in Seq(Node) /\ Len(new) = Len(nodes)
  BY <1>1, <1>3
<1>5. new = <<>> <=> nodes = <<>>
  BY <1>1, <1>4
<1>6. Tree(o, new)
  BY <1>4 DEF Tree, Reread
<1> QED BY <1>4, <1>5, <1>6 DEF Reread

LEMMA FillInOwn ==
  ASSUME Induction, NEW o, NEW nodes, Tree(o, nodes), NEW open, NEW new, new = FillIn(nodes, open),
         \A n \in 1..Len(nodes) : n \notin open => Own(o, nodes[n].path, nodes[n].cached)
  PROVE  /\ Tree(o, new) /\ Filled(o, new)
         /\ new = <<>> <=> nodes = <<>>
         /\ \A n \in 1..Len(nodes) : new[n].path = nodes[n].path
<1> DEFINE V == Values(nodes, open)
<1>1. nodes \in Seq(Node) /\ DOMAIN nodes = 1..Len(nodes)
  BY DEF Tree
<1>0. DOMAIN new = DOMAIN nodes /\ new = [n \in DOMAIN new |-> new[n]]
  BY FillInUnfold, Zenon
<1>2. \A n \in 1..Len(nodes) :
        new[n] = IF n \in open THEN [nodes[n] EXCEPT !.cached = V[n], !.dirty = FALSE] ELSE nodes[n]
  BY <1>1, FillInUnfold, Zenon
<1>3. \A n \in 1..Len(nodes) : Own(o, nodes[n].path, V[n]) /\ V[n] \in Value
  BY ValuesOwn DEF Own
<1> HIDE DEF V
<1>4. ASSUME NEW n \in 1..Len(nodes)
      PROVE  Reread(o, nodes[n], new[n]) /\ Own(o, nodes[n].path, new[n].cached)
  <2>1. nodes[n] \in Node /\ OwnExpr(o, nodes[n].path, nodes[n].expr)
    BY <1>1 DEF Tree
  <2>2. CASE n \in open
    <3>1. new[n] = [nodes[n] EXCEPT !.cached = V[n], !.dirty = FALSE]
      BY <1>2, <2>2, Zenon
    <3>2. new[n] \in Node /\ new[n].path = nodes[n].path /\ new[n].up = nodes[n].up
      BY <1>3, <2>1, <3>1, NodeSet, Zenon
    <3>3. new[n].cached = V[n] /\ new[n].expr = nodes[n].expr
      BY <2>1, <3>1 DEF Node
    <3> QED BY <1>3, <2>1, <3>2, <3>3, Zenon DEF Reread
  <2>3. CASE n \notin open
    BY <1>2, <2>1, <2>3, Zenon DEF Reread
  <2> QED BY <2>2, <2>3
<1>5. /\ Tree(o, new) /\ Len(new) = Len(nodes) /\ (new = <<>> <=> nodes = <<>>)
      /\ \A n \in 1..Len(nodes) : new[n].path = nodes[n].path
  BY <1>0, <1>4, Relabelled
<1>6. Filled(o, new)
  BY <1>4, <1>5 DEF Filled
<1> QED BY <1>5, <1>6

LEMMA ComposedOwn ==
  ASSUME Induction, NEW o, NEW nodes, Tree(o, nodes), NEW new, new = Composed(nodes)
  PROVE  /\ Tree(o, new) /\ Filled(o, new)
         /\ new = <<>> <=> nodes = <<>>
         /\ \A n \in 1..Len(nodes) : new[n].path = nodes[n].path
<1> DEFINE leaves == [n \in DOMAIN nodes |->
                        IF nodes[n].expr.kind = "const"
                          THEN [nodes[n] EXCEPT !.cached = Leaf(nodes[n].expr.val)]
                          ELSE nodes[n]]
           open == {n \in DOMAIN nodes : nodes[n].expr.kind = "compose"}
<1>1. nodes \in Seq(Node) /\ DOMAIN nodes = 1..Len(nodes)
  BY DEF Tree
<1>2. new = FillIn(leaves, open)
  BY DEF Composed
<1>3. ASSUME NEW n \in 1..Len(nodes)
      PROVE  /\ Reread(o, nodes[n], leaves[n])
             /\ n \notin open => Own(o, nodes[n].path, leaves[n].cached)
  <2>1. nodes[n] \in Node /\ OwnExpr(o, nodes[n].path, nodes[n].expr)
    BY <1>1 DEF Tree
  <2>2. nodes[n].expr \in Expr
    BY <2>1, Zenon DEF OwnExpr
  <2>3. CASE nodes[n].expr.kind = "const"
    <3> DEFINE c == Leaf(nodes[n].expr.val)
    <3>1. leaves[n] = [nodes[n] EXCEPT !.cached = c]
      BY <1>1, <2>3
    <3>2. nodes[n].expr.val \in Hash \cup {0}
      BY <2>2, Zenon DEF Expr
    <3>3. Own(o, nodes[n].path, c) /\ c \in Value
      BY <2>1, <2>3, <3>2, LeafOwn, Zenon DEF OwnExpr, Own
    <3> HIDE DEF c, leaves
    <3>4. leaves[n] \in Node /\ leaves[n].path = nodes[n].path /\ leaves[n].up = nodes[n].up
      BY <2>1, <3>1, <3>3, NodeSet
    <3>5. leaves[n].cached = c /\ leaves[n].expr = nodes[n].expr
      BY <2>1, <3>1 DEF Node
    <3> QED BY <2>1, <3>3, <3>4, <3>5 DEF Reread
  <2>4. CASE nodes[n].expr.kind = "compose"
    <3>1. leaves[n] = nodes[n] /\ n \in open
      BY <1>1, <2>4
    <3> HIDE DEF leaves
    <3> QED BY <2>1, <3>1 DEF Reread
  <2> QED BY <2>2, <2>3, <2>4 DEF Expr
<1>4. DOMAIN leaves = DOMAIN nodes /\ leaves = [n \in DOMAIN leaves |-> leaves[n]]
  OBVIOUS
<1> HIDE DEF leaves, open
<1>5. /\ Tree(o, leaves) /\ Len(leaves) = Len(nodes) /\ (leaves = <<>> <=> nodes = <<>>)
      /\ \A n \in 1..Len(nodes) : leaves[n].path = nodes[n].path
  BY <1>3, <1>4, Relabelled
<1>6. \A n \in 1..Len(leaves) : n \notin open => Own(o, leaves[n].path, leaves[n].cached)
  BY <1>3, <1>5
<1> QED BY <1>2, <1>5, <1>6, FillInOwn

LEMMA MarkDirtyOwn ==
  ASSUME NEW o, NEW nodes, Tree(o, nodes), Filled(o, nodes), NEW changed, NEW new,
         new = MarkDirty(nodes, changed)
  PROVE  /\ Tree(o, new) /\ Filled(o, new)
         /\ new = <<>> <=> nodes = <<>>
         /\ \A n \in 1..Len(nodes) : new[n].path = nodes[n].path
<1>1. nodes \in Seq(Node) /\ DOMAIN nodes = 1..Len(nodes)
  BY DEF Tree
<1>2. PICK dirty : new = [n \in DOMAIN nodes |-> [nodes[n] EXCEPT !.dirty = n \in dirty]]
  BY Zenon DEF MarkDirty
<1>3. DOMAIN new = DOMAIN nodes /\ new = [n \in DOMAIN new |-> new[n]]
  BY <1>2
<1>4. ASSUME NEW n \in 1..Len(nodes)
      PROVE  Reread(o, nodes[n], new[n]) /\ new[n].cached = nodes[n].cached
  <2> DEFINE d == n \in dirty
  <2>1. nodes[n] \in Node /\ OwnExpr(o, nodes[n].path, nodes[n].expr)
    BY <1>1 DEF Tree
  <2>2. new[n] = [nodes[n] EXCEPT !.dirty = d] /\ d \in BOOLEAN
    <3>1. n \in DOMAIN nodes
      BY <1>1
    <3>2. new[n] = [nodes[n] EXCEPT !.dirty = d]
      BY <1>2, <3>1, Zenon
    <3>3. d \in BOOLEAN
      OBVIOUS
    <3> QED BY <3>2, <3>3, Zenon
  <2> HIDE DEF d
  <2>3. new[n] \in Node /\ new[n].path = nodes[n].path /\ new[n].up = nodes[n].up
    BY <2>1, <2>2, NodeSet, Zenon
  <2>4. new[n].cached = nodes[n].cached /\ new[n].expr = nodes[n].expr
    BY <2>1, <2>2 DEF Node
  <2> QED BY <2>1, <2>3, <2>4 DEF Reread
<1>5. /\ Tree(o, new) /\ Len(new) = Len(nodes) /\ (new = <<>> <=> nodes = <<>>)
      /\ \A n \in 1..Len(nodes) : new[n].path = nodes[n].path
  BY <1>1, <1>3, <1>4, Relabelled
<1>6. Filled(o, new)
  BY <1>4, <1>5 DEF Filled
<1> QED BY <1>5, <1>6

-----------------------------------------------------------------------------
(* The locals of a GET.                                                    *)
LEMMA QuietOwn ==
  ASSUME NEW o, NEW pf, NEW x, x \in Locals(x), x.pc \notin Building \cup Using,
         x.ref = 0, x.nodes = <<>>, x.pc \notin {"idle", "panic"} => x.q \in Query
  PROVE  OwnLocals(o, pf, x)
  BY DEF OwnLocals, Building

LEMMA IdleType == Idle \in Locals(Idle)
<1>1. [p \in Path |-> 0] \in Vector
  BY DEF Vector
<1>2. <<>> \in Seq(Node)
  OBVIOUS
<1> QED BY <1>1, <1>2 DEF Idle, Locals, Ops

LEMMA FreshOwn ==
  ASSUME NEW o, NEW pf, NEW x,
         \/ x = Idle
         \/ x = [Idle EXCEPT !.pc = "panic"]
         \/ \E l \in {"get", "done"}, q \in Query : x = [Idle EXCEPT !.pc = l, !.q = q]
  PROVE  OwnLocals(o, pf, x)
<1>1. x \in Locals(x)
  <2>1. CASE x = Idle
    BY <2>1, IdleType, Zenon
  <2>2. CASE x = [Idle EXCEPT !.pc = "panic"]
    BY <2>2, IdleType, Zenon DEF Locals, Ops
  <2>3. ASSUME NEW l \in {"get", "done"}, NEW q \in Query, x = [Idle EXCEPT !.pc = l, !.q = q]
        PROVE  x \in Locals(x)
    BY <2>3, IdleType, Zenon DEF Locals, Ops
  <2> QED BY <2>1, <2>2, <2>3, Zenon
<1>2. Idle.ref = 0 /\ Idle.nodes = <<>> /\ Idle.pc = "idle"
  BY Zenon DEF Idle
<1>3. /\ x.ref = 0 /\ x.nodes = <<>> /\ x.pc \notin Building \cup Using
      /\ x.pc \notin {"idle", "panic"} => x.q \in Query
  BY <1>2, IdleType, Zenon DEF Building, Using, Locals
<1> QED BY <1>1, <1>3, QuietOwn, Zenon

(* A step inside ReduceIncremental.                                        *)
LEMMA UsingOwn ==
  ASSUME NEW o, NEW pf, NEW x, OwnLocals(o, pf, x), x.pc \in Using,
         NEW y, y \in Locals(y), y.pc \in Using, y.q = x.q, y.ref = x.ref, y.nodes = x.nodes
  PROVE  OwnLocals(o, pf, y)
<1>1. \A l \in Using : l \notin Building /\ l # "build" /\ l \notin {"idle", "panic"}
  BY Zenon DEF Using, Building
<1> QED BY <1>1 DEF OwnLocals

LEMMA ReaderSet ==
  ASSUME ReaderInv, NEW r \in Reader, NEW x, rd' = [rd EXCEPT ![r] = x], origin' = origin,
         OwnLocals(origin, proofs', x),
         \A y \in Reader \ {r} :
           rd[y].ref # 0 => OwnProof(origin, proofs'[rd[y].ref], rd[y].q)
  PROVE  ReaderInv'
<1>1. DOMAIN rd = Reader
  BY DEF ReaderInv
<1>2. rd' = [y \in Reader |-> rd'[y]] /\ rd'[r] = x /\ \A y \in Reader \ {r} : rd'[y] = rd[y]
  BY <1>1, Zenon
<1>3. ASSUME NEW y \in Reader \ {r} PROVE OwnLocals(origin, proofs', rd[y])
  BY <1>3 DEF ReaderInv, OwnLocals
<1>4. \A y \in Reader : OwnLocals(origin', proofs', rd'[y])
  BY <1>2, <1>3
<1> QED BY <1>2, <1>4 DEF ReaderInv, OwnLocals

(* A step that changes the locals only.                                    *)
LEMMA Moved ==
  ASSUME EngineInv, NEW r \in Reader, NEW x, rd' = [rd EXCEPT ![r] = x],
         UNCHANGED <<store, proofs, cache, ans>>, LruInv',
         OwnLocals(origin, proofs, x)
  PROVE  EngineInv'
<1>1. UNCHANGED <<frontier, origin, proofs, cache, ans>>
  BY DEF store
<1>2. ReaderInv'
  BY <1>1, ReaderSet DEF EngineInv, ReaderInv, OwnLocals
<1>3. StoreInv'
  BY <1>1 DEF EngineInv, StoreInv
<1>4. ProofsInv'
  BY <1>1 DEF EngineInv, ProofsInv
<1>5. AnswerInv'
  BY <1>1 DEF EngineInv, AnswerInv
<1> QED BY <1>2, <1>3, <1>4, <1>5 DEF EngineInv

LEMMA LruKept ==
  ASSUME LruInv, UNCHANGED <<cache, lru>>
  PROVE  LruInv'
  BY DEF LruInv

(* An answer made of own values.                                           *)
LEMMA Answered ==
  ASSUME EngineInv, NEW r \in Reader, NEW v, Answer(r, v), rd[r].q \in Query,
         Own(origin, rd[r].q, v), UNCHANGED <<store, proofs, cache, lru>>
  PROVE  EngineInv'
<1>1. UNCHANGED <<frontier, origin, proofs, cache, lru>>
  BY DEF store
<1> DEFINE x == [Idle EXCEPT !.pc = "done", !.q = rd[r].q]
<1>2. rd' = [rd EXCEPT ![r] = x] /\ ans' = [ans EXCEPT ![r] = [q |-> rd[r].q, val |-> v]]
  BY Zenon DEF Answer, Go
<1>3. OwnLocals(origin, proofs, x)
  BY FreshOwn, Zenon
<1> HIDE DEF x
<1>4. ReaderInv'
  BY <1>1, <1>2, <1>3, ReaderSet, Zenon DEF EngineInv, ReaderInv, OwnLocals
<1>5. StoreInv' /\ ProofsInv' /\ LruInv'
  BY <1>1 DEF EngineInv, StoreInv, ProofsInv, LruInv
<1>6. AnswerInv'
  <2>1. v \in Value
    BY DEF Own
  <2>2. ans' \in [Reader -> [q : Query \cup {Absent}, val : Value]]
    BY <1>2, <2>1 DEF EngineInv, AnswerInv
  <2>3. ASSUME NEW y \in Reader PROVE Own(origin, ans'[y].q, ans'[y].val)
    <3>1. CASE y = r
      <4>1. ans'[y].q = rd[r].q /\ ans'[y].val = v
        BY <1>2, <3>1 DEF EngineInv, AnswerInv
      <4> QED BY <4>1
    <3>2. CASE y # r
      <4>1. ans'[y] = ans[y]
        BY <1>2, <3>2 DEF EngineInv, AnswerInv
      <4> QED BY <4>1 DEF EngineInv, AnswerInv
    <3> QED BY <3>1, <3>2
  <2> QED BY <1>1, <2>2, <2>3 DEF AnswerInv
<1> QED BY <1>4, <1>5, <1>6 DEF EngineInv

-----------------------------------------------------------------------------
(* The LRU list.                                                           *)
Distinct(s) == \A i, j \in 1..Len(s) : s[i] = s[j] => i = j

Has(s, q) == \E i \in 1..Len(s) : s[i] = q

LEMMA PushFront ==
  ASSUME NEW s \in Seq(Query), Distinct(s), NEW q \in Query, ~Has(s, q), NEW t, t = <<q>> \o s
  PROVE  /\ t \in Seq(Query) /\ Len(t) = Len(s) + 1 /\ Distinct(t)
         /\ \A x : Has(t, x) <=> x = q \/ Has(s, x)
<1>1. /\ t \in Seq(Query) /\ Len(t) = Len(s) + 1 /\ Len(s) \in Nat /\ t[1] = q
      /\ \A i \in 1..Len(s) : t[i + 1] = s[i]
  OBVIOUS
<1>2. \A i \in 1..Len(t) : i = 1 \/ (i - 1 \in 1..Len(s) /\ t[i] = s[i - 1])
  BY <1>1
<1>3. Distinct(t)
  <2> SUFFICES ASSUME NEW i \in 1..Len(t), NEW j \in 1..Len(t), t[i] = t[j] PROVE i = j
    BY DEF Distinct
  <2>1. CASE i = 1 /\ j = 1
    BY <2>1
  <2>2. CASE i = 1 /\ j # 1
    BY <1>1, <1>2, <2>2 DEF Has
  <2>3. CASE i # 1 /\ j = 1
    BY <1>1, <1>2, <2>3 DEF Has
  <2>4. CASE i # 1 /\ j # 1
    <3>1. i - 1 \in 1..Len(s) /\ j - 1 \in 1..Len(s) /\ s[i - 1] = s[j - 1]
      BY <1>2, <2>4
    <3>2. i - 1 = j - 1
      BY <3>1, Zenon DEF Distinct
    <3> QED BY <3>2
  <2> QED BY <2>1, <2>2, <2>3, <2>4
<1>4. ASSUME NEW x PROVE Has(t, x) <=> x = q \/ Has(s, x)
  <2>1. Has(t, x) => x = q \/ Has(s, x)
    BY <1>1, <1>2 DEF Has
  <2>2. x = q => Has(t, x)
    BY <1>1 DEF Has
  <2>3. ASSUME NEW i \in 1..Len(s), s[i] = x PROVE Has(t, x)
    <3>1. i + 1 \in 1..Len(t) /\ t[i + 1] = x
      BY <1>1, <2>3
    <3> QED BY <3>1 DEF Has
  <2> QED BY <2>1, <2>2, <2>3 DEF Has
<1> QED BY <1>1, <1>3, <1>4

LEMMA DropAt ==
  ASSUME NEW s \in Seq(Query), Distinct(s), NEW k \in 1..Len(s), NEW t, t = RemoveAt(s, k)
  PROVE  /\ t \in Seq(Query) /\ Len(t) = Len(s) - 1 /\ Distinct(t)
         /\ \A x : Has(t, x) <=> x # s[k] /\ Has(s, x)
<1> DEFINE a == SubSeq(s, 1, k - 1)
           b == SubSeq(s, k + 1, Len(s))
<1>0. Len(s) \in Nat /\ k \in Nat
  OBVIOUS
<1>1. a \in Seq(Query) /\ Len(a) = k - 1 /\ \A i \in 1..(k - 1) : a[i] = s[i]
  BY <1>0
<1>2. b \in Seq(Query) /\ Len(b) = Len(s) - k /\ \A i \in 1..(Len(s) - k) : b[i] = s[k + i]
  BY <1>0
<1>3. t = a \o b
  BY DEF RemoveAt
<1> HIDE DEF a, b
<1>4. t \in Seq(Query) /\ Len(t) = Len(s) - 1
  BY <1>0, <1>1, <1>2, <1>3
<1>5. ASSUME NEW i \in 1..Len(t) PROVE t[i] = IF i < k THEN s[i] ELSE s[i + 1]
  <2>1. CASE i < k
    <3>1. t[i] = a[i]
      BY <1>0, <1>1, <1>2, <1>3, <1>4, <2>1
    <3> QED BY <1>0, <1>1, <2>1, <3>1
  <2>2. CASE i >= k
    <3> DEFINE j == i - (k - 1)
    <3>1. j \in 1..(Len(s) - k) /\ k + j = i + 1 /\ i = j + (k - 1)
      BY <1>0, <1>4, <2>2
    <3>2. t[i] = b[j]
      BY <1>0, <1>1, <1>2, <1>3, <1>4, <2>2
    <3> HIDE DEF j
    <3> QED BY <1>0, <1>2, <2>2, <3>1, <3>2
  <2> QED BY <1>0, <2>1, <2>2
<1>6. Distinct(t)
  BY <1>0, <1>4, <1>5 DEF Distinct
<1>7. ASSUME NEW x PROVE Has(t, x) <=> x # s[k] /\ Has(s, x)
  <2>1. ASSUME NEW i \in 1..Len(t), t[i] = x PROVE x # s[k] /\ Has(s, x)
    <3>1. CASE i < k
      <4>1. s[i] = x /\ i \in 1..Len(s) /\ i # k
        BY <1>0, <1>4, <1>5, <2>1, <3>1
      <4> QED BY <4>1 DEF Has, Distinct
    <3>2. CASE i >= k
      <4>1. s[i + 1] = x /\ i + 1 \in 1..Len(s) /\ i + 1 # k
        BY <1>0, <1>4, <1>5, <2>1, <3>2
      <4> QED BY <4>1 DEF Has, Distinct
    <3> QED BY <1>0, <3>1, <3>2
  <2>2. ASSUME NEW i \in 1..Len(s), s[i] = x, x # s[k] PROVE Has(t, x)
    <3>1. CASE i < k
      <4>1. i \in 1..Len(t) /\ t[i] = x
        BY <1>0, <1>4, <1>5, <2>2, <3>1
      <4> QED BY <4>1 DEF Has
    <3>2. CASE i > k
      <4>1. i - 1 \in 1..Len(t) /\ t[i - 1] = s[(i - 1) + 1] /\ (i - 1) + 1 = i
        BY <1>0, <1>4, <1>5, <2>2, <3>2
      <4> QED BY <2>2, <4>1 DEF Has
    <3> QED BY <1>0, <2>2, <3>1, <3>2
  <2> QED BY <2>1, <2>2 DEF Has
<1> QED BY <1>4, <1>6, <1>7

LEMMA ToFrontOf ==
  ASSUME LruInv, NEW q \in Query, cache[q] # 0, NEW t, t = MoveToFront(q)
  PROVE  /\ t \in Seq(Query) /\ Len(t) = Len(lru) /\ Distinct(t)
         /\ \A x : Has(t, x) <=> Has(lru, x)
<1> DEFINE u == RemoveAt(lru, CHOOSE i \in DOMAIN lru : lru[i] = q)
<1>1. lru \in Seq(Query) /\ Distinct(lru) /\ Has(lru, q) /\ Len(lru) \in Nat
  BY DEF LruInv, Distinct, Has
<1>2. \E i \in DOMAIN lru : lru[i] = q
  BY <1>1 DEF Has
<1>3. PICK k : k = CHOOSE i \in DOMAIN lru : lru[i] = q
  OBVIOUS
<1>4. k \in DOMAIN lru /\ lru[k] = q
  BY <1>2, <1>3, Zenon
<1>5. k \in 1..Len(lru) /\ lru[k] = q /\ u = RemoveAt(lru, k)
  BY <1>1, <1>3, <1>4
<1> HIDE DEF u
<1>6. /\ u \in Seq(Query) /\ Len(u) = Len(lru) - 1 /\ Distinct(u)
      /\ \A x : Has(u, x) <=> x # q /\ Has(lru, x)
  BY <1>1, <1>5, DropAt, Zenon
<1>7. t = <<q>> \o u /\ ~Has(u, q)
  BY <1>6, Zenon DEF MoveToFront, u
<1>8. /\ t \in Seq(Query) /\ Len(t) = Len(u) + 1 /\ Distinct(t)
      /\ \A x : Has(t, x) <=> x = q \/ Has(u, x)
  BY <1>6, <1>7, PushFront, Zenon
<1> QED BY <1>1, <1>6, <1>8

-----------------------------------------------------------------------------
(* The steps of GET that leave the proofs alone.                           *)
LEMMA ReaderFacts ==
  ASSUME EngineInv, NEW r \in Reader
  PROVE  /\ OwnLocals(origin, proofs, rd[r]) /\ rd[r] \in Locals(rd[r])
         /\ rd[r].pc \notin {"idle", "panic"} => rd[r].q \in Query /\ rd[r].q \in Path
         /\ rd[r].pc \in Using =>
              rd[r].ref \in Ref /\ OwnProof(origin, proofs[rd[r].ref], rd[r].q)
<1>1. OwnLocals(origin, proofs, rd[r])
  BY DEF EngineInv, ReaderInv
<1>2. rd[r] \in Locals(rd[r])
  BY <1>1 DEF OwnLocals
<1>3. rd[r].ref \in Ref \cup {0}
  BY <1>2 DEF Locals
<1> QED BY <1>1, <1>2, <1>3, EngineAssumption DEF OwnLocals

LEMMA BeginInv ==
  ASSUME EngineInv, NEW r \in Reader, NEW q \in Query, Begin(r, q)
  PROVE  EngineInv'
<1> DEFINE x == [Idle EXCEPT !.pc = "get", !.q = q]
<1>1. rd' = [rd EXCEPT ![r] = x] /\ UNCHANGED <<store, proofs, cache, lru, ans>>
  BY DEF Begin, Go
<1>2. OwnLocals(origin, proofs, x)
  BY FreshOwn, Zenon
<1> HIDE DEF x
<1> QED BY <1>1, <1>2, Moved, LruKept, Zenon DEF EngineInv

LEMMA DoneInv ==
  ASSUME EngineInv, NEW r \in Reader, Done(r)
  PROVE  EngineInv'
<1>1. /\ rd' = [rd EXCEPT ![r] = Idle] /\ ans' = [ans EXCEPT ![r] = NoAnswer]
      /\ UNCHANGED <<frontier, origin, proofs, cache, lru>>
  BY Zenon DEF Done, Go, store
<1>2. ReaderInv'
  <2>1. OwnLocals(origin, proofs, Idle)
    BY FreshOwn, Zenon
  <2> QED BY <1>1, <2>1, ReaderSet, Zenon DEF EngineInv, ReaderInv, OwnLocals
<1>3. StoreInv' /\ ProofsInv' /\ LruInv'
  BY <1>1 DEF EngineInv, StoreInv, ProofsInv, LruInv
<1>4. AnswerInv'
  <2>1. NoAnswer \in [q : Query \cup {Absent}, val : Value]
        /\ Own(origin, NoAnswer.q, NoAnswer.val)
    BY NilOwn DEF NoAnswer
  <2>2. ans' \in [Reader -> [q : Query \cup {Absent}, val : Value]]
    BY <1>1, <2>1 DEF EngineInv, AnswerInv
  <2>3. \A y \in Reader : ans'[y] \in {ans[y], NoAnswer}
    BY <1>1 DEF EngineInv, AnswerInv
  <2>4. ASSUME NEW y \in Reader PROVE Own(origin, ans'[y].q, ans'[y].val)
    BY <2>1, <2>3 DEF EngineInv, AnswerInv
  <2> QED BY <1>1, <2>2, <2>4 DEF AnswerInv
<1> QED BY <1>2, <1>3, <1>4 DEF EngineInv

LEMMA GetFirstInv ==
  ASSUME EngineInv, NEW r \in Reader, GetFirst(r)
  PROVE  EngineInv'
<1>0. rd[r].pc = "get" /\ UNCHANGED <<store, proofs, cache, lru>>
  BY Zenon DEF GetFirst, At
<1>1. rd[r].q \in Query /\ rd[r] \in Locals(rd[r]) /\ OwnLocals(origin, proofs, rd[r])
  BY <1>0, ReaderFacts, Zenon
<1>2. CASE Answer(r, Nil)
  BY <1>0, <1>1, <1>2, NilOwn, Answered
<1>3. CASE Go(r, [rd[r] EXCEPT !.pc = "lookup"]) /\ UNCHANGED ans
  <2> DEFINE x == [rd[r] EXCEPT !.pc = "lookup"]
  <2>1. x \in Locals(x) /\ x.pc = "lookup" /\ x.q = rd[r].q /\ x.ref = rd[r].ref /\ x.nodes = rd[r].nodes
    BY <1>1 DEF Locals, Ops
  <2>2. OwnLocals(origin, proofs, x)
    <3> HIDE DEF x
    <3> QED BY <1>0, <1>1, <2>1, QuietOwn DEF OwnLocals, Building, Using
  <2>3. rd' = [rd EXCEPT ![r] = x]
    BY <1>3, Zenon DEF Go
  <2> HIDE DEF x
  <2> QED BY <1>0, <1>3, <2>2, <2>3, Moved, LruKept, Zenon DEF EngineInv
<1> QED BY <1>2, <1>3 DEF GetFirst

LEMMA LookupInv ==
  ASSUME EngineInv, NEW r \in Reader, Lookup(r)
  PROVE  EngineInv'
<1>0. rd[r].pc = "lookup" /\ UNCHANGED <<store, proofs, cache, ans>>
  BY Zenon DEF Lookup, At
<1>1. rd[r].q \in Query /\ rd[r] \in Locals(rd[r]) /\ OwnLocals(origin, proofs, rd[r])
  BY <1>0, ReaderFacts
<1>2. CASE cache[rd[r].q] = 0
  <2> DEFINE x == [rd[r] EXCEPT !.pc = "gather"]
  <2>1. x \in Locals(x) /\ x.pc = "gather" /\ x.q = rd[r].q /\ x.ref = rd[r].ref /\ x.nodes = rd[r].nodes
    BY <1>1 DEF Locals, Ops
  <2>2. rd' = [rd EXCEPT ![r] = x] /\ lru' = lru
    BY <1>2 DEF Lookup, Go
  <2> HIDE DEF x
  <2>3. OwnLocals(origin, proofs, x)
    BY <1>0, <1>1, <2>1, QuietOwn DEF OwnLocals, Building, Using
  <2>4. LruInv'
    BY <1>0, <2>2, LruKept, Zenon DEF EngineInv
  <2> QED BY <1>0, <2>2, <2>3, <2>4, Moved, Zenon
<1>3. CASE cache[rd[r].q] # 0
  <2> DEFINE i == cache[rd[r].q]
             x == [rd[r] EXCEPT !.pc = "lock", !.ref = i]
  <2>1. i \in Ref /\ OwnProof(origin, proofs[i], rd[r].q)
    BY <1>1, <1>3 DEF EngineInv, LruInv, ProofsInv
  <2>2. rd' = [rd EXCEPT ![r] = x] /\ lru' = MoveToFront(rd[r].q)
    BY <1>3 DEF Lookup, Go
  <2> HIDE DEF i
  <2>3. x \in Locals(x) /\ x.pc = "lock" /\ x.q = rd[r].q /\ x.ref = i /\ x.nodes = rd[r].nodes
    BY <1>1, <2>1, Zenon DEF Locals, Ops
  <2> HIDE DEF x
  <2>4. OwnLocals(origin, proofs, x)
    <3>1. rd[r].nodes = <<>> /\ i # 0
      BY <1>0, <1>1, <1>3 DEF OwnLocals, Building, i
    <3> QED BY <1>1, <2>1, <2>3, <3>1 DEF OwnLocals, Building, Using
  <2>5. LruInv'
    <3>1. LruInv /\ \A q \in Query : cache[q] # 0 <=> Has(lru, q)
      BY Zenon DEF EngineInv, LruInv, Has
    <3>2. /\ lru' \in Seq(Query) /\ Len(lru') = Len(lru) /\ Distinct(lru')
          /\ \A q : Has(lru', q) <=> Has(lru, q)
      BY <1>1, <1>3, <2>2, <3>1, ToFrontOf
    <3>3. \A q \in Query : cache[q] # 0 <=> Has(lru', q)
      BY <3>1, <3>2
    <3> QED BY <1>0, <3>1, <3>2, <3>3, Zenon DEF LruInv, Distinct, Has
  <2> QED BY <1>0, <2>2, <2>4, <2>5, Moved, Zenon
<1> QED BY <1>2, <1>3

LEMMA GatherInv ==
  ASSUME EngineInv, NEW r \in Reader, Gather(r)
  PROVE  EngineInv'
<1>0. rd[r].pc = "gather" /\ UNCHANGED <<store, proofs, cache, lru>>
  BY Zenon DEF Gather, At
<1>1. /\ rd[r].q \in Query /\ rd[r].q \in Path
      /\ rd[r] \in Locals(rd[r]) /\ OwnLocals(origin, proofs, rd[r])
  BY <1>0, ReaderFacts, Zenon
<1>2. CASE frontier[rd[r].q] = Absent
  <2>1. Answer(r, Nil)
    BY <1>2 DEF Gather
  <2> QED BY <1>0, <1>1, <2>1, NilOwn, Answered
<1>3. CASE frontier[rd[r].q] # Absent
  <2> DEFINE h == frontier[rd[r].q].hash
             s == <<[hash |-> 0, path |-> rd[r].q, up |-> 0]>>
             x == [rd[r] EXCEPT !.pc = "build", !.hash = h, !.stack = s]
  <2>1. h \in Hash
    BY <1>1, <1>3 DEF EngineInv, StoreInv
  <2>2. rd' = [rd EXCEPT ![r] = x] /\ ans' = ans
    BY <1>3 DEF Gather, Go
  <2>3. /\ s \in Seq([hash : Hash \cup {0}, path : Path \cup {Absent}, up : Nat])
        /\ Len(s) = 1 /\ s[1].path = rd[r].q /\ s[1].up = 0
    BY <1>1
  <2> HIDE DEF h, s
  <2>4. /\ x \in Locals(x) /\ x.pc = "build" /\ x.q = rd[r].q /\ x.ref = rd[r].ref
        /\ x.nodes = rd[r].nodes /\ x.stack = s
    BY <1>1, <2>1, Zenon DEF Locals, Ops
  <2> HIDE DEF x
  <2>5. rd[r].nodes = <<>> /\ rd[r].ref = 0
    BY <1>0, <1>1 DEF OwnLocals, Building, Using
  <2>6. ToBuild(origin, x.q, x.nodes, x.stack)
    <3>1. \A i \in 1..Len(s) : i = 1 /\ Item(origin, s[i], 0)
      BY <1>1, <2>3, EngineAssumption DEF Item
    <3>2. Len(x.nodes) = 0
      BY <2>4, <2>5
    <3> QED BY <2>3, <2>4, <3>1, <3>2, Zenon DEF ToBuild
  <2>7. OwnTree(origin, x)
    BY <2>4, <2>5 DEF OwnTree, Tree
  <2>8. OwnLocals(origin, proofs, x)
    BY <1>1, <2>4, <2>5, <2>6, <2>7 DEF OwnLocals, Building, Using
  <2> QED BY <1>0, <2>2, <2>8, Moved, LruKept, Zenon DEF EngineInv
<1> QED BY <1>2, <1>3

(* Build: the three ways it goes on.                                       *)
LEMMA BuildLooks ==
  ASSUME NEW o \in Seq(Path), NEW q, NEW nodes, NEW s, ToBuild(o, q, nodes, s), s # <<>>,
         NEW p \in Path, Head(s).path = Absent, q # Absent,
         NEW t, t = [s EXCEPT ![1].path = p]
  PROVE  ToBuild(o, q, nodes, t)
<1> DEFINE Frame == [hash : Hash \cup {0}, path : Path \cup {Absent}, up : Nat]
<1>0. s \in Seq(Frame)
  BY DEF ToBuild
<1>1. 1 \in 1..Len(s) /\ s[1] \in Frame /\ Len(s) \in Nat /\ Head(s) = s[1]
  <2> HIDE DEF Frame
  <2> QED BY <1>0
<1>2. t = [s EXCEPT ![1] = [s[1] EXCEPT !.path = p]]
  OBVIOUS
<1>3. [s[1] EXCEPT !.path = p] \in Frame
  BY <1>1, Zenon
<1>4. t \in Seq(Frame) /\ Len(t) = Len(s) /\ \A i \in 1..Len(s) : i # 1 => t[i] = s[i]
  <2> HIDE DEF Frame
  <2> QED BY <1>0, <1>1, <1>2, <1>3
<1>5. t[1].path = p /\ t[1].up = s[1].up
  <2>1. t[1] = [s[1] EXCEPT !.path = p]
    BY <1>0, <1>1, <1>2
  <2> QED BY <1>1, <2>1
<1>6. \A i \in 1..Len(t) : Item(o, t[i], Len(nodes))
  BY <1>1, <1>4, <1>5, EngineAssumption DEF ToBuild, Item
<1>7. nodes # <<>>
  BY <1>1 DEF ToBuild
<1> QED BY <1>4, <1>6, <1>7, Zenon DEF ToBuild

LEMMA BuildSkips ==
  ASSUME NEW o, NEW q, NEW nodes, NEW s, ToBuild(o, q, nodes, s), s # <<>>
  PROVE  ToBuild(o, q, nodes, Tail(s))
<1> DEFINE Frame == [hash : Hash \cup {0}, path : Path \cup {Absent}, up : Nat]
<1>1. s \in Seq(Frame)
  BY DEF ToBuild
<1> HIDE DEF Frame
<1>2. /\ Tail(s) \in Seq(Frame) /\ Len(Tail(s)) = Len(s) - 1 /\ Len(s) \in Nat
      /\ \A i \in 1..Len(Tail(s)) : Tail(s)[i] = s[i + 1] /\ i + 1 \in 1..Len(s)
  BY <1>1
<1> QED BY <1>2 DEF ToBuild, Frame

LEMMA ItemGrows ==
  ASSUME NEW o, NEW it, NEW n \in Nat, Item(o, it, n)
  PROVE  Item(o, it, n + 1)
  BY DEF Item

LEMMA FunctionSeq ==
  ASSUME NEW S, NEW n \in Nat, NEW f \in [1..n -> S]
  PROVE  f \in Seq(S) /\ Len(f) = n
  OBVIOUS

Joins(a, b, t) ==
  \A i \in 1..Len(t) : \/ i \in 1..Len(a) /\ t[i] = a[i]
                       \/ \E j \in 1..Len(b) : t[i] = b[j]

LEMMA Concat ==
  ASSUME NEW S, NEW a \in Seq(S), NEW b \in Seq(S), NEW t, t = a \o b
  PROVE  t \in Seq(S) /\ Joins(a, b, t)
<1>1. t \in Seq(S) /\ Len(t) = Len(a) + Len(b) /\ Len(a) \in Nat /\ Len(b) \in Nat
  OBVIOUS
<1>2. ASSUME NEW i \in 1..Len(t), i > Len(a)
      PROVE  i - Len(a) \in 1..Len(b) /\ t[i] = b[i - Len(a)]
  BY <1>1, <1>2
<1>3. ASSUME NEW i \in 1..Len(a) PROVE t[i] = a[i]
  BY <1>1, <1>3
<1>4. ASSUME NEW i \in 1..Len(t) PROVE i \in 1..Len(a) \/ i > Len(a)
  BY <1>1
<1> QED BY <1>1, <1>2, <1>3, <1>4 DEF Joins

(* The node that Build adds, and what it leaves to be built.               *)
Adds(nodes, s, e, more, t) ==
  /\ more = Append(nodes, [path |-> Head(s).path, expr |-> e, up |-> Head(s).up,
                           cached |-> Absent, dirty |-> FALSE])
  /\ t = [i \in DOMAIN e.atoms |->
            [hash |-> e.atoms[i], path |-> Absent, up |-> Len(nodes) + 1]] \o Tail(s)

LEMMA BuildAdds ==
  ASSUME NEW o \in Seq(Path), NEW q, NEW nodes, NEW s, ToBuild(o, q, nodes, s), s # <<>>,
         Tree(o, nodes), nodes # <<>> => nodes[1].path = q,
         Head(s).path # Absent, NEW e, OwnExpr(o, Head(s).path, e),
         NEW more, NEW t, Adds(nodes, s, e, more, t)
  PROVE  Tree(o, more) /\ more[1].path = q /\ ToBuild(o, q, more, t)
<1> DEFINE Frame == [hash : Hash \cup {0}, path : Path \cup {Absent}, up : Nat]
           N == Len(nodes)
           kids == [i \in DOMAIN e.atoms |-> [hash |-> e.atoms[i], path |-> Absent, up |-> N + 1]]
           p == Head(s).path
           up == Head(s).up
           node == [path |-> p, expr |-> e, up |-> up, cached |-> Absent, dirty |-> FALSE]
<1>0. s \in Seq(Frame) /\ nodes \in Seq(Node)
  BY DEF ToBuild, Tree
<1>1. /\ 1 \in 1..Len(s) /\ Head(s) = s[1] /\ s[1] \in Frame /\ N \in Nat
      /\ Tail(s) \in Seq(Frame) /\ Len(Tail(s)) = Len(s) - 1 /\ Len(s) \in Nat
      /\ \A i \in 1..Len(Tail(s)) : Tail(s)[i] = s[i + 1] /\ i + 1 \in 1..Len(s)
  <2> HIDE DEF Frame
  <2> QED BY <1>0
<1>2. p \in Path /\ up \in 0..N /\ (N = 0 => Len(s) = 1 /\ p = q)
  <2>1. Item(o, s[1], N)
    BY <1>1, Zenon DEF ToBuild
  <2>2. p \in Path /\ up \in 0..N
    BY <1>1, <2>1 DEF Item
  <2>3. N = 0 => Len(s) = 1 /\ p = q
    <3>1. N = 0 => nodes = <<>>
      BY <1>0
    <3>2. ASSUME N = 0 PROVE s[1].path = q /\ \A i \in 1..Len(s) : i = 1
      BY <1>1, <3>1, <3>2, Zenon DEF ToBuild
    <3> QED BY <1>1, <3>2
  <2> QED BY <2>2, <2>3
<1>3. e \in Expr /\ e.atoms \in Seq(Hash) /\ \A i \in 1..Len(e.atoms) : e.atoms[i] \in 1..Len(o)
  BY DEF OwnExpr, Expr
<1>4. node \in Node
  <2>1. up \in Nat
    BY <1>1, <1>2, Zenon
  <2> HIDE DEF p, up
  <2> QED BY <1>2, <1>3, <2>1, Zenon DEF Node
<1>5. node.path = p /\ node.up = up /\ node.expr = e
  BY Zenon
<1>6. more = Append(nodes, node) /\ t = kids \o Tail(s)
  BY Zenon DEF Adds
<1> HIDE DEF node, p, up
<1>7. /\ more \in Seq(Node) /\ Len(more) = N + 1 /\ more[N + 1] = node
      /\ \A i \in 1..N : more[i] = nodes[i]
  BY <1>0, <1>1, <1>4, <1>6
<1>8. Tree(o, more)
  <2>1. OwnExpr(o, p, e)
    BY Zenon DEF p
  <2>2. ASSUME NEW n \in 1..Len(more)
        PROVE  more[n].up < n /\ OwnExpr(o, more[n].path, more[n].expr)
    <3>1. CASE n = N + 1
      BY <1>1, <1>2, <1>5, <1>7, <2>1, <3>1
    <3>2. CASE n \in 1..N
      BY <1>7, <3>2 DEF Tree
    <3> QED BY <1>1, <1>7, <3>1, <3>2
  <2> QED BY <1>7, <2>2, Zenon DEF Tree
<1>9. more[1].path = q /\ more # <<>>
  <2>1. CASE N = 0
    BY <1>1, <1>2, <1>5, <1>7, <2>1
  <2>2. CASE N # 0
    <3>1. nodes # <<>> /\ 1 \in 1..N
      BY <1>0, <1>1, <2>2
    <3>2. nodes[1].path = q
      BY <3>1
    <3>3. more[1] = nodes[1] /\ Len(more) # 0
      BY <1>1, <1>7, <3>1
    <3> QED BY <3>2, <3>3
  <2> QED BY <2>1, <2>2, Zenon
<1>10. /\ kids \in Seq(Frame) /\ Len(kids) = Len(e.atoms) /\ Len(e.atoms) \in Nat
       /\ \A i \in 1..Len(kids) : /\ kids[i].path = Absent /\ kids[i].up = N + 1
                                  /\ kids[i].hash = e.atoms[i]
  <2>1. \A i \in 1..Len(e.atoms) :
          [hash |-> e.atoms[i], path |-> Absent, up |-> N + 1] \in Frame
    BY <1>1, <1>3
  <2>2. DOMAIN e.atoms = 1..Len(e.atoms) /\ Len(e.atoms) \in Nat
    BY <1>3
  <2>3. kids \in [1..Len(e.atoms) -> Frame]
    BY <2>1, <2>2, Zenon
  <2>4. kids \in Seq(Frame) /\ Len(kids) = Len(e.atoms)
    <3> HIDE DEF kids, Frame
    <3> QED BY <2>2, <2>3, FunctionSeq, Zenon
  <2> QED BY <2>2, <2>4, Zenon
<1> HIDE DEF kids
<1>11. t \in Seq(Frame) /\ Joins(kids, Tail(s), t)
  <2> HIDE DEF Frame
  <2>1. kids \in Seq(Frame) /\ Tail(s) \in Seq(Frame) /\ t = kids \o Tail(s)
    BY <1>1, <1>6, <1>10
  <2> QED BY <2>1, Concat, Zenon
<1>12. ASSUME NEW i \in 1..Len(t) PROVE Item(o, t[i], N + 1)
  <2>1. CASE i \in 1..Len(kids) /\ t[i] = kids[i]
    <3>1. kids[i].path = Absent /\ kids[i].up = N + 1 /\ kids[i].hash \in 1..Len(o)
      BY <1>3, <1>10, <2>1, Zenon
    <3>2. N + 1 \in 0..(N + 1)
      BY <1>1
    <3> QED BY <2>1, <3>1, <3>2 DEF Item
  <2>2. ASSUME NEW j \in 1..Len(Tail(s)), t[i] = Tail(s)[j] PROVE Item(o, t[i], N + 1)
    <3>1. t[i] = s[j + 1] /\ Item(o, s[j + 1], N)
      BY <1>1, <2>2, Zenon DEF ToBuild
    <3> QED BY <1>1, <3>1, ItemGrows, Zenon
  <2> QED BY <1>11, <2>1, <2>2, Zenon DEF Joins
<1>13. ToBuild(o, q, more, t)
  BY <1>7, <1>9, <1>11, <1>12, Zenon DEF ToBuild
<1> QED BY <1>8, <1>9, <1>13, Zenon

LEMMA BuildInv ==
  ASSUME EngineInv, NEW r \in Reader, Build(r)
  PROVE  EngineInv'
<1> DEFINE me == rd[r]
           it == Head(me.stack)
           a == frontier[it.path]
           looked == [me EXCEPT !.stack[1].path = AtomPath(it.hash)]
           skipped == [me EXCEPT !.stack = Tail(me.stack)]
           node == [path |-> it.path, expr |-> a.expr, up |-> it.up, cached |-> Absent, dirty |-> FALSE]
           more == Append(me.nodes, node)
           rest == [i \in DOMAIN a.expr.atoms |->
                      [hash |-> a.expr.atoms[i], path |-> Absent, up |-> Len(me.nodes) + 1]]
                   \o Tail(me.stack)
           added == [me EXCEPT !.nodes = more, !.stack = rest]
<1>0. me.pc = "build" /\ me.stack # <<>> /\ UNCHANGED <<store, proofs, cache, lru, ans>>
  BY Zenon DEF Build, At
<1>1. /\ OwnLocals(origin, proofs, me) /\ me \in Locals(me) /\ me.q \in Query /\ me.q \in Path
  BY <1>0, ReaderFacts, Zenon
<1>2. /\ Tree(origin, me.nodes) /\ (me.nodes # <<>> => me.nodes[1].path = me.q)
      /\ ToBuild(origin, me.q, me.nodes, me.stack) /\ me.ref = 0
  BY <1>0, <1>1, Zenon DEF OwnLocals, OwnTree, Building, Using
<1>3. origin \in Seq(Path) /\ me.q # Absent
  BY <1>1, EngineAssumption, Zenon DEF EngineInv, StoreInv
<1>4. ASSUME NEW x, x \in Locals(x), x.pc = "build", x.q = me.q, x.ref = me.ref,
             Tree(origin, x.nodes), x.nodes # <<>> => x.nodes[1].path = me.q,
             ToBuild(origin, me.q, x.nodes, x.stack), rd' = [rd EXCEPT ![r] = x]
      PROVE  EngineInv'
  <2>1. OwnLocals(origin, proofs, x)
    BY <1>1, <1>2, <1>4, Zenon DEF OwnLocals, OwnTree, Building, Using
  <2> QED BY <1>0, <1>4, <2>1, Moved, LruKept, Zenon DEF EngineInv
<1>5. Item(origin, it, Len(me.nodes))
  <2>1. 1 \in 1..Len(me.stack) /\ it = me.stack[1]
    BY <1>0, <1>2 DEF ToBuild
  <2> HIDE DEF it
  <2> QED BY <1>2, <2>1, Zenon DEF ToBuild
<1>6. CASE it.path = Absent /\ AtomPath(it.hash) # Absent
  <2>1. rd' = [rd EXCEPT ![r] = looked]
    BY <1>6 DEF Build, Go
  <2> DEFINE p == AtomPath(it.hash)
             t == [me.stack EXCEPT ![1].path = p]
  <2>2. p \in Path
    <3>1. it.hash \in 1..Len(origin)
      BY <1>5, <1>6 DEF Item
    <3>2. origin[it.hash] \in Path
      BY <1>3, <3>1
    <3> QED BY <1>6, <3>2, Zenon DEF AtomPath
  <2>3. ToBuild(origin, me.q, me.nodes, t)
    <3> HIDE DEF p
    <3> QED BY <1>0, <1>2, <1>3, <1>6, <2>2, BuildLooks
  <2>4. looked = [me EXCEPT !.stack = t]
    OBVIOUS
  <2> HIDE DEF t, looked, me
  <2>5. /\ looked \in Locals(looked) /\ looked.pc = me.pc /\ looked.q = me.q /\ looked.ref = me.ref
        /\ looked.nodes = me.nodes /\ looked.stack = t
    BY <1>1, <2>4, Zenon DEF Locals
  <2> QED BY <1>0, <1>2, <1>4, <2>1, <2>3, <2>5, Zenon
<1>7. CASE ~(it.path = Absent /\ AtomPath(it.hash) # Absent) /\ (it.path = Absent \/ a = Absent)
  <2>1. rd' = [rd EXCEPT ![r] = skipped]
    BY <1>7, Zenon DEF Build, Go
  <2>2. ToBuild(origin, me.q, me.nodes, Tail(me.stack))
    BY <1>0, <1>2, BuildSkips
  <2> DEFINE t == Tail(me.stack)
  <2>3. skipped = [me EXCEPT !.stack = t]
    OBVIOUS
  <2> HIDE DEF t, skipped, me
  <2>4. /\ skipped \in Locals(skipped) /\ skipped.pc = me.pc /\ skipped.q = me.q
        /\ skipped.ref = me.ref /\ skipped.nodes = me.nodes /\ skipped.stack = t
    BY <1>1, <2>3, Zenon DEF Locals
  <2> QED BY <1>0, <1>2, <1>4, <2>1, <2>2, <2>4, Zenon DEF t
<1>8. CASE it.path # Absent /\ a # Absent
  <2>1. rd' = [rd EXCEPT ![r] = added]
    BY <1>8, Zenon DEF Build, Go
  <2>2. OwnExpr(origin, it.path, a.expr)
    <3>1. it.path \in Path
      BY <1>5, <1>8, Zenon DEF Item
    <3> QED BY <1>8, <3>1, Zenon DEF EngineInv, StoreInv, OwnAtom
  <2>3. Tree(origin, more) /\ more[1].path = me.q /\ ToBuild(origin, me.q, more, rest)
    <3>1. Adds(me.nodes, me.stack, a.expr, more, rest)
      BY Zenon DEF Adds
    <3> HIDE DEF more, rest, me
    <3> QED BY <1>0, <1>2, <1>3, <1>8, <2>2, <3>1, BuildAdds
  <2> HIDE DEF more, rest
  <2>4. more \in Seq(Node)
    BY <2>3 DEF Tree
  <2>5. added = [me EXCEPT !.nodes = more, !.stack = rest]
    OBVIOUS
  <2> HIDE DEF added, me
  <2>6. /\ added \in Locals(added) /\ added.pc = me.pc /\ added.q = me.q
        /\ added.ref = me.ref /\ added.nodes = more /\ added.stack = rest
    BY <1>1, <2>4, <2>5, Zenon DEF Locals
  <2> QED BY <1>0, <1>4, <2>1, <2>3, <2>6, Zenon
<1> QED BY <1>6, <1>7, <1>8, Zenon

LEMMA CaptureInv ==
  ASSUME EngineInv, NEW r \in Reader, Capture(r) \/ \E p \in Path : CaptureNode(r, p)
  PROVE  EngineInv'
<1> DEFINE me == rd[r]
<1>0. me.pc \in Building /\ UNCHANGED <<store, proofs, cache, lru, ans>>
  BY Zenon DEF Capture, CaptureNode, At, Building
<1>1. OwnLocals(origin, proofs, me) /\ me \in Locals(me) /\ me.q \in Query /\ me.q \in Path
  BY <1>0, ReaderFacts, Zenon DEF Building
<1>2. OwnTree(origin, me) /\ me.ref = 0
  BY <1>0, <1>1 DEF OwnLocals, Building, Using
<1>3. \A p \in Path : frontier[p] # Absent => frontier[p].hash \in Hash
  BY Zenon DEF EngineInv, StoreInv
<1>4. me.vv \in Vector /\ me.hash \in Hash \cup {0} /\ me.nodes \in Seq(Node) /\ me.todo \in SUBSET Path
  BY <1>1, Zenon DEF Locals
<1>5. PICK vv \in Vector, todo \in SUBSET Path :
        rd' = [rd EXCEPT ![r] = [me EXCEPT !.pc = "vector", !.vv = vv, !.todo = todo]]
  <2>1. CASE Capture(r)
    <3> DEFINE h == IF frontier[me.q] # Absent THEN frontier[me.q].hash ELSE me.hash
               vv == [me.vv EXCEPT ![me.q] = h]
               todo == NodePaths(me.nodes) \ {me.q}
    <3>1. rd' = [rd EXCEPT ![r] = [me EXCEPT !.pc = "vector", !.vv = vv, !.todo = todo]]
      BY <2>1, Zenon DEF Capture, Go
    <3>2. h \in Hash \cup {0}
      BY <1>1, <1>3, <1>4, Zenon
    <3>3. vv \in Vector
      <4> HIDE DEF h
      <4> QED BY <1>4, <3>2, Zenon DEF Vector
    <3>4. \A n \in DOMAIN me.nodes : me.nodes[n].path \in Path
      <4>1. \A n \in DOMAIN me.nodes : me.nodes[n] \in Node
        BY <1>4
      <4> QED BY <4>1 DEF Node
    <3>5. todo \in SUBSET Path
      BY <3>4 DEF NodePaths
    <3> HIDE DEF vv, todo, me
    <3> QED BY <3>1, <3>3, <3>5, Zenon
  <2>2. ASSUME NEW p \in Path, CaptureNode(r, p)
        PROVE  \E vv \in Vector, todo \in SUBSET Path :
                 rd' = [rd EXCEPT ![r] = [me EXCEPT !.pc = "vector", !.vv = vv, !.todo = todo]]
    <3> DEFINE h == IF frontier[p] # Absent THEN frontier[p].hash ELSE me.vv[p]
               vv == [me.vv EXCEPT ![p] = h]
               todo == me.todo \ {p}
    <3>1. rd' = [rd EXCEPT ![r] = [me EXCEPT !.todo = todo, !.vv = vv]] /\ me.pc = "vector"
      <4>1. [me EXCEPT !.todo = @ \ {p}, !.vv[p] = IF frontier[p] # Absent THEN frontier[p].hash ELSE @]
              = [me EXCEPT !.todo = todo, !.vv = vv]
        BY <1>1, Zenon DEF Locals
      <4> QED BY <2>2, <4>1, Zenon DEF CaptureNode, Go, At
    <3>2. h \in Hash \cup {0}
      BY <1>3, <1>4, Zenon DEF Vector
    <3>3. vv \in Vector
      <4> HIDE DEF h
      <4> QED BY <1>4, <3>2, Zenon DEF Vector
    <3>4. todo \in SUBSET Path
      BY <1>4
    <3> HIDE DEF vv, todo, me
    <3>5. [me EXCEPT !.todo = todo, !.vv = vv] = [me EXCEPT !.pc = "vector", !.vv = vv, !.todo = todo]
      BY <1>1, <3>1, Zenon DEF Locals
    <3> QED BY <3>1, <3>3, <3>4, <3>5, Zenon
  <2> QED BY <2>1, <2>2, Zenon
<1> DEFINE x == [me EXCEPT !.pc = "vector", !.vv = vv, !.todo = todo]
<1> HIDE DEF me
<1>6. x \in Locals(x) /\ x.pc = "vector" /\ x.q = me.q /\ x.ref = me.ref /\ x.nodes = me.nodes
  BY <1>1, <1>5, Zenon DEF Locals, Ops
<1>7. rd' = [rd EXCEPT ![r] = x]
  BY <1>5
<1> HIDE DEF x
<1>8. OwnLocals(origin, proofs, x)
  BY <1>1, <1>2, <1>6 DEF OwnLocals, OwnTree, Building, Using
<1> QED BY <1>0, <1>7, <1>8, Moved, LruKept, Zenon DEF EngineInv

(* Inside ReduceIncremental, before and after the proof is changed.        *)
LEMMA VerifyInv ==
  ASSUME EngineInv, NEW r \in Reader,
         Lock(r) \/ \E p \in Path : Verify(r, p) \/ FindChanged(r, p)
  PROVE  EngineInv'
<1> DEFINE me == rd[r]
<1>0. me.pc \in Using /\ UNCHANGED <<store, proofs, cache, lru, ans>>
  BY Zenon DEF Lock, Verify, FindChanged, At, Using
<1>1. OwnLocals(origin, proofs, me) /\ me \in Locals(me)
  BY ReaderFacts, Zenon
<1>2. me.todo \in SUBSET Path /\ me.changed \in SUBSET Path
  BY <1>1 DEF Locals
<1>3. \A i : Entries(i) \in SUBSET Path
  BY DEF Entries
<1>4. ASSUME NEW x, rd' = [rd EXCEPT ![r] = x], NEW l \in {"verify", "find"},
             NEW todo \in SUBSET Path, NEW changed \in SUBSET Path,
             \/ x = [me EXCEPT !.pc = l, !.todo = todo]
             \/ x = [me EXCEPT !.todo = todo] /\ me.pc = l
             \/ x = [me EXCEPT !.todo = todo, !.changed = changed] /\ me.pc = l
      PROVE  EngineInv'
  <2> HIDE DEF me
  <2>1. x \in Locals(x) /\ x.pc = l /\ x.q = me.q /\ x.ref = me.ref /\ x.nodes = me.nodes
    BY <1>1, <1>4 DEF Locals, Ops
  <2>2. OwnLocals(origin, proofs, x)
    BY <1>0, <1>1, <2>1, UsingOwn DEF Using
  <2> QED BY <1>0, <1>4, <2>2, Moved, LruKept, Zenon DEF EngineInv
<1>5. CASE Lock(r)
  <2>1. rd' = [rd EXCEPT ![r] = [me EXCEPT !.pc = "verify", !.todo = Entries(me.ref)]]
    BY <1>5 DEF Lock, Go
  <2> HIDE DEF me
  <2> QED BY <1>3, <1>4, <2>1, Zenon
<1>6. ASSUME NEW p \in Path, Verify(r, p) PROVE EngineInv'
  <2>1. \/ rd' = [rd EXCEPT ![r] = [me EXCEPT !.pc = "find", !.todo = Entries(me.ref)]]
        \/ rd' = [rd EXCEPT ![r] = [me EXCEPT !.todo = me.todo \ {p}]] /\ me.pc = "verify"
    BY <1>6, Zenon DEF Verify, Go, At
  <2>2. me.todo \ {p} \in SUBSET Path
    BY <1>2
  <2> HIDE DEF me
  <2>3. CASE rd' = [rd EXCEPT ![r] = [me EXCEPT !.pc = "find", !.todo = Entries(me.ref)]]
    BY <1>3, <1>4, <2>3, Zenon
  <2>4. CASE rd' = [rd EXCEPT ![r] = [me EXCEPT !.todo = me.todo \ {p}]] /\ me.pc = "verify"
    BY <1>4, <2>2, <2>4, Zenon
  <2> QED BY <2>1, <2>3, <2>4, Zenon
<1>7. ASSUME NEW p \in Path, FindChanged(r, p) PROVE EngineInv'
  <2> DEFINE todo == me.todo \ {p}
             changed == IF Changed(p, proofs[me.ref].vv[p]) THEN me.changed \cup {p} ELSE me.changed
  <2>1. rd' = [rd EXCEPT ![r] = [me EXCEPT !.todo = todo, !.changed = changed]] /\ me.pc = "find"
    BY <1>7, Zenon DEF FindChanged, Go, At
  <2>2. todo \in SUBSET Path /\ changed \in SUBSET Path
    BY <1>2, Zenon
  <2> HIDE DEF me, todo, changed
  <2> QED BY <1>4, <2>1, <2>2, Zenon
<1> QED BY <1>5, <1>6, <1>7, Zenon

LEMMA ReturnInv ==
  ASSUME EngineInv, NEW r \in Reader, Respond(r) \/ FastPath(r) \/ Return(r)
  PROVE  EngineInv'
<1>0. /\ rd[r].pc \in Using /\ UNCHANGED <<store, proofs, cache, lru>>
      /\ Answer(r, proofs[rd[r].ref].value)
  BY Zenon DEF Respond, FastPath, Return, At, Using
<1>1. rd[r].q \in Query /\ OwnProof(origin, proofs[rd[r].ref], rd[r].q)
  BY <1>0, ReaderFacts, Zenon DEF Using
<1>2. Own(origin, rd[r].q, proofs[rd[r].ref].value)
  BY <1>1, Zenon DEF OwnProof
<1> QED BY <1>0, <1>1, <1>2, Answered, Zenon

-----------------------------------------------------------------------------
(* The steps that change a proof, for everyone who uses it.                *)
LEMMA ProofSet ==
  ASSUME EngineInv, NEW r \in Reader, rd[r].pc \in Using,
         NEW x, rd' = [rd EXCEPT ![r] = x], x \in Locals(x), x.pc \in Using,
         x.q = rd[r].q, x.ref = rd[r].ref, x.nodes = rd[r].nodes,
         NEW y, proofs' = [proofs EXCEPT ![rd[r].ref] = y], OwnProof(origin, y, rd[r].q),
         UNCHANGED <<store, cache, lru, ans>>
  PROVE  EngineInv'
<1> DEFINE i == rd[r].ref
<1>1. UNCHANGED <<frontier, origin, cache, lru, ans>>
  BY Zenon DEF store
<1>2. i \in Ref /\ OwnProof(origin, proofs[i], rd[r].q) /\ OwnLocals(origin, proofs, rd[r])
  BY ReaderFacts, Zenon
<1> HIDE DEF i
<1>3. proofs \in [Ref -> Proof \cup {Absent}] /\ y \in Proof
  BY Zenon DEF EngineInv, ProofsInv, OwnProof
<1>4. /\ proofs' \in [Ref -> Proof \cup {Absent}] /\ proofs'[i] = y
      /\ \A j \in Ref : j # i => proofs'[j] = proofs[j]
  BY <1>2, <1>3, Zenon DEF i
<1>5. ASSUME NEW j \in Ref, NEW q, OwnProof(origin, proofs[j], q)
      PROVE  OwnProof(origin, proofs'[j], q)
  <2>1. CASE j # i
    BY <1>4, <1>5, <2>1, Zenon
  <2>2. CASE j = i
    <3>1. q = rd[r].q
      BY <1>2, <1>5, <2>2, Zenon DEF OwnProof
    <3> QED BY <1>4, <2>2, <3>1, Zenon
  <2> QED BY <2>1, <2>2, Zenon
<1>6. ReaderInv'
  <2>1. OwnProof(origin, proofs'[x.ref], x.q)
    BY <1>4, Zenon DEF i
  <2>2. \A l \in Using : l \notin Building /\ l # "build" /\ l \notin {"idle", "panic"}
    BY Zenon DEF Using, Building
  <2>3. OwnLocals(origin, proofs', x)
    BY <1>2, <2>1, <2>2, Zenon DEF OwnLocals
  <2>4. ASSUME NEW z \in Reader \ {r}, rd[z].ref # 0
        PROVE  OwnProof(origin, proofs'[rd[z].ref], rd[z].q)
    <3>1. OwnProof(origin, proofs[rd[z].ref], rd[z].q) /\ rd[z] \in Locals(rd[z])
      BY <2>4, Zenon DEF EngineInv, ReaderInv, OwnLocals
    <3>2. rd[z].ref \in Ref
      BY <2>4, <3>1, Zenon DEF Locals
    <3> QED BY <1>5, <3>1, <3>2, Zenon
  <2> QED BY <1>1, <2>3, <2>4, ReaderSet, Zenon DEF EngineInv
<1>7. ProofsInv'
  <2>1. ASSUME NEW q \in Query, cache[q] # 0 PROVE OwnProof(origin, proofs'[cache[q]], q)
    BY <1>5, <2>1 DEF EngineInv, ProofsInv, LruInv
  <2> QED BY <1>1, <1>4, <2>1, Zenon DEF ProofsInv
<1>8. StoreInv' /\ LruInv' /\ AnswerInv'
  <2>1. StoreInv' /\ AnswerInv'
    BY <1>1, Zenon DEF EngineInv, StoreInv, AnswerInv
  <2>2. LruInv'
    BY <1>1, LruKept, Zenon DEF EngineInv
  <2> QED BY <2>1, <2>2
<1> QED BY <1>6, <1>7, <1>8, Zenon DEF EngineInv

LEMMA ProofNodes ==
  ASSUME NEW o, NEW x, NEW q, OwnProof(o, x, q), NEW new, Tree(o, new), Filled(o, new),
         new = <<>> <=> x.nodes = <<>>,
         \A n \in 1..Len(x.nodes) : new[n].path = x.nodes[n].path
  PROVE  /\ OwnProof(o, [x EXCEPT !.nodes = new], q)
         /\ OwnProof(o, [x EXCEPT !.nodes = new, !.value = new[1].cached], q)
<1>1. x \in Proof /\ x.nodes \in Seq(Node) /\ new \in Seq(Node) /\ x.nodes # <<>> /\ new # <<>>
  BY DEF OwnProof, Tree
<1>2. 1 \in 1..Len(x.nodes) /\ 1 \in 1..Len(new)
  BY <1>1
<1>3. new[1].path = q /\ Own(o, q, new[1].cached)
  BY <1>2 DEF OwnProof, Filled
<1> DEFINE c == new[1].cached
<1>4. c \in Value
  BY <1>3 DEF Own
<1> HIDE DEF c
<1>5. OwnProof(o, [x EXCEPT !.nodes = new], q)
  <2> DEFINE y == [x EXCEPT !.nodes = new]
  <2>1. y \in Proof /\ y.nodes = new /\ y.value = x.value
    BY <1>1, Zenon DEF Proof
  <2> HIDE DEF y
  <2>2. OwnProof(o, y, q)
    BY <1>1, <1>3, <2>1 DEF OwnProof
  <2> QED BY <2>2 DEF y
<1>6. OwnProof(o, [x EXCEPT !.nodes = new, !.value = c], q)
  <2> DEFINE y == [x EXCEPT !.nodes = new, !.value = c]
  <2>1. y \in Proof /\ y.nodes = new /\ y.value = c
    BY <1>1, <1>4, Zenon DEF Proof
  <2> HIDE DEF y
  <2>2. OwnProof(o, y, q)
    BY <1>1, <1>3, <2>1 DEF OwnProof, c
  <2> QED BY <2>2 DEF y
<1> QED BY <1>5, <1>6 DEF c

(* A node of the tree is replaced ...                                      *)
Replaces(o, nodes, n, b, new) ==
  /\ Tree(o, nodes) /\ Filled(o, nodes)
  /\ n \in DOMAIN nodes => Reread(o, nodes[n], b) /\ Own(o, nodes[n].path, b.cached)
  /\ new = [nodes EXCEPT ![n] = b]

(* ... which leaves a tree of the same paths.                              *)
SamePaths(o, nodes, new) ==
  /\ Tree(o, new) /\ Filled(o, new)
  /\ new = <<>> <=> nodes = <<>>
  /\ \A m \in 1..Len(nodes) : new[m].path = nodes[m].path

LEMMA NodeChanged ==
  ASSUME NEW o, NEW nodes, NEW n, NEW b, NEW new, Replaces(o, nodes, n, b, new)
  PROVE  SamePaths(o, nodes, new)
<1> USE DEF Replaces
<1>1. nodes \in Seq(Node) /\ DOMAIN nodes = 1..Len(nodes)
  BY DEF Tree
<1>2. DOMAIN new = DOMAIN nodes /\ new = [m \in DOMAIN new |-> new[m]]
  BY <1>1, Zenon
<1>3. \A m \in DOMAIN nodes : new[m] = IF m = n THEN b ELSE nodes[m]
  BY <1>1
<1>4. ASSUME NEW m \in 1..Len(nodes)
      PROVE  Reread(o, nodes[m], new[m]) /\ Own(o, nodes[m].path, new[m].cached)
  <2>1. CASE m = n
    BY <1>1, <1>3, <2>1
  <2>2. CASE m # n
    <3>1. new[m] = nodes[m] /\ nodes[m] \in Node
      BY <1>1, <1>3, <2>2
    <3> QED BY <3>1 DEF Tree, Filled, Reread
  <2> QED BY <2>1, <2>2
<1>5. /\ Tree(o, new) /\ Len(new) = Len(nodes) /\ (new = <<>> <=> nodes = <<>>)
      /\ \A m \in 1..Len(nodes) : new[m].path = nodes[m].path
  BY <1>2, <1>4, Relabelled
<1>6. Filled(o, new)
  BY <1>4, <1>5, Zenon DEF Filled
<1> QED BY <1>5, <1>6 DEF SamePaths

LEMMA MarkChangedInv ==
  ASSUME EngineInv, NEW r \in Reader, MarkChanged(r)
  PROVE  EngineInv'
<1> DEFINE me == rd[r]
           i == me.ref
           new == MarkDirty(proofs[i].nodes, me.changed)
           y == [proofs[i] EXCEPT !.nodes = new]
           x == [me EXCEPT !.pc = "reduce", !.stack = <<1>>]
<1>0. me.pc = "find" /\ UNCHANGED <<store, cache, lru, ans>> /\ rd' = [rd EXCEPT ![r] = x]
  BY DEF MarkChanged, At, Go
<1>1. /\ OwnLocals(origin, proofs, me) /\ me \in Locals(me)
      /\ i \in Ref /\ OwnProof(origin, proofs[i], me.q)
  BY <1>0, ReaderFacts DEF Using
<1>2. proofs' = [proofs EXCEPT ![i] = y]
  BY DEF MarkChanged
<1>3. OwnProof(origin, y, me.q)
  <2>1. Tree(origin, proofs[i].nodes) /\ Filled(origin, proofs[i].nodes)
    BY <1>1, Zenon DEF OwnProof
  <2>2. /\ Tree(origin, new) /\ Filled(origin, new)
        /\ new = <<>> <=> proofs[i].nodes = <<>>
        /\ \A n \in 1..Len(proofs[i].nodes) : new[n].path = proofs[i].nodes[n].path
    <3>1. PICK nodes : nodes = proofs[i].nodes
      OBVIOUS
    <3>2. new = MarkDirty(nodes, me.changed)
      BY <3>1
    <3> HIDE DEF new, me, i
    <3>3. Tree(origin, nodes) /\ Filled(origin, nodes)
      BY <2>1, <3>1, Zenon
    <3>4. /\ Tree(origin, new) /\ Filled(origin, new)
          /\ new = <<>> <=> nodes = <<>>
          /\ \A n \in 1..Len(nodes) : new[n].path = nodes[n].path
      BY <3>2, <3>3, MarkDirtyOwn
    <3> QED BY <3>1, <3>4, Zenon
  <2> HIDE DEF new
  <2> QED BY <1>1, <2>2, ProofNodes, Zenon
<1> HIDE DEF y
<1>4. x \in Locals(x) /\ x.pc = "reduce" /\ x.q = me.q /\ x.ref = i /\ x.nodes = me.nodes
  <2> HIDE DEF me
  <2> QED BY <1>1, Zenon DEF Locals, Ops
<1> HIDE DEF x
<1> QED BY <1>0, <1>2, <1>3, <1>4, ProofSet, Zenon DEF Using

LEMMA VisitInv ==
  ASSUME EngineInv, NEW r \in Reader, Visit(r)
  PROVE  EngineInv'
<1> DEFINE me == rd[r]
           i == me.ref
           nodes == proofs[i].nodes
           n == Head(me.stack)
           node == nodes[n]
           expr == IF node.dirty /\ frontier[node.path] # Absent
                     THEN frontier[node.path].expr ELSE node.expr
<1>0. me.pc = "reduce" /\ UNCHANGED <<store, cache, lru, ans>>
  BY Zenon DEF Visit, At
<1>1. /\ OwnLocals(origin, proofs, me) /\ me \in Locals(me)
      /\ i \in Ref /\ OwnProof(origin, proofs[i], me.q)
  BY <1>0, ReaderFacts, Zenon DEF Using
<1>2. Tree(origin, nodes) /\ Filled(origin, nodes)
  BY <1>1 DEF OwnProof
<1>3. ASSUME NEW x, rd' = [rd EXCEPT ![r] = x], NEW s, NEW u,
             x = [me EXCEPT !.stack = s] \/ x = [me EXCEPT !.stack = s, !.open = u]
      PROVE  x \in Locals(x) /\ x.pc = "reduce" /\ x.q = me.q /\ x.ref = i /\ x.nodes = me.nodes
  <2> HIDE DEF me
  <2> QED BY <1>0, <1>1, <1>3, Zenon DEF Locals, Ops
<1>4. CASE UNCHANGED proofs /\ Go(r, [me EXCEPT !.stack = Tail(@)])
  <2> DEFINE x == [me EXCEPT !.stack = Tail(me.stack)]
  <2>1. rd' = [rd EXCEPT ![r] = x]
    BY <1>4 DEF Go
  <2>2. x \in Locals(x) /\ x.pc = "reduce" /\ x.q = me.q /\ x.ref = i /\ x.nodes = me.nodes
    BY <1>3, <2>1, Zenon
  <2> HIDE DEF x
  <2>3. OwnLocals(origin, proofs, x)
    BY <1>0, <1>1, <2>2, UsingOwn, Zenon DEF Using
  <2> QED BY <1>0, <1>4, <2>1, <2>3, Moved, LruKept, Zenon DEF EngineInv
<1>5. n \in DOMAIN nodes => node \in Node /\ OwnExpr(origin, node.path, expr) /\ Own(origin, node.path, node.cached)
  <2> SUFFICES ASSUME n \in DOMAIN nodes
               PROVE  node \in Node /\ OwnExpr(origin, node.path, expr) /\ Own(origin, node.path, node.cached)
    BY Zenon
  <2>1. n \in 1..Len(nodes) /\ node \in Node
    BY <1>2 DEF Tree
  <2>2. OwnExpr(origin, node.path, node.expr) /\ Own(origin, node.path, node.cached)
    BY <1>2, <2>1, Zenon DEF Tree, Filled
  <2>3. node.path \in Path
    BY <2>1, Zenon DEF Node
  <2>4. frontier[node.path] # Absent => OwnExpr(origin, node.path, frontier[node.path].expr)
    BY <2>3, Zenon DEF EngineInv, StoreInv, OwnAtom
  <2> HIDE DEF node
  <2> QED BY <2>1, <2>2, <2>4, Zenon DEF node
<1> DEFINE P == proofs[i]
<1>6. ASSUME NEW b, n \in DOMAIN nodes => Reread(origin, node, b) /\ Own(origin, node.path, b.cached),
             proofs' = [proofs EXCEPT ![i] = [P EXCEPT !.nodes = [nodes EXCEPT ![n] = b]]],
             NEW x, rd' = [rd EXCEPT ![r] = x], NEW s, NEW u,
             x = [me EXCEPT !.stack = s] \/ x = [me EXCEPT !.stack = s, !.open = u]
      PROVE  EngineInv'
  <2> DEFINE new == [nodes EXCEPT ![n] = b]
             y == [P EXCEPT !.nodes = new]
  <2>1. /\ Tree(origin, new) /\ Filled(origin, new)
        /\ new = <<>> <=> nodes = <<>>
        /\ \A m \in 1..Len(nodes) : new[m].path = nodes[m].path
    <3>1. n \in DOMAIN nodes => Reread(origin, nodes[n], b) /\ Own(origin, nodes[n].path, b.cached)
      BY <1>6, Zenon
    <3>2. Replaces(origin, nodes, n, b, new)
      <4> HIDE DEF n, nodes, node
      <4> QED BY <1>2, <3>1 DEF Replaces
    <3>3. SamePaths(origin, nodes, new)
      <4> HIDE DEF n, nodes, node, new
      <4> QED BY <3>2, NodeChanged, Zenon
    <3> HIDE DEF n, nodes, node, new
    <3> QED BY <3>3, Zenon DEF SamePaths
  <2>2. OwnProof(origin, y, me.q)
    <3> HIDE DEF new
    <3> QED BY <1>1, <2>1, ProofNodes, Zenon
  <2>3. x \in Locals(x) /\ x.pc = "reduce" /\ x.q = me.q /\ x.ref = i /\ x.nodes = me.nodes
    BY <1>3, <1>6, Zenon
  <2>4. proofs' = [proofs EXCEPT ![i] = y]
    BY <1>6, Zenon
  <2> HIDE DEF y
  <2> QED BY <1>0, <1>6, <2>2, <2>3, <2>4, ProofSet, Zenon DEF Using
<1>7. CASE /\ expr.kind = "const"
           /\ proofs' = [proofs EXCEPT ![i].nodes[n] =
                           [@ EXCEPT !.expr = expr, !.cached = Leaf(expr.val), !.dirty = FALSE]]
           /\ Go(r, [me EXCEPT !.stack = Tail(@)])
  <2> DEFINE c == Leaf(expr.val)
             b == [node EXCEPT !.expr = expr, !.cached = c, !.dirty = FALSE]
             x == [me EXCEPT !.stack = Tail(me.stack)]
  <2>1. proofs' = [proofs EXCEPT ![i] = [P EXCEPT !.nodes = [nodes EXCEPT ![n] = b]]]
    BY <1>7, Zenon
  <2>2. rd' = [rd EXCEPT ![r] = x]
    BY <1>7, Zenon DEF Go
  <2>3. ASSUME n \in DOMAIN nodes PROVE Reread(origin, node, b) /\ Own(origin, node.path, b.cached)
    <3>1. node \in Node /\ OwnExpr(origin, node.path, expr)
      BY <1>5, <2>3, Zenon
    <3> HIDE DEF expr, node
    <3>2. expr \in Expr /\ expr.val \in Hash \cup {0}
      BY <3>1, Zenon DEF OwnExpr, Expr
    <3>3. Own(origin, node.path, c) /\ c \in Value
      BY <1>7, <3>1, <3>2, LeafOwn, Zenon DEF OwnExpr, Own
    <3> HIDE DEF c
    <3>4. b \in Node /\ b.path = node.path /\ b.up = node.up
      BY <3>1, <3>2, <3>3, NodeSet, Zenon
    <3>5. b.expr = expr /\ b.cached = c
      BY <3>1, Zenon DEF Node
    <3> QED BY <3>1, <3>3, <3>4, <3>5, Zenon DEF Reread
  <2> HIDE DEF b
  <2> QED BY <1>6, <2>1, <2>2, <2>3, Zenon
<1>8. CASE /\ proofs' = [proofs EXCEPT ![i].nodes[n].expr = expr]
           /\ Go(r, [me EXCEPT !.stack = InOrder(Kids(nodes, n)) \o Tail(@),
                               !.open = @ \cup {n}])
  <2> DEFINE b == [node EXCEPT !.expr = expr]
             s == InOrder(Kids(nodes, n)) \o Tail(me.stack)
             u == me.open \cup {n}
             x == [me EXCEPT !.stack = s, !.open = u]
  <2>1. proofs' = [proofs EXCEPT ![i] = [P EXCEPT !.nodes = [nodes EXCEPT ![n] = b]]]
    BY <1>8, Zenon
  <2>2. rd' = [rd EXCEPT ![r] = x]
    <3>1. [me EXCEPT !.stack = InOrder(Kids(nodes, n)) \o Tail(@), !.open = @ \cup {n}] = x
      BY <1>1 DEF Locals
    <3> QED BY <1>8, <3>1, Zenon DEF Go
  <2>3. ASSUME n \in DOMAIN nodes PROVE Reread(origin, node, b) /\ Own(origin, node.path, b.cached)
    <3>1. node \in Node /\ OwnExpr(origin, node.path, expr) /\ Own(origin, node.path, node.cached)
      BY <1>5, <2>3, Zenon
    <3> HIDE DEF expr, node
    <3>2. expr \in Expr
      BY <3>1, Zenon DEF OwnExpr
    <3>3. b \in Node /\ b.path = node.path /\ b.up = node.up
      BY <3>1, <3>2, NodeSet, Zenon
    <3>4. b.expr = expr /\ b.cached = node.cached
      BY <3>1, Zenon DEF Node
    <3> QED BY <3>1, <3>3, <3>4, Zenon DEF Reread
  <2> HIDE DEF b, s, u
  <2> QED BY <1>6, <2>1, <2>2, <2>3, Zenon
<1> QED BY <1>4, <1>7, <1>8, Zenon DEF Visit

LEMMA UpdateVectorInv ==
  ASSUME EngineInv, NEW r \in Reader, NEW p \in Path, UpdateVector(r, p)
  PROVE  EngineInv'
<1> DEFINE me == rd[r]
           i == me.ref
           P == proofs[i]
           h == IF frontier[p] # Absent THEN frontier[p].hash ELSE P.vv[p]
           y == [P EXCEPT !.vv = [P.vv EXCEPT ![p] = h]]
           x == [me EXCEPT !.todo = me.todo \ {p}]
<1>0. /\ me.pc = "update" /\ UNCHANGED <<store, cache, lru, ans>>
      /\ rd' = [rd EXCEPT ![r] = x]
  BY DEF UpdateVector, At, Go
<1>1. proofs' = [proofs EXCEPT ![i] = y]
  BY DEF UpdateVector
<1>2. /\ OwnLocals(origin, proofs, me) /\ me \in Locals(me)
      /\ i \in Ref /\ OwnProof(origin, P, me.q)
  BY <1>0, ReaderFacts DEF Using
<1>3. OwnProof(origin, y, me.q)
  <2>1. P \in Proof /\ P.vv \in Vector
    BY <1>2, Zenon DEF OwnProof, Proof
  <2>2. h \in Hash \cup {0}
    <3>1. frontier[p] # Absent => frontier[p].hash \in Hash
      BY Zenon DEF EngineInv, StoreInv
    <3> HIDE DEF P
    <3> QED BY <2>1, <3>1 DEF Vector
  <2> DEFINE vv == [P.vv EXCEPT ![p] = h]
  <2> HIDE DEF h
  <2>3. vv \in Vector
    <3> HIDE DEF P
    <3> QED BY <2>1, <2>2 DEF Vector
  <2>4. y = [P EXCEPT !.vv = vv]
    OBVIOUS
  <2> HIDE DEF vv, y, P
  <2>5. y \in Proof /\ y.nodes = P.nodes /\ y.value = P.value
    BY <2>1, <2>3, <2>4 DEF Proof
  <2> QED BY <1>2, <2>5 DEF OwnProof
<1> HIDE DEF y
<1>4. x \in Locals(x) /\ x.pc = "update" /\ x.q = me.q /\ x.ref = i /\ x.nodes = me.nodes
  <2>1. me.todo \ {p} \in SUBSET Path
    BY <1>2 DEF Locals
  <2> HIDE DEF me
  <2> QED BY <1>0, <1>2, <2>1, Zenon DEF Locals, Ops
<1> HIDE DEF x
<1> QED BY <1>0, <1>1, <1>3, <1>4, ProofSet, Zenon DEF Using

-----------------------------------------------------------------------------
(* Publishing keeps the cache within its capacity.                         *)
LEMMA DropLast ==
  ASSUME NEW s \in Seq(Query), Distinct(s), s # <<>>, NEW t, t = Front(s)
  PROVE  /\ t \in Seq(Query) /\ Len(t) = Len(s) - 1 /\ Distinct(t)
         /\ \A x : Has(t, x) <=> x # Last(s) /\ Has(s, x)
<1>0. Len(s) \in Nat \ {0} /\ t = SubSeq(s, 1, Len(s) - 1)
  BY DEF Front
<1>1. /\ t \in Seq(Query) /\ Len(t) = Len(s) - 1 /\ Len(s) \in Nat \ {0}
      /\ \A i \in 1..(Len(s) - 1) : t[i] = s[i]
  <2>1. PICK k \in 1..Len(s) : k = Len(s)
    BY <1>0
  <2>2. t = SubSeq(s, 1, k - 1) /\ k \in Nat
    BY <1>0, <2>1
  <2>3. t \in Seq(Query) /\ Len(t) = k - 1 /\ \A i \in 1..(k - 1) : t[i] = s[i]
    BY <1>0, <2>2
  <2> QED BY <1>0, <2>1, <2>3
<1>2. Distinct(t)
  BY <1>1 DEF Distinct
<1>3. ASSUME NEW x PROVE Has(t, x) <=> x # Last(s) /\ Has(s, x)
  <2>1. ASSUME NEW i \in 1..Len(t), t[i] = x PROVE x # Last(s) /\ Has(s, x)
    <3>1. i \in 1..Len(s) /\ Len(s) \in 1..Len(s) /\ i # Len(s) /\ s[i] = x
      BY <1>1, <2>1
    <3> QED BY <3>1 DEF Has, Last, Distinct
  <2>2. ASSUME NEW i \in 1..Len(s), s[i] = x, x # Last(s) PROVE Has(t, x)
    <3>1. i \in 1..Len(t) /\ t[i] = x
      BY <1>1, <2>2 DEF Last
    <3> QED BY <3>1 DEF Has
  <2> QED BY <2>1, <2>2 DEF Has
<1> QED BY <1>1, <1>2, <1>3

LEMMA PublishLru ==
  ASSUME LruInv, NEW q \in Query, NEW ref \in Ref, ref # 0,
         cache' = [x \in Query |-> IF x = q THEN ref
                                   ELSE IF Full(q) /\ x = Last(lru) THEN 0 ELSE cache[x]],
         lru' = IF cache[q] # 0 THEN MoveToFront(q)
                ELSE <<q>> \o (IF Full(q) THEN Front(lru) ELSE lru)
  PROVE  LruInv'
<1>1. /\ lru \in Seq(Query) /\ Len(lru) \in Nat /\ Len(lru) <= Capacity /\ Distinct(lru)
      /\ cache \in [Query -> Ref \cup {0}]
      /\ \A x \in Query : cache[x] # 0 <=> Has(lru, x)
  BY DEF LruInv, Distinct, Has
<1>2. ref # 0 /\ Capacity \in Nat \ {0}
  BY EngineAssumption, Zenon
<1>3. cache' \in [Query -> Ref \cup {0}]
  BY <1>1, Zenon
<1>4. SUFFICES /\ lru' \in Seq(Query) /\ Len(lru') <= Capacity /\ Distinct(lru')
               /\ \A x \in Query : cache'[x] # 0 <=> Has(lru', x)
  BY <1>3, Zenon DEF LruInv, Distinct, Has
<1>5. CASE cache[q] # 0
  <2>1. lru' = MoveToFront(q) /\ ~Full(q)
    BY <1>5, Zenon DEF Full
  <2>2. /\ lru' \in Seq(Query) /\ Len(lru') = Len(lru) /\ Distinct(lru')
        /\ \A x : Has(lru', x) <=> Has(lru, x)
    BY <1>5, <2>1, ToFrontOf, Zenon
  <2>3. \A x \in Query : cache'[x] # 0 <=> cache[x] # 0
    BY <1>2, <1>5, <2>1, Zenon
  <2> QED BY <1>1, <2>2, <2>3
<1>6. CASE cache[q] = 0 /\ ~Full(q)
  <2>1. lru' = <<q>> \o lru /\ ~Has(lru, q) /\ Len(lru) + 1 <= Capacity
    BY <1>1, <1>2, <1>6 DEF Full
  <2>2. /\ lru' \in Seq(Query) /\ Len(lru') = Len(lru) + 1 /\ Distinct(lru')
        /\ \A x : Has(lru', x) <=> x = q \/ Has(lru, x)
    BY <1>1, <2>1, PushFront, Zenon
  <2>3. \A x \in Query : cache'[x] # 0 <=> x = q \/ cache[x] # 0
    BY <1>2, <1>6
  <2> QED BY <1>1, <2>1, <2>2, <2>3, Zenon
<1>7. CASE Full(q)
  <2> DEFINE kept == Front(lru)
  <2>1. cache[q] = 0 /\ ~Has(lru, q) /\ Len(lru) = Capacity /\ lru # <<>>
    BY <1>1, <1>2, <1>7 DEF Full
  <2>2. lru' = <<q>> \o kept
    BY <1>7, <2>1, Zenon
  <2>3. /\ kept \in Seq(Query) /\ Len(kept) = Len(lru) - 1 /\ Distinct(kept)
        /\ \A x : Has(kept, x) <=> x # Last(lru) /\ Has(lru, x)
    BY <1>1, <2>1, DropLast, Zenon
  <2> HIDE DEF kept
  <2>4. /\ lru' \in Seq(Query) /\ Len(lru') = Len(kept) + 1 /\ Distinct(lru')
        /\ \A x : Has(lru', x) <=> x = q \/ Has(kept, x)
    BY <2>1, <2>2, <2>3, PushFront, Zenon
  <2>5. \A x \in Query : cache'[x] # 0 <=> x = q \/ (x # Last(lru) /\ cache[x] # 0)
    BY <1>2, <1>7
  <2>6. \A x \in Query : cache'[x] # 0 <=> Has(lru', x)
    BY <1>1, <2>3, <2>4, <2>5, Zenon
  <2> QED BY <1>1, <2>1, <2>3, <2>4, <2>6
<1> QED BY <1>5, <1>6, <1>7, Zenon

-----------------------------------------------------------------------------
(* Writes.                                                                 *)
LEMMA AppendInv ==
  ASSUME EngineInv, NEW p \in Path, NEW e, Append1(p, e), e \in Expr,
         e.kind = "const" => e.val \in {0, Len(origin) + 1},
         \A i \in 1..Len(e.atoms) : e.atoms[i] \in 1..Len(origin)
  PROVE  EngineInv'
<1>1. /\ frontier' = [frontier EXCEPT ![p] = [hash |-> Len(origin) + 1, expr |-> e]]
      /\ origin' = Append(origin, p) /\ Len(origin) < MaxHash
      /\ UNCHANGED <<proofs, cache, lru, rd, ans>>
  BY Zenon DEF Append1
<1>2. origin \in Seq(Path) /\ Len(origin) \in Nat /\ MaxHash \in Nat
  BY EngineAssumption DEF EngineInv, StoreInv
<1>3. /\ Grows(origin, origin') /\ Wrote(origin', Len(origin) + 1, p)
      /\ origin' \in Seq(Path) /\ Len(origin') = Len(origin) + 1
  BY <1>1, <1>2, AppendGrows, Zenon
<1> DEFINE h == Len(origin) + 1
           new == [hash |-> h, expr |-> e]
<1>4. h \in Hash /\ h \in Nat /\ Len(origin') <= MaxHash
  BY <1>1, <1>2, <1>3 DEF Hash
<1>5. OwnAtom(origin', p, new)
  <2>1. \A i \in 1..Len(e.atoms) : e.atoms[i] \in 1..Len(origin')
    BY <1>2, <1>3
  <2>2. OwnExpr(origin', p, e)
    BY <1>3, <2>1, Zenon DEF OwnExpr
  <2> QED BY <1>3, <2>2 DEF OwnAtom
<1>6. new \in [hash : Hash, expr : Expr]
  BY <1>4, Zenon
<1> HIDE DEF h, new
<1>7. StoreInv'
  <2>1. frontier \in [Path -> [hash : Hash, expr : Expr] \cup {Absent}]
    BY Zenon DEF EngineInv, StoreInv
  <2>2. frontier' = [frontier EXCEPT ![p] = new]
    BY <1>1, Zenon DEF new, h
  <2>3. /\ frontier' \in [Path -> [hash : Hash, expr : Expr] \cup {Absent}]
        /\ frontier'[p] = new /\ \A z \in Path : z # p => frontier'[z] = frontier[z]
    BY <1>6, <2>1, <2>2, Zenon
  <2>4. ASSUME NEW z \in Path, frontier'[z] # Absent PROVE OwnAtom(origin', z, frontier'[z])
    <3>1. CASE z = p
      BY <1>5, <2>3, <3>1, Zenon
    <3>2. CASE z # p
      <4>1. frontier'[z] = frontier[z] /\ OwnAtom(origin, z, frontier[z])
        BY <2>3, <2>4, <3>2, Zenon DEF EngineInv, StoreInv
      <4> QED BY <1>3, <4>1, OwnAtomGrows, Zenon
    <3> QED BY <3>1, <3>2, Zenon
  <2> QED BY <1>3, <1>4, <2>3, <2>4, Zenon DEF StoreInv
<1>8. LruInv'
  BY <1>1, LruKept, Zenon DEF EngineInv
<1>9. ProofsInv'
  BY <1>1, <1>3, OwnProofGrows, Zenon DEF EngineInv, ProofsInv
<1>10. ReaderInv'
  <2>1. \A z \in Reader : OwnLocals(origin', proofs, rd[z])
    BY <1>3, OwnLocalsGrows, Zenon DEF EngineInv, ReaderInv
  <2> QED BY <1>1, <2>1, Zenon DEF EngineInv, ReaderInv
<1>11. AnswerInv'
  BY <1>1, <1>3, OwnGrows, Zenon DEF EngineInv, AnswerInv
<1> QED BY <1>7, <1>8, <1>9, <1>10, <1>11 DEF EngineInv

LEMMA WriteInv ==
  ASSUME EngineInv, WriteStep
  PROVE  EngineInv'
<1>0. origin \in Seq(Path) /\ Len(origin) \in Nat /\ MaxHash \in Nat
  BY EngineAssumption DEF EngineInv, StoreInv
<1>1. ASSUME NEW p \in Path, NEW v \in {0, Len(origin) + 1}, Append1(p, Const(v))
      PROVE  EngineInv'
  <2> DEFINE e == Const(v)
  <2>1. v \in Hash \cup {0}
    BY <1>0, <1>1 DEF Append1, Hash
  <2>2. e.kind = "const" /\ e.val = v /\ e.atoms = <<>> /\ e \in Expr
    BY <2>1 DEF Const, Expr
  <2>3. \A i \in 1..Len(e.atoms) : e.atoms[i] \in 1..Len(origin)
    BY <2>2
  <2> HIDE DEF e
  <2>4. Append1(p, e)
    BY <1>1, Zenon DEF e
  <2> QED BY <2>2, <2>3, <2>4, AppendInv, Zenon
<1>2. ASSUME NEW p \in Path, ComposeKey(p) PROVE EngineInv'
  <2> DEFINE hs == [i \in DOMAIN Uses[p] |-> frontier[Uses[p][i]].hash]
             e == Compose(hs)
  <2>1. Uses[p] \in Seq(Path)
    BY EngineAssumption, Zenon
  <2>2. ASSUME NEW i \in DOMAIN Uses[p] PROVE hs[i] \in 1..Len(origin)
    <3>1. Uses[p][i] \in Path /\ Uses[p][i] \in Range(Uses[p])
      BY <2>1, <2>2 DEF Range
    <3>2. frontier[Uses[p][i]] # Absent
      BY <1>2, <3>1, Zenon DEF ComposeKey
    <3> QED BY <3>1, <3>2, Zenon DEF EngineInv, StoreInv, OwnAtom, Wrote
  <2>3. \A i \in 1..Len(origin) : i \in Hash
    BY <1>0 DEF EngineInv, StoreInv, Hash
  <2>4. DOMAIN hs = 1..Len(Uses[p]) /\ Len(Uses[p]) \in Nat
    BY <2>1
  <2>5. Append1(p, e)
    BY <1>2 DEF ComposeKey
  <2>6. hs \in Seq(Hash) /\ Len(hs) = Len(Uses[p]) /\ \A i \in 1..Len(hs) : hs[i] \in 1..Len(origin)
    <3>1. hs \in [1..Len(Uses[p]) -> Hash]
      BY <2>2, <2>3, <2>4, Zenon
    <3>2. \A i \in 1..Len(Uses[p]) : hs[i] \in 1..Len(origin)
      BY <2>2, <2>4
    <3> HIDE DEF hs
    <3>3. hs \in Seq(Hash) /\ Len(hs) = Len(Uses[p])
      BY <2>4, <3>1
    <3> QED BY <3>2, <3>3, Zenon
  <2> HIDE DEF hs
  <2>7. e.kind = "compose" /\ e.val = 0 /\ e.atoms = hs /\ e \in Expr
    BY <2>6 DEF Compose, Expr
  <2> HIDE DEF e
  <2> QED BY <2>5, <2>6, <2>7, AppendInv, Zenon
<1>3. ASSUME NEW p \in Path, Forget(p) PROVE EngineInv'
  <2>1. frontier' = [frontier EXCEPT ![p] = Absent] /\ UNCHANGED <<origin, proofs, cache, lru, rd, ans>>
    BY <1>3, Zenon DEF Forget
  <2>2. \A z \in Path : frontier'[z] \in {Absent, frontier[z]}
    BY <2>1, Zenon DEF EngineInv, StoreInv
  <2>3. frontier' \in [Path -> [hash : Hash, expr : Expr] \cup {Absent}]
    BY <2>1, Zenon DEF EngineInv, StoreInv
  <2>4. StoreInv'
    BY <2>1, <2>2, <2>3, Zenon DEF EngineInv, StoreInv
  <2>5. LruInv' /\ ProofsInv' /\ ReaderInv' /\ AnswerInv'
    BY <2>1 DEF EngineInv, LruInv, ProofsInv, ReaderInv, AnswerInv
  <2> QED BY <2>4, <2>5, Zenon DEF EngineInv
<1> QED BY <1>1, <1>2, <1>3, EngineAssumption, Zenon DEF WriteStep, SetKey, DelKey

-----------------------------------------------------------------------------
LEMMA InitEngineInv ==
  ASSUME Init
  PROVE  EngineInv
<1>1. StoreInv
  BY EngineAssumption DEF Init, StoreInv
<1>2. LruInv
  BY EngineAssumption DEF Init, LruInv
<1>3. ProofsInv
  BY DEF Init, ProofsInv
<1>4. ReaderInv
  <2>1. OwnLocals(origin, proofs, Idle)
    BY FreshOwn, Zenon
  <2> QED BY <2>1, Zenon DEF Init, ReaderInv
<1>5. AnswerInv
  <2>1. NoAnswer \in [q : Query \cup {Absent}, val : Value]
        /\ Own(origin, NoAnswer.q, NoAnswer.val)
    BY NilOwn, Zenon DEF NoAnswer
  <2> QED BY <2>1, Zenon DEF Init, AnswerInv
<1> QED BY <1>1, <1>2, <1>3, <1>4, <1>5, Zenon DEF EngineInv

LEMMA EngineTyped ==
  ASSUME EngineInv
  PROVE  TypeOK
<1>1. /\ origin \in Seq(Path) /\ Len(origin) <= MaxHash
      /\ proofs \in [Ref -> Proof \cup {Absent}]
      /\ cache \in [Query -> Ref \cup {0}]
      /\ lru \in Seq(Query) /\ Len(lru) <= Capacity
  BY Zenon DEF EngineInv, StoreInv, ProofsInv, LruInv
<1>2. ASSUME NEW p \in Path, frontier[p] # Absent
      PROVE  frontier[p].hash \in DOMAIN origin /\ origin[frontier[p].hash] = p
  BY <1>1, <1>2 DEF EngineInv, StoreInv, OwnAtom, Wrote
<1>3. Range(lru) = {q \in Query : cache[q] # 0}
  <2>1. Range(lru) = {lru[i] : i \in 1..Len(lru)}
    BY <1>1 DEF Range
  <2>2. /\ \A i \in 1..Len(lru) : lru[i] \in Query
        /\ \A q \in Query : cache[q] # 0 <=> \E i \in 1..Len(lru) : lru[i] = q
    BY <1>1 DEF EngineInv, LruInv
  <2> QED BY <2>1, <2>2, Zenon
<1>4. ASSUME NEW q \in Query, cache[q] # 0 PROVE proofs[cache[q]] # Absent
  BY <1>4, EngineAssumption, Zenon DEF EngineInv, ProofsInv, OwnProof
<1>5. ASSUME NEW r \in Reader PROVE rd[r].pc \in Ops /\ rd[r].vv \in Vector
  BY ReaderFacts DEF Locals
<1> QED BY <1>1, <1>2, <1>3, <1>4, <1>5, Zenon DEF TypeOK

-----------------------------------------------------------------------------
(* What needs the theorems of the library.                                 *)
INSTANCE FiniteSetTheorems

LEMMA NatSetInduction == Induction
<1> SUFFICES ASSUME NEW T, 0 \in T, \A n \in Nat : n \in T => n + 1 \in T
             PROVE  \A n \in Nat : n \in T
  BY Zenon DEF Induction
<1> DEFINE B == Nat \ T
<1> SUFFICES ASSUME B # {} PROVE FALSE
  OBVIOUS
<1>1. PICK m \in B : \A k \in B : ~(<<k, m>> \in OpToRel(<, Nat))
  BY WFMin, NatLessThanWellFounded, Zenon
<1>2. m \in Nat /\ m # 0
  OBVIOUS
<1>3. m - 1 \in Nat /\ m - 1 < m /\ (m - 1) + 1 = m
  BY <1>2
<1>4. <<m - 1, m>> \in OpToRel(<, Nat)
  BY <1>2, <1>3, Zenon DEF OpToRel
<1>5. m - 1 \in T
  BY <1>1, <1>3, <1>4, Zenon
<1> QED
  BY <1>1, <1>3, <1>5, Zenon

LEMMA MinOf ==
  ASSUME NEW S \in SUBSET Nat, S # {}
  PROVE  Min(S) \in S
<1>1. PICK m \in S : \A k \in S : ~(<<k, m>> \in OpToRel(<, Nat))
  BY WFMin, NatLessThanWellFounded, Zenon
<1>2. ASSUME NEW k \in S PROVE m <= k
  <2>1. k \in Nat /\ m \in Nat
    BY <1>1, Zenon
  <2>2. ~(k < m)
    BY <1>1, <2>1, Zenon DEF OpToRel
  <2> QED BY <2>1, <2>2
<1> QED BY <1>1, <1>2, Zenon DEF Min

LEMMA ReduceInv ==
  ASSUME EngineInv, NEW r \in Reader, Reduce(r)
  PROVE  EngineInv'
<1> DEFINE me == rd[r]
           i == me.ref
           P == proofs[i]
           new == FillIn(P.nodes, me.open)
           y == [P EXCEPT !.nodes = new, !.value = new[1].cached]
           x == [me EXCEPT !.pc = "update", !.todo = me.changed]
<1>0. /\ me.pc = "reduce" /\ UNCHANGED <<store, cache, lru, ans>>
      /\ rd' = [rd EXCEPT ![r] = x] /\ proofs' = [proofs EXCEPT ![i] = y]
  BY DEF Reduce, At, Go
<1>1. /\ OwnLocals(origin, proofs, me) /\ me \in Locals(me)
      /\ i \in Ref /\ OwnProof(origin, P, me.q)
  BY <1>0, ReaderFacts DEF Using
<1>2. OwnProof(origin, y, me.q)
  <2>1. Tree(origin, P.nodes) /\ Filled(origin, P.nodes)
    BY <1>1, Zenon DEF OwnProof
  <2>2. \A n \in 1..Len(P.nodes) : Own(origin, P.nodes[n].path, P.nodes[n].cached)
    BY <2>1, Zenon DEF Filled
  <2>3. /\ Tree(origin, new) /\ Filled(origin, new)
        /\ new = <<>> <=> P.nodes = <<>>
        /\ \A n \in 1..Len(P.nodes) : new[n].path = P.nodes[n].path
    <3>1. PICK nodes : nodes = P.nodes
      OBVIOUS
    <3>2. new = FillIn(nodes, me.open)
      BY <3>1
    <3> HIDE DEF new, P, me
    <3>3. Tree(origin, nodes) /\ \A n \in 1..Len(nodes) : Own(origin, nodes[n].path, nodes[n].cached)
      BY <2>1, <2>2, <3>1, Zenon
    <3>4. /\ Tree(origin, new) /\ Filled(origin, new)
          /\ new = <<>> <=> nodes = <<>>
          /\ \A n \in 1..Len(nodes) : new[n].path = nodes[n].path
      BY <3>2, <3>3, FillInOwn, NatSetInduction
    <3> QED BY <3>1, <3>4, Zenon
  <2> HIDE DEF new, P
  <2> QED BY <1>1, <2>3, ProofNodes, Zenon
<1> HIDE DEF y
<1>3. x \in Locals(x) /\ x.pc = "update" /\ x.q = me.q /\ x.ref = i /\ x.nodes = me.nodes
  <2> HIDE DEF me
  <2> QED BY <1>1, Zenon DEF Locals, Ops
<1> HIDE DEF x
<1> QED BY <1>0, <1>2, <1>3, ProofSet, Zenon DEF Using

(* Publishing a new proof: there is a free place for it.                   *)
LEMMA ImageSize ==
  ASSUME NEW S, IsFiniteSet(S), NEW f, NEW T, T = {f[x] : x \in S}
  PROVE  IsFiniteSet(T) /\ Cardinality(T) <= Cardinality(S)
<1> DEFINE g == [x \in S |-> f[x]]
<1>1. g \in Surjection(S, T)
  BY DEF Surjection
<1> HIDE DEF g
<1> QED BY <1>1, FS_Surjection

LEMMA FreeRef ==
  ASSUME NEW r \in Reader, rd[r].ref = 0, NEW F,
         F = {i \in Ref : (\A q \in Query : cache[q] # i) /\ \A x \in Reader : rd[x].ref # i}
  PROVE  F # {}
<1> DEFINE A == {cache[q] : q \in Query}
           refs == [x \in Reader |-> rd[x].ref]
           others == Reader \ {r}
           B == {refs[x] : x \in others}
           a == Cardinality(Query)
           b == Cardinality(Reader)
<1>1. /\ IsFiniteSet(others) /\ Cardinality(others) = b - 1
      /\ a \in Nat /\ b \in Nat
  BY EngineAssumption, FS_RemoveElement, FS_CardinalityType, Zenon
<1>2. IsFiniteSet(A) /\ Cardinality(A) <= a
  BY EngineAssumption, ImageSize, Zenon
<1>3. IsFiniteSet(B) /\ Cardinality(B) <= b - 1
  <2> HIDE DEF refs, others
  <2> QED BY <1>1, ImageSize
<1>4. F = {} => Ref \subseteq A \cup B
  <2> SUFFICES ASSUME F = {}, NEW i \in Ref PROVE i \in A \cup B
    BY Zenon
  <2>1. i # 0
    BY <1>1 DEF Ref
  <2>2. CASE \E q \in Query : cache[q] = i
    BY <2>2, Zenon
  <2>3. CASE \E x \in Reader : rd[x].ref = i
    <3>1. PICK x \in Reader : rd[x].ref = i
      BY <2>3, Zenon
    <3>2. x \in others /\ refs[x] = i
      BY <2>1, <3>1, Zenon
    <3> QED BY <3>2, Zenon
  <2> QED BY <2>2, <2>3, Zenon
<1>5. IsFiniteSet(A \cup B) /\ Cardinality(A \cup B) <= a + (b - 1)
  <2> HIDE DEF A, B, a, b
  <2>1. /\ IsFiniteSet(A \cup B)
        /\ Cardinality(A \cup B) = Cardinality(A) + Cardinality(B) - Cardinality(A \cap B)
    BY <1>2, <1>3, FS_Union, Zenon
  <2>2. IsFiniteSet(A \cap B)
    BY <1>2, FS_Intersection, Zenon
  <2>3. /\ Cardinality(A) \in Nat /\ Cardinality(B) \in Nat /\ Cardinality(A \cap B) \in Nat
        /\ Cardinality(A \cup B) \in Nat
    BY <1>2, <1>3, <2>1, <2>2, FS_CardinalityType
  <2> QED BY <1>1, <1>2, <1>3, <2>1, <2>3
<1>6. IsFiniteSet(Ref) /\ Cardinality(Ref) = a + b
  <2> HIDE DEF a, b
  <2>1. Ref = 1..(a + b) /\ a + b \in Nat
    BY <1>1 DEF Ref, a, b
  <2>2. /\ IsFiniteSet(1..(a + b))
        /\ Cardinality(1..(a + b)) = IF 1 > a + b THEN 0 ELSE (a + b) - 1 + 1
    BY <2>1, FS_Interval
  <2> QED BY <1>1, <2>1, <2>2
<1>7. Ref \subseteq A \cup B => Cardinality(Ref) <= Cardinality(A \cup B)
  <2> HIDE DEF A, B
  <2> QED BY <1>5, FS_Subset, Zenon
<1>8. Cardinality(A \cup B) \in Nat
  <2> HIDE DEF A, B
  <2> QED BY <1>5, FS_CardinalityType, Zenon
<1> HIDE DEF A, B, a, b
<1> QED BY <1>1, <1>4, <1>5, <1>6, <1>7, <1>8

(* The new proof is one of the query's.                                    *)
LEMMA NewProof ==
  ASSUME NEW o, NEW q, NEW tree, Tree(o, tree), tree # <<>>, tree[1].path = q,
         NEW nodes, nodes = Composed(tree), NEW vv \in Vector,
         NEW y, y = [nodes |-> nodes, vv |-> vv, value |-> nodes[1].cached]
  PROVE  OwnProof(o, y, q)
<1>1. /\ Tree(o, nodes) /\ Filled(o, nodes)
      /\ nodes = <<>> <=> tree = <<>>
      /\ \A n \in 1..Len(tree) : nodes[n].path = tree[n].path
  BY ComposedOwn, NatSetInduction
<1>2. nodes \in Seq(Node) /\ tree \in Seq(Node) /\ nodes # <<>>
  BY <1>1, Zenon DEF Tree
<1>3. 1 \in 1..Len(tree) /\ 1 \in 1..Len(nodes)
  BY <1>2
<1>4. nodes[1].path = q /\ Own(o, q, nodes[1].cached)
  BY <1>1, <1>3, Zenon DEF Filled
<1>5. nodes[1].cached \in Value
  BY <1>4, Zenon DEF Own
<1>6. y \in Proof /\ y.nodes = nodes /\ y.value = nodes[1].cached
  BY <1>2, <1>5, Zenon DEF Proof
<1> QED BY <1>1, <1>2, <1>4, <1>6, Zenon DEF OwnProof

LEMMA PublishInv ==
  ASSUME EngineInv, NEW r \in Reader, Publish(r)
  PROVE  EngineInv'
<1> DEFINE me == rd[r]
           q == me.q
           nodes == Composed(me.nodes)
           free == {i \in Ref : (\A x \in Query : cache[x] # i) /\ \A x \in Reader : rd[x].ref # i}
           ref == Min(free)
<1>0. me.pc = "vector" /\ UNCHANGED <<frontier, origin, ans>>
  BY Zenon DEF Publish, At, store
<1>1. OwnLocals(origin, proofs, me) /\ me \in Locals(me) /\ q \in Query
  BY <1>0, ReaderFacts, Zenon
<1>2. CASE rd' = [rd EXCEPT ![r] = [Idle EXCEPT !.pc = "panic"]] /\ UNCHANGED <<proofs, cache, lru>>
  <2> DEFINE x == [Idle EXCEPT !.pc = "panic"]
  <2>1. OwnLocals(origin, proofs, x)
    BY FreshOwn, Zenon
  <2>2. rd' = [rd EXCEPT ![r] = x]
    BY <1>2, Zenon
  <2> HIDE DEF x
  <2> QED BY <1>0, <1>2, <2>1, <2>2, Moved, LruKept, Zenon DEF EngineInv, store
<1> DEFINE y == [nodes |-> nodes, vv |-> me.vv, value |-> nodes[1].cached]
           x == [Idle EXCEPT !.pc = "respond", !.q = q, !.ref = ref]
<1>3. CASE /\ me.nodes # <<>>
           /\ proofs' = [proofs EXCEPT ![ref] = y]
           /\ cache' = [z \in Query |-> IF z = q THEN ref
                                        ELSE IF Full(q) /\ z = Last(lru) THEN 0 ELSE cache[z]]
           /\ lru' = IF cache[q] # 0 THEN MoveToFront(q)
                     ELSE <<q>> \o (IF Full(q) THEN Front(lru) ELSE lru)
           /\ rd' = [rd EXCEPT ![r] = x]
  <2>1. ref \in free
    <3>1. me.ref = 0
      BY <1>0, <1>1, Zenon DEF OwnLocals, Using
    <3>2. free # {}
      BY <3>1, FreeRef, Zenon
    <3>3. free \in SUBSET Nat
      BY EngineAssumption, FS_CardinalityType DEF Ref
    <3> HIDE DEF free
    <3> QED BY <3>2, <3>3, MinOf, Zenon
  <2>2. /\ ref \in Ref /\ ref # 0
        /\ \A z \in Query : cache[z] # ref
        /\ \A z \in Reader : rd[z].ref # ref
    <3>1. 0 \notin Ref
      BY EngineAssumption, FS_CardinalityType DEF Ref
    <3> QED BY <2>1, <3>1, Zenon
  <2> HIDE DEF free, ref
  <2>3. OwnProof(origin, y, q)
    <3>1. Tree(origin, me.nodes) /\ me.nodes[1].path = q /\ me.vv \in Vector
      BY <1>0, <1>1, <1>3, Zenon DEF OwnLocals, OwnTree, Building, Locals
    <3> HIDE DEF q, me
    <3> QED BY <1>3, <3>1, NewProof, Zenon
  <2> HIDE DEF y
  <2>4. /\ proofs' \in [Ref -> Proof \cup {Absent}] /\ proofs'[ref] = y
        /\ \A i \in Ref : i # ref => proofs'[i] = proofs[i]
    <3>1. proofs \in [Ref -> Proof \cup {Absent}] /\ y \in Proof
      BY <2>3, Zenon DEF EngineInv, ProofsInv, OwnProof
    <3> QED BY <1>3, <2>2, <3>1, Zenon
  <2>5. LruInv'
    <3> HIDE DEF q
    <3> QED BY <1>1, <1>3, <2>2, PublishLru, Zenon DEF EngineInv
  <2>6. ReaderInv'
    <3>1. x \in Locals(x) /\ x.pc = "respond" /\ x.q = q /\ x.ref = ref /\ x.nodes = <<>>
      <4> HIDE DEF q
      <4>1. x \in Locals(x)
        BY <1>1, <2>2, IdleType, Zenon DEF Locals, Ops
      <4>2. x.pc = "respond" /\ x.q = q /\ x.ref = ref /\ x.nodes = <<>>
        BY DEF Idle
      <4> QED BY <4>1, <4>2, Zenon
    <3> HIDE DEF x, q
    <3>2. OwnLocals(origin, proofs', x)
      BY <1>1, <2>2, <2>3, <2>4, <3>1, Zenon DEF OwnLocals, Building, Using
    <3>3. ASSUME NEW z \in Reader \ {r}, rd[z].ref # 0
          PROVE  OwnProof(origin, proofs'[rd[z].ref], rd[z].q)
      <4>1. OwnProof(origin, proofs[rd[z].ref], rd[z].q) /\ rd[z] \in Locals(rd[z])
        BY <3>3, Zenon DEF EngineInv, ReaderInv, OwnLocals
      <4>2. rd[z].ref \in Ref
        BY <3>3, <4>1, Zenon DEF Locals
      <4> QED BY <2>2, <2>4, <4>1, <4>2, Zenon
    <3> QED BY <1>0, <1>3, <3>2, <3>3, ReaderSet, Zenon DEF EngineInv
  <2>7. ProofsInv'
    <3> HIDE DEF x, q
    <3>1. ASSUME NEW z \in Query, cache'[z] # 0 PROVE OwnProof(origin, proofs'[cache'[z]], z)
      <4>1. CASE z = q
        BY <1>3, <2>3, <2>4, <4>1, Zenon
      <4>2. CASE z # q
        <5>1. cache'[z] = cache[z] /\ cache[z] # 0
          BY <1>3, <3>1, <4>2, Zenon
        <5>2. cache[z] \in Ref /\ cache[z] # ref /\ OwnProof(origin, proofs[cache[z]], z)
          BY <2>2, <5>1, Zenon DEF EngineInv, LruInv, ProofsInv
        <5> QED BY <2>4, <5>1, <5>2, Zenon
      <4> QED BY <4>1, <4>2, Zenon
    <3> QED BY <1>0, <2>4, <3>1, Zenon DEF ProofsInv
  <2>8. StoreInv' /\ AnswerInv'
    BY <1>0, Zenon DEF EngineInv, StoreInv, AnswerInv
  <2> QED BY <2>5, <2>6, <2>7, <2>8, Zenon DEF EngineInv
<1> HIDE DEF ref
<1> QED BY <1>2, <1>3, Zenon DEF Publish, Go, ref

LEMMA StepEngineInv ==
  ASSUME EngineInv, [Next]_vars
  PROVE  EngineInv'
<1>1. CASE WriteStep
  BY <1>1, WriteInv, Zenon
<1>2. ASSUME NEW r \in Reader, GetStep(r) PROVE EngineInv'
  <2>1. CASE \E q \in Query : Begin(r, q)
    BY <2>1, BeginInv, Zenon
  <2>2. CASE GetFirst(r) \/ Lookup(r) \/ Done(r)
    BY <2>2, GetFirstInv, LookupInv, DoneInv, Zenon
  <2>3. CASE Gather(r) \/ Build(r) \/ Publish(r)
    BY <2>3, GatherInv, BuildInv, PublishInv, Zenon
  <2>4. CASE Capture(r) \/ \E p \in Path : CaptureNode(r, p)
    BY <2>4, CaptureInv, Zenon
  <2>5. CASE Respond(r) \/ FastPath(r) \/ Return(r)
    BY <2>5, ReturnInv, Zenon
  <2>6. CASE Lock(r) \/ \E p \in Path : Verify(r, p) \/ FindChanged(r, p)
    BY <2>6, VerifyInv, Zenon
  <2>7. CASE MarkChanged(r) \/ Visit(r) \/ Reduce(r)
    BY <2>7, MarkChangedInv, VisitInv, ReduceInv
  <2>8. CASE \E p \in Path : UpdateVector(r, p)
    BY <2>8, UpdateVectorInv
  <2> QED BY <1>2, <2>1, <2>2, <2>3, <2>4, <2>5, <2>6, <2>7, <2>8, Zenon DEF GetStep, GetWork
<1>3. CASE UNCHANGED vars
  BY <1>3 DEF vars, store, EngineInv, StoreInv, LruInv, ProofsInv, ReaderInv, AnswerInv
<1> QED BY <1>1, <1>2, <1>3, Zenon DEF Next

(* The version vectors, proofs, cache and LRU list keep their types next   *)
(* to any number of GETs, writes and evictions; the ProofCache never holds *)
(* more than Capacity proofs, its list names exactly the cached queries,   *)
(* and each of them has a proof (ProofCache.Get and Set).                  *)
THEOREM EngineTypeCorrect == Spec => []TypeOK
<1>1. Init => EngineInv
  BY InitEngineInv, Zenon
<1>2. EngineInv /\ [Next]_vars => EngineInv'
  BY StepEngineInv, Zenon
<1>3. EngineInv => TypeOK
  BY EngineTyped, Zenon
<1> QED BY <1>1, <1>2, <1>3, PTL DEF Spec

(* Each leaf a GET answers with was written to the key, or to the field,   *)
(* that it is shown under, whatever trees of compositions are built,       *)
(* reduced again (reduceDirty) and shared through the cache, and however   *)
(* their steps interleave with SET, DEL and eviction.                      *)
THEOREM AnswersOwnValues == Spec => []OwnValues
<1>1. Init => EngineInv
  BY InitEngineInv
<1>2. EngineInv /\ [Next]_vars => EngineInv'
  BY StepEngineInv
<1>3. EngineInv => OwnValues
  BY DEF EngineInv, AnswerInv, Own, Wrote, OwnValues
<1> QED BY <1>1, <1>2, <1>3, PTL DEF Spec
=============================================================================
