----------------------------- MODULE ProofEngine ----------------------------
(***************************************************************************)
(* GET with the proof cache (internal/engine and the GET case of           *)
(* resp3/server.go): a materialized proof is a tree of nodes with cached   *)
(* values and a version vector; a read verifies the vector against the     *)
(* frontier, or finds the changed paths, marks their nodes dirty up to the *)
(* root, reduces the dirty nodes again and moves the vector forward.       *)
(*                                                                         *)
(* One step is one access to the store (one shard lock) or one access to   *)
(* the proof cache; what a reader does in between is local.  Atoms carry   *)
(* constants or compositions of other atoms.  Every write has a hash of    *)
(* its own, 1, 2, ..., and SET writes its own hash as the value; DEL       *)
(* writes 0 (VNull).  A value is the set of its leaves, each with the      *)
(* fields that lead to it; nodes are numbered in the order they are built. *)
(***************************************************************************)
EXTENDS Integers, Sequences, FiniteSets, FiniteSetsExt

CONSTANTS
  Path,          \* keys
  Query,         \* keys that are read with GET
  SetPath,       \* keys that are written with SET and DEL
  Uses,          \* Uses[p]: the paths a composition stored at p is made of,
                 \* in order; <<>> when none is stored there
  Evictable,     \* keys the store may evict or expire
  KeepsHistory,  \* GetAtom finds replaced atoms (CausalCrystal: yes,
                 \* frontier caches: no)
  Capacity,      \* entries the proof cache holds
  Reader,        \* connections
  MaxHash,       \* bound: atoms written
  Absent

Hash == 1..MaxHash
Ref == 1..(Cardinality(Query) + Cardinality(Reader))

(* Hashes and values are 0 where there is none (VNull).                    *)
Value == SUBSET (Seq(Path) \X (Hash \cup {0}))
Expr == [kind : {"const", "compose"}, val : Hash \cup {0}, atoms : Seq(Hash)]
Node == [path : Path, expr : Expr, up : Nat, cached : Value \cup {Absent}, dirty : BOOLEAN]
Vector == [Path -> Hash \cup {0}]
Proof == [nodes : Seq(Node), vv : Vector, value : Value]

ASSUME EngineAssumption ==
  /\ Query \subseteq Path /\ SetPath \subseteq Path /\ Evictable \subseteq Path
  /\ IsFiniteSet(Query) /\ IsFiniteSet(Reader)
  /\ Uses \in [Path -> Seq(Path)]
  /\ KeepsHistory \in BOOLEAN
  /\ Capacity \in Nat \ {0}
  /\ MaxHash \in Nat
  /\ Absent \notin Path /\ Absent \notin Proof

VARIABLES
  frontier,  \* the current atom of each path, or Absent
  origin,    \* the path each hash was written to
  proofs,    \* the MaterializedProofs in memory
  cache,     \* ProofCache.entries: the proof of each query
  lru,       \* ProofCache: its keys, most recently used first
  rd,        \* each connection's GET: where it is and its locals
  ans        \* what each connection is about to send, with its query

(* Of SequencesExt, which as a whole is more than the provers can carry.   *)
Front(s) == SubSeq(s, 1, Len(s) - 1)
Last(s) == s[Len(s)]
RemoveAt(s, i) == SubSeq(s, 1, i - 1) \o SubSeq(s, i + 1, Len(s))

store == <<frontier, origin>>
vars == <<store, proofs, cache, lru, rd, ans>>

-----------------------------------------------------------------------------
(* Values.                                                                 *)
Leaf(v) == {<<<<>>, v>>}

Nil == Leaf(0)

Field(p, value) == {<<<<p>> \o e[1], e[2]>> : e \in value}

Const(v) == [kind |-> "const", val |-> v, atoms |-> <<>>]

Compose(hs) == [kind |-> "compose", val |-> 0, atoms |-> hs]

(* Store.GetAtom: the path of the atom with this hash, or Absent.          *)
AtomPath(h) ==
  IF KeepsHistory \/ (frontier[origin[h]] # Absent /\ frontier[origin[h]].hash = h)
    THEN origin[h] ELSE Absent

(* Present and no tombstone.                                               *)
Live(p) == frontier[p] # Absent /\ frontier[p].expr # Const(0)

(* The entry of a version vector that no longer matches the frontier.      *)
Changed(p, h) == frontier[p] = Absent \/ frontier[p].hash # h

-----------------------------------------------------------------------------
(* Proof nodes: [path, expr, up, cached, dirty]; the root is 1, with up 0. *)
Kids(nodes, n) == {m \in DOMAIN nodes : nodes[m].up = n}

(* VRecord assignment: of two children with one path the later stays.      *)
LastKids(nodes, n) ==
  {m \in Kids(nodes, n) : \A k \in Kids(nodes, n) : nodes[k].path = nodes[m].path => k <= m}

(* MaterializedProof.PathToNode: the node built last for a path.           *)
NodeOf(nodes, p) == Max({n \in DOMAIN nodes : nodes[n].path = p})

(* The node and its ancestors.                                             *)
Ancestors(nodes, n) ==
  LET A[m \in 0..Len(nodes)] == IF m = 0 THEN {} ELSE {m} \cup A[nodes[m].up]
  IN A[n]

(* A mutant of MarkDirty: only the changed nodes are marked.               *)
MarkChangedOnly(nodes, changed) ==
  [n \in DOMAIN nodes |-> [nodes[n] EXCEPT !.dirty = nodes[n].path \in changed]]

(* ResetDirty, then PropagateDirtyUp from the node of each changed path.   *)
MarkDirty(nodes, changed) ==
  LET dirty == UNION {Ancestors(nodes, NodeOf(nodes, p)) :
                        p \in {c \in changed : \E n \in DOMAIN nodes : nodes[n].path = c}}
  IN [n \in DOMAIN nodes |-> [nodes[n] EXCEPT !.dirty = n \in dirty]]

(* The values of the composition nodes in open, whose children are done.   *)
FillIn(nodes, open) ==
  LET V[n \in DOMAIN nodes] ==
        IF n \in open THEN UNION {Field(nodes[m].path, V[m]) : m \in LastKids(nodes, n)}
        ELSE nodes[n].cached
  IN [n \in DOMAIN nodes |->
        IF n \in open THEN [nodes[n] EXCEPT !.cached = V[n], !.dirty = FALSE]
        ELSE nodes[n]]

(* reduceDirty of a tree without cached values and dirty marks.            *)
Composed(nodes) ==
  FillIn([n \in DOMAIN nodes |->
            IF nodes[n].expr.kind = "const"
              THEN [nodes[n] EXCEPT !.cached = Leaf(nodes[n].expr.val)]
              ELSE nodes[n]],
         {n \in DOMAIN nodes : nodes[n].expr.kind = "compose"})

-----------------------------------------------------------------------------
Idle == [pc |-> "idle", q |-> Absent, ref |-> 0, hash |-> 0, nodes |-> <<>>,
         vv |-> [p \in Path |-> 0], todo |-> {}, changed |-> {}, stack |-> <<>>,
         open |-> {}]

NoAnswer == [q |-> Absent, val |-> Nil]

Init ==
  /\ frontier = [p \in Path |-> Absent]
  /\ origin = <<>>
  /\ proofs = [i \in Ref |-> Absent]
  /\ cache = [q \in Query |-> 0]
  /\ lru = <<>>
  /\ rd = [r \in Reader |-> Idle]
  /\ ans = [r \in Reader |-> NoAnswer]

(* A panic in one goroutine ends the process.                              *)
Running == \A r \in Reader : rd[r].pc # "panic"

(* AppendAtom: SET, DEL (a constant) or a composition of current atoms.    *)
Append1(p, e) ==
  /\ Running
  /\ Len(origin) < MaxHash
  /\ frontier' = [frontier EXCEPT ![p] = [hash |-> Len(origin) + 1, expr |-> e]]
  /\ origin' = Append(origin, p)
  /\ UNCHANGED <<proofs, cache, lru, rd, ans>>

SetKey(p) == Append1(p, Const(Len(origin) + 1))

DelKey(p) == frontier[p] # Absent /\ Append1(p, Const(0))

ComposeKey(p) ==
  /\ Uses[p] # <<>>
  /\ \A q \in Range(Uses[p]) : frontier[q] # Absent
  /\ Append1(p, Compose([i \in DOMAIN Uses[p] |-> frontier[Uses[p][i]].hash]))

(* The store evicts the path or its deadline passes.                       *)
Forget(p) ==
  /\ Running
  /\ frontier[p] # Absent
  /\ frontier' = [frontier EXCEPT ![p] = Absent]
  /\ UNCHANGED <<origin, proofs, cache, lru, rd, ans>>

-----------------------------------------------------------------------------
At(r, l) == Running /\ rd[r].pc = l

Go(r, locals) == rd' = [rd EXCEPT ![r] = locals]

Answer(r, value) ==
  /\ ans' = [ans EXCEPT ![r] = [q |-> rd[r].q, val |-> value]]
  /\ Go(r, [Idle EXCEPT !.pc = "done", !.q = rd[r].q])

(* The answer is on its way to the client; its GET is over.                *)
Done(r) ==
  /\ At(r, "done")
  /\ Go(r, Idle)
  /\ ans' = [ans EXCEPT ![r] = NoAnswer]
  /\ UNCHANGED <<store, proofs, cache, lru>>

(* GET: look the key up; an absent or deleted key is answered at once.     *)
Begin(r, q) ==
  /\ At(r, "idle")
  /\ Go(r, [Idle EXCEPT !.pc = "get", !.q = q])
  /\ UNCHANGED <<store, proofs, cache, lru, ans>>

GetFirst(r) ==
  /\ At(r, "get")
  /\ \/ /\ ~Live(rd[r].q)
        /\ Answer(r, Nil)
     \/ /\ Live(rd[r].q)
        /\ Go(r, [rd[r] EXCEPT !.pc = "lookup"])
        /\ UNCHANGED ans
  /\ UNCHANGED <<store, proofs, cache, lru>>

MoveToFront(q) == <<q>> \o RemoveAt(lru, CHOOSE i \in DOMAIN lru : lru[i] = q)

(* A mutant of Lookup: it takes the most recently used proof.              *)
LookupLatest(r) ==
  /\ At(r, "lookup")
  /\ \/ /\ lru # <<>>
        /\ Go(r, [rd[r] EXCEPT !.pc = "lock", !.ref = cache[Head(lru)]])
     \/ /\ lru = <<>>
        /\ Go(r, [rd[r] EXCEPT !.pc = "gather"])
  /\ UNCHANGED <<store, proofs, cache, lru, ans>>

(* ProofCache.Get.                                                         *)
Lookup(r) ==
  LET q == rd[r].q IN
  /\ At(r, "lookup")
  /\ \/ /\ cache[q] # 0
        /\ lru' = MoveToFront(q)
        /\ Go(r, [rd[r] EXCEPT !.pc = "lock", !.ref = cache[q]])
     \/ /\ cache[q] = 0
        /\ Go(r, [rd[r] EXCEPT !.pc = "gather"])
        /\ UNCHANGED lru
  /\ UNCHANGED <<store, proofs, cache, ans>>

-----------------------------------------------------------------------------
(* ComposeProof.                                                           *)

(* gatherCausalClosure.                                                    *)
Gather(r) ==
  LET q == rd[r].q IN
  /\ At(r, "gather")
  /\ \/ /\ frontier[q] = Absent      \* error: path not found
        /\ Answer(r, Nil)
     \/ /\ frontier[q] # Absent
        /\ Go(r, [rd[r] EXCEPT !.pc = "build", !.hash = frontier[q].hash,
                               !.stack = <<[hash |-> 0, path |-> q, up |-> 0]>>])
        /\ UNCHANGED ans
  /\ UNCHANGED <<store, proofs, cache, lru>>

(* buildProofNode, depth first: find the path of a child's hash, then read *)
(* the path and add its node; a child that is gone is left out.            *)
Build(r) ==
  LET me == rd[r]
      it == Head(me.stack)
      atom == frontier[it.path]
      id == Len(me.nodes) + 1
  IN
  /\ At(r, "build")
  /\ me.stack # <<>>
  /\ Go(r,
       IF it.path = Absent /\ AtomPath(it.hash) # Absent
         THEN [me EXCEPT !.stack[1].path = AtomPath(it.hash)]
       ELSE IF it.path = Absent \/ atom = Absent
         THEN [me EXCEPT !.stack = Tail(@)]
       ELSE [me EXCEPT
               !.nodes = Append(@, [path |-> it.path, expr |-> atom.expr, up |-> it.up,
                                    cached |-> Absent, dirty |-> FALSE]),
               !.stack = [i \in DOMAIN atom.expr.atoms |->
                            [hash |-> atom.expr.atoms[i], path |-> Absent, up |-> id]]
                         \o Tail(@)])
  /\ UNCHANGED <<store, proofs, cache, lru, ans>>

NodePaths(nodes) == {nodes[n].path : n \in DOMAIN nodes}

(* captureVersionVector: the query's own entry.                            *)
Capture(r) ==
  LET me == rd[r]
      q == me.q
  IN
  /\ At(r, "build")
  /\ me.stack = <<>>
  /\ Go(r, [me EXCEPT
              !.pc = "vector",
              !.vv[q] = IF frontier[q] # Absent THEN frontier[q].hash ELSE me.hash,
              !.todo = NodePaths(me.nodes) \ {q}])
  /\ UNCHANGED <<store, proofs, cache, lru, ans>>

(* The entries of the other nodes' paths; one that is gone gets none.      *)
CaptureNode(r, p) ==
  LET me == rd[r] IN
  /\ At(r, "vector")
  /\ p \in me.todo
  /\ Go(r, [me EXCEPT !.todo = @ \ {p},
                      !.vv[p] = IF frontier[p] # Absent THEN frontier[p].hash ELSE @])
  /\ UNCHANGED <<store, proofs, cache, lru, ans>>

(* A mutant of Full: one entry too many.                                   *)
FullTooLate(q) == cache[q] = 0 /\ Len(lru) > Capacity

(* ProofCache.Set has to make room for a key it does not hold.             *)
Full(q) == cache[q] = 0 /\ Len(lru) >= Capacity

(* reduceDirty of the new tree, then ProofCache.Set, which makes room by   *)
(* dropping the least recently used proof.  Without a root reduceDirty     *)
(* dereferences nil and the process dies.                                  *)
Publish(r) ==
  LET me == rd[r]
      nodes == Composed(me.nodes)
      free == {i \in Ref : (\A q \in Query : cache[q] # i) /\ \A x \in Reader : rd[x].ref # i}
      ref == Min(free)
      kept == IF Full(me.q) THEN Front(lru) ELSE lru
  IN
  /\ At(r, "vector")
  /\ me.todo = {}
  /\ \/ /\ me.nodes = <<>>
        /\ Go(r, [Idle EXCEPT !.pc = "panic"])
        /\ UNCHANGED <<proofs, cache, lru>>
     \/ /\ me.nodes # <<>>
        /\ proofs' = [proofs EXCEPT ![ref] = [nodes |-> nodes, vv |-> me.vv,
                                              value |-> nodes[1].cached]]
        /\ cache' = [q \in Query |->
                       IF q = me.q THEN ref
                       ELSE IF Full(me.q) /\ q = Last(lru) THEN 0 ELSE cache[q]]
        /\ lru' = IF cache[me.q] # 0 THEN MoveToFront(me.q) ELSE <<me.q>> \o kept
        /\ Go(r, [Idle EXCEPT !.pc = "respond", !.q = me.q, !.ref = ref])
  /\ UNCHANGED <<store, ans>>

(* The handler formats proof.Value after Set, without the proof's lock.    *)
Respond(r) ==
  /\ At(r, "respond")
  /\ Answer(r, proofs[rd[r].ref].value)
  /\ UNCHANGED <<store, proofs, cache, lru>>

-----------------------------------------------------------------------------
(* ReduceIncremental, under proof.mu.                                      *)

(* A mutant of Holds: the lock is taken when it is asked for.              *)
HoldsFromCall(r, i) == rd[r].ref = i /\ rd[r].pc \in {"lock", "verify", "find", "reduce", "update"}

Holds(r, i) == rd[r].ref = i /\ rd[r].pc \in {"verify", "find", "reduce", "update"}

Entries(i) == {p \in Path : proofs[i].vv[p] # 0}

Lock(r) ==
  LET i == rd[r].ref IN
  /\ At(r, "lock")
  /\ \A x \in Reader : ~Holds(x, i)
  /\ Go(r, [rd[r] EXCEPT !.pc = "verify", !.todo = Entries(i)])
  /\ UNCHANGED <<store, proofs, cache, lru, ans>>

(* VerifyVersionVector: one entry; the first that does not match ends it.  *)
Verify(r, p) ==
  LET me == rd[r] IN
  /\ At(r, "verify")
  /\ p \in me.todo
  /\ Go(r, IF Changed(p, proofs[me.ref].vv[p])
             THEN [me EXCEPT !.pc = "find", !.todo = Entries(me.ref)]
             ELSE [me EXCEPT !.todo = @ \ {p}])
  /\ UNCHANGED <<store, proofs, cache, lru, ans>>

(* Fast path 1: every entry matched.                                       *)
FastPath(r) ==
  /\ At(r, "verify")
  /\ rd[r].todo = {}
  /\ Answer(r, proofs[rd[r].ref].value)
  /\ UNCHANGED <<store, proofs, cache, lru>>

(* FindChangedPaths: one entry.                                            *)
FindChanged(r, p) ==
  LET me == rd[r] IN
  /\ At(r, "find")
  /\ p \in me.todo
  /\ Go(r, [me EXCEPT !.todo = @ \ {p},
                      !.changed = IF Changed(p, proofs[me.ref].vv[p]) THEN @ \cup {p} ELSE @])
  /\ UNCHANGED <<store, proofs, cache, lru, ans>>

MarkChanged(r) ==
  LET me == rd[r] IN
  /\ At(r, "find")
  /\ me.todo = {}
  /\ proofs' = [proofs EXCEPT ![me.ref].nodes = MarkDirty(@, me.changed)]
  /\ Go(r, [me EXCEPT !.pc = "reduce", !.stack = <<1>>])
  /\ UNCHANGED <<store, cache, lru, ans>>

(* Children in the order in which they were built.                         *)
InOrder(kids) ==
  CHOOSE s \in [1..Cardinality(kids) -> kids] :
    \A i, j \in 1..Cardinality(kids) : i < j => s[i] < s[j]

(* reduceDirty enters a node: a clean one keeps its value, a dirty one is  *)
(* read again (and keeps its expression when it is gone).                  *)
Visit(r) ==
  LET me == rd[r]
      nodes == proofs[me.ref].nodes
      n == Head(me.stack)
      node == nodes[n]
      expr == IF node.dirty /\ frontier[node.path] # Absent
                THEN frontier[node.path].expr ELSE node.expr
      kids == InOrder(Kids(nodes, n))
  IN
  /\ At(r, "reduce")
  /\ me.stack # <<>>
  /\ \/ /\ ~node.dirty /\ node.cached # Absent
        /\ Go(r, [me EXCEPT !.stack = Tail(@)])
        /\ UNCHANGED proofs
     \/ /\ node.dirty \/ node.cached = Absent
        /\ expr.kind = "const"
        /\ proofs' = [proofs EXCEPT ![me.ref].nodes[n] =
                        [@ EXCEPT !.expr = expr, !.cached = Leaf(expr.val), !.dirty = FALSE]]
        /\ Go(r, [me EXCEPT !.stack = Tail(@)])
     \/ /\ node.dirty \/ node.cached = Absent
        /\ expr.kind = "compose"
        /\ proofs' = [proofs EXCEPT ![me.ref].nodes[n].expr = expr]
        /\ Go(r, [me EXCEPT !.stack = kids \o Tail(@), !.open = @ \cup {n}])
  /\ UNCHANGED <<store, cache, lru, ans>>

(* reduceDirty returns: the compositions take their children's values, and *)
(* the root's becomes proof.Value.                                         *)
Reduce(r) ==
  LET me == rd[r]
      nodes == FillIn(proofs[me.ref].nodes, me.open)
  IN
  /\ At(r, "reduce")
  /\ me.stack = <<>>
  /\ proofs' = [proofs EXCEPT ![me.ref] = [@ EXCEPT !.nodes = nodes, !.value = nodes[1].cached]]
  /\ Go(r, [me EXCEPT !.pc = "update", !.todo = me.changed])
  /\ UNCHANGED <<store, cache, lru, ans>>

(* The vector takes the hash the frontier has now for each changed path.   *)
UpdateVector(r, p) ==
  LET me == rd[r] IN
  /\ At(r, "update")
  /\ p \in me.todo
  /\ proofs' = [proofs EXCEPT ![me.ref].vv[p] =
                  IF frontier[p] # Absent THEN frontier[p].hash ELSE @]
  /\ Go(r, [me EXCEPT !.todo = @ \ {p}])
  /\ UNCHANGED <<store, cache, lru, ans>>

Return(r) ==
  /\ At(r, "update")
  /\ rd[r].todo = {}
  /\ Answer(r, proofs[rd[r].ref].value)
  /\ UNCHANGED <<store, proofs, cache, lru>>

-----------------------------------------------------------------------------
GetWork(r) ==
  \/ GetFirst(r) \/ Lookup(r) \/ Done(r)
  \/ Gather(r) \/ Build(r) \/ Capture(r) \/ Publish(r) \/ Respond(r)
  \/ \E p \in Path : CaptureNode(r, p)
  \/ Lock(r) \/ FastPath(r) \/ MarkChanged(r) \/ Visit(r) \/ Reduce(r) \/ Return(r)
  \/ \E p \in Path : Verify(r, p) \/ FindChanged(r, p) \/ UpdateVector(r, p)

GetStep(r) == GetWork(r) \/ \E q \in Query : Begin(r, q)

WriteStep ==
  \/ \E p \in SetPath : SetKey(p) \/ DelKey(p)
  \/ \E p \in Path : ComposeKey(p)
  \/ \E p \in Evictable : Forget(p)

Next == WriteStep \/ \E r \in Reader : GetStep(r)

Spec == Init /\ [][Next]_vars

(* A connection's goroutine runs on, and sync.Mutex starves no waiter.     *)
FairSpec == Spec /\ \A r \in Reader : WF_vars(GetWork(r)) /\ SF_vars(Lock(r))

-----------------------------------------------------------------------------
Ops == {"idle", "get", "lookup", "done", "gather", "build", "vector", "respond",
        "panic", "lock", "verify", "find", "reduce", "update"}

(* Every variable has its type; the cache and its LRU list hold the same   *)
(* queries, at most Capacity of them (ProofCache.Set).                     *)
TypeOK ==
  /\ origin \in Seq(Path) /\ Len(origin) <= MaxHash
  /\ \A p \in Path : frontier[p] = Absent \/
       /\ frontier[p].hash \in DOMAIN origin
       /\ origin[frontier[p].hash] = p
  /\ proofs \in [Ref -> Proof \cup {Absent}]
  /\ cache \in [Query -> Ref \cup {0}]
  /\ Range(lru) = {q \in Query : cache[q] # 0}
  /\ Len(lru) <= Capacity
  /\ \A q \in Query : cache[q] # 0 => proofs[cache[q]] # Absent
  /\ \A r \in Reader : rd[r].pc \in Ops /\ rd[r].vv \in Vector

(* Whatever proof a GET finds, composes or updates next to other GETs,     *)
(* writes and evictions, each leaf it answers with was written to the key, *)
(* or to the field, that it is shown under.                                *)
OwnValues ==
  \A r \in Reader : \A e \in ans[r].val :
    e[2] # 0 => origin[e[2]] = IF e[1] = <<>> THEN ans[r].q ELSE Last(e[1])

(* Every GET is answered, unless a panic ends the process: no reader waits *)
(* for ever for a proof's lock, however often others take it.              *)
GetReturns == \A r \in Reader : rd[r].pc = "get" ~> (rd[r].pc = "idle" \/ ~Running)
=============================================================================
