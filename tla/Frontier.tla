------------------------------ MODULE Frontier ------------------------------
(***************************************************************************)
(* ShardedFrontierCache (internal/storage/sharded_frontier.go): the        *)
(* current atom of every path, spread over shards with a lock each, a      *)
(* logical clock shared by all shards, an LRU list per shard, a global     *)
(* byte counter with a 90% -> 80% ceiling, and a TTL sweeper.              *)
(*                                                                         *)
(* Goroutines are the elements of Proc.  One step is what the code does    *)
(* under one acquisition of one lock, or one atomic load; AppendAtom is    *)
(* therefore a mint (no lock), a locked section, a load of the byte        *)
(* counter and, above the ceiling, the loop of evictToTarget.              *)
(*                                                                         *)
(* An atom is its value, deadline and logical clock.  ComputeHash covers   *)
(* the clock, and every atom has its own, so the clock stands for the      *)
(* hash.  A deadline of 0 is the zero time: no expiry.                     *)
(***************************************************************************)
EXTENDS Integers, FiniteSets, Functions

CONSTANTS
  Path,        \* keys
  Val,         \* expressions an atom can carry
  Const,       \* those that are constants (EConst); only they are deduplicated
  Ser,         \* Ser[v]: the bytes Value.Serialize returns for v \in Const
  Proc,        \* goroutines that call AppendAtom
  ShardCount,  \* number of shards (32 in the code)
  ShardOf,     \* shardFor: the shard of a path
  Cost,        \* Cost[p][v]: estimateAtomBytes
  MaxMemory,   \* maxMemoryBytes
  MaxClock,    \* bound: atoms minted
  MaxTime,     \* bound: clock ticks
  Deadline,    \* deadlines a caller may ask for; 0 is none
  Absent       \* no entry

Shard == 1..ShardCount

Atom == [val : Val, exp : Deadline, clock : 1..MaxClock]

Content == [val : Val, exp : Deadline]

ASSUME ShapeAssumption ==
  /\ IsFiniteSet(Path)
  /\ ShardCount \in Nat \ {0}
  /\ ShardOf \in [Path -> Shard]
  /\ Const \subseteq Val
  /\ Cost \in [Path -> [Val -> Nat \ {0}]]
  /\ MaxMemory \in Nat \ {0}
  /\ MaxClock \in Nat
  /\ MaxTime \in Nat \ {0}
  /\ Deadline \subseteq 0..MaxTime
  /\ Absent \notin Atom \cup Content \cup [path : Path, content : Content]

VARIABLES
  clock,         \* f.clock
  entries,       \* s.entries of the path's shard
  hashToPath,    \* s.hashToPath, as <<hash, path>> pairs
  lru,           \* the paths on the LRU lists (lruNodes and lruList agree)
  newer,         \* the order of the lists: <<p, q>> when p is nearer the front
  bytes,         \* s.bytes
  currentBytes,  \* f.currentBytes
  now,           \* time
  pc,            \* where each goroutine is in AppendAtom
  job,           \* the path and atom it is appending
  scan,          \* locals of evictToTarget: shard index, maxB, victim
  sweeper,       \* sweepExpired: the shard it holds (0: none) and its "now"
  overtaken      \* history: a later append to the same path took effect
                 \* since this one was minted (read by no action)

store == <<entries, hashToPath, lru, newer, bytes, currentBytes>>
vars == <<clock, store, now, pc, job, scan, sweeper, overtaken>>

High == (MaxMemory * 90) \div 100
Target == (MaxMemory * 80) \div 100

(* The shard's lock is not held by the sweeper, which is the only critical *)
(* section modelled in more than one step.                                 *)
Free(s) == sweeper.at # s

Expired(a, t) == a.exp # 0 /\ a.exp < t

(* What GetCurrent answers at time t: the resident atom unless expired.    *)
Visible(p, t) ==
  IF entries[p] = Absent \/ Expired(entries[p], t) THEN Absent ELSE entries[p]

(* The resident a was issued after b, although b comes to the lock later.  *)
IssuedAnyTime(a, b) == FALSE

IssuedLater(a, b) == a.clock > b.clock

SameValue(a, b) == a.val \in Const /\ b.val \in Const /\ Ser[a.val] = Ser[b.val]

SameAtomContent(a, b) ==
  /\ a.exp = b.exp
  /\ a.val \in Const
  /\ b.val \in Const
  /\ Ser[a.val] = Ser[b.val]

-----------------------------------------------------------------------------
(* container/list: MoveToFront, PushFront and Remove.                      *)

Without(p) == {e \in newer : e[1] # p /\ e[2] # p}

ToFront(p) ==
  /\ lru' = lru \cup {p}
  /\ newer' = Without(p) \cup
              {<<p, q>> : q \in {r \in lru \ {p} : ShardOf[r] = ShardOf[p]}}

IsBack(p, s) ==
  /\ p \in lru
  /\ ShardOf[p] = s
  /\ \A q \in lru : <<p, q>> \notin newer

Empty(s) == \A p \in lru : ShardOf[p] # s

(* estimateAtomBytes of the entry a path has, if it has one.               *)
Weight(p) == IF entries[p] = Absent THEN 0 ELSE Cost[p][entries[p].val]

(* The bytes an append adds: its own less those of the atom it replaces.   *)
ChargeInFull(p, a) == Cost[p][a.val]

Charge(p, a) == Cost[p][a.val] - Weight(p)

DropLeavesHash(p) ==
  /\ entries' = [entries EXCEPT ![p] = Absent]
  /\ lru' = lru \ {p}
  /\ newer' = Without(p)
  /\ bytes' = [bytes EXCEPT ![ShardOf[p]] = @ - Weight(p)]
  /\ currentBytes' = currentBytes - Weight(p)
  /\ UNCHANGED hashToPath

(* Drop a path whose entry is resident from a shard and all its indexes.   *)
Drop(p) ==
  /\ entries' = [entries EXCEPT ![p] = Absent]
  /\ hashToPath' = {e \in hashToPath : e[1] # entries[p].clock}
  /\ lru' = lru \ {p}
  /\ newer' = Without(p)
  /\ bytes' = [bytes EXCEPT ![ShardOf[p]] = @ - Weight(p)]
  /\ currentBytes' = currentBytes - Weight(p)

-----------------------------------------------------------------------------
NoScan == [at |-> 0, maxB |-> -1, victim |-> 0]

NoJob == [path |-> Absent, atom |-> Absent]

Init ==
  /\ clock = 0
  /\ entries = [p \in Path |-> Absent]
  /\ hashToPath = {}
  /\ lru = {}
  /\ newer = {}
  /\ bytes = [s \in Shard |-> 0]
  /\ currentBytes = 0
  /\ now = 1
  /\ pc = [w \in Proc |-> "idle"]
  /\ job = [w \in Proc |-> NoJob]
  /\ scan = [w \in Proc |-> NoScan]
  /\ sweeper = [at |-> 0, t |-> 0]
  /\ overtaken = [w \in Proc |-> FALSE]

(* The call returns: its locals are gone.                                  *)
Return(w) ==
  /\ pc' = [pc EXCEPT ![w] = "idle"]
  /\ job' = [job EXCEPT ![w] = NoJob]
  /\ scan' = [scan EXCEPT ![w] = NoScan]
  /\ overtaken' = [overtaken EXCEPT ![w] = FALSE]

(* AppendAtom up to the lock: the clock is taken before the shard is.      *)
Mint(w, p, v, x) ==
  /\ pc[w] = "idle"
  /\ clock < MaxClock
  /\ clock' = clock + 1
  /\ job' = [job EXCEPT ![w] =
               [path |-> p, atom |-> [val |-> v, exp |-> x, clock |-> clock + 1]]]
  /\ pc' = [pc EXCEPT ![w] = "lock"]
  /\ UNCHANGED <<store, now, scan, sweeper, overtaken>>

(* Guard 1: the resident atom was issued later; keep it.                   *)
Discard(w) ==
  LET p == job[w].path IN
  /\ pc[w] = "lock"
  /\ Free(ShardOf[p])
  /\ entries[p] # Absent
  /\ IssuedLater(entries[p], job[w].atom)
  /\ Return(w)
  /\ UNCHANGED <<clock, store, now, sweeper>>

Overtake(w) ==
  overtaken' = [x \in Proc |->
                  IF x = w THEN FALSE
                  ELSE \/ overtaken[x]
                       \/ pc[x] = "lock" /\ job[x].path = job[w].path]

(* Guard 2: same value and deadline; the resident keeps its hash.          *)
Dedup(w) ==
  LET p == job[w].path IN
  /\ pc[w] = "lock"
  /\ Free(ShardOf[p])
  /\ entries[p] # Absent
  /\ ~IssuedLater(entries[p], job[w].atom)
  /\ SameAtomContent(entries[p], job[w].atom)
  /\ ToFront(p)
  /\ pc' = [pc EXCEPT ![w] = "idle"]
  /\ job' = [job EXCEPT ![w] = NoJob]
  /\ Overtake(w)
  /\ UNCHANGED <<clock, entries, hashToPath, bytes, currentBytes, now, scan,
                 sweeper>>

(* The write itself: replace the resident, if any, in every index.         *)
Install(w) ==
  LET p == job[w].path
      a == job[w].atom
      delta == Charge(p, a)
  IN
  /\ pc[w] = "lock"
  /\ Free(ShardOf[p])
  /\ entries[p] # Absent =>
       /\ ~IssuedLater(entries[p], a)
       /\ ~SameAtomContent(entries[p], a)
  /\ entries' = [entries EXCEPT ![p] = a]
  /\ hashToPath' = {e \in hashToPath : entries[p] = Absent \/ e[1] # entries[p].clock}
                     \cup {<<a.clock, p>>}
  /\ ToFront(p)
  /\ bytes' = [bytes EXCEPT ![ShardOf[p]] = @ + delta]
  /\ currentBytes' = currentBytes + delta
  /\ pc' = [pc EXCEPT ![w] = "check"]
  /\ job' = [job EXCEPT ![w] = NoJob]
  /\ Overtake(w)
  /\ UNCHANGED <<clock, now, scan, sweeper>>

(* After the unlock: compare the byte counter with 90% of the limit.       *)
CheckCeiling(w) ==
  /\ pc[w] = "check"
  /\ \/ /\ currentBytes >= High
        /\ pc' = [pc EXCEPT ![w] = "loop"]
        /\ UNCHANGED <<job, scan, overtaken>>
     \/ /\ currentBytes < High
        /\ Return(w)
  /\ UNCHANGED <<clock, store, now, sweeper>>

(* evictToTarget, loop condition.                                          *)
EvictLoop(w) ==
  /\ pc[w] = "loop"
  /\ \/ /\ currentBytes > Target
        /\ pc' = [pc EXCEPT ![w] = "scan"]
        /\ scan' = [scan EXCEPT ![w] = [at |-> 1, maxB |-> -1, victim |-> 0]]
        /\ UNCHANGED <<job, overtaken>>
     \/ /\ currentBytes <= Target
        /\ Return(w)
  /\ UNCHANGED <<clock, store, now, sweeper>>

(* evictToTarget: read one shard's bytes under its read lock.              *)
EvictScan(w) ==
  LET i == scan[w].at IN
  /\ pc[w] = "scan"
  /\ i <= ShardCount
  /\ Free(i)
  /\ scan' = [scan EXCEPT ![w] =
                IF bytes[i] > @.maxB
                  THEN [at |-> i + 1, maxB |-> bytes[i], victim |-> i]
                  ELSE [@ EXCEPT !.at = i + 1]]
  /\ UNCHANGED <<clock, store, now, pc, job, sweeper, overtaken>>

(* evictToTarget: lock the fullest shard seen and drop its LRU tail; give  *)
(* up when it has nothing on its list any more.                            *)
EvictVictim(w) ==
  /\ pc[w] = "scan"
  /\ scan[w].at > ShardCount
  /\ scan[w].maxB > 0 => Free(scan[w].victim)
  /\ \/ /\ scan[w].maxB <= 0 \/ Empty(scan[w].victim)
        /\ Return(w)
        /\ UNCHANGED store
     \/ /\ scan[w].maxB > 0
        /\ \E p \in Path : IsBack(p, scan[w].victim) /\ Drop(p)
        /\ pc' = [pc EXCEPT ![w] = "recheck"]
        /\ scan' = [scan EXCEPT ![w].at = 0]
        /\ UNCHANGED <<job, overtaken>>
  /\ UNCHANGED <<clock, now, sweeper>>

EvictRecheckVictimOnly(w) ==
  /\ pc[w] = "recheck"
  /\ \/ /\ ~Empty(scan[w].victim)
        /\ pc' = [pc EXCEPT ![w] = "loop"]
        /\ scan' = [scan EXCEPT ![w] = NoScan]
        /\ UNCHANGED <<job, overtaken>>
     \/ Empty(scan[w].victim) /\ Return(w)
  /\ UNCHANGED <<clock, store, now, sweeper>>

(* evictToTarget: the victim's list length is read without its lock, then  *)
(* the shards are visited one by one until one has a list that is not      *)
(* empty; the function returns when it has seen none.                      *)
EvictRecheck(w) ==
  LET i == scan[w].at IN
  /\ pc[w] = "recheck"
  /\ i # 0 => Free(i)
  /\ \/ /\ ~Empty(IF i = 0 THEN scan[w].victim ELSE i)
        /\ pc' = [pc EXCEPT ![w] = "loop"]
        /\ scan' = [scan EXCEPT ![w] = NoScan]
        /\ UNCHANGED <<job, overtaken>>
     \/ /\ Empty(IF i = 0 THEN scan[w].victim ELSE i)
        /\ i < ShardCount
        /\ scan' = [scan EXCEPT ![w].at = i + 1]
        /\ UNCHANGED <<pc, job, overtaken>>
     \/ /\ i = ShardCount
        /\ Empty(i)
        /\ Return(w)
  /\ UNCHANGED <<clock, store, now, sweeper>>

(* GetCurrent: a hit moves the path to the front of its list.              *)
GetCurrent(p) ==
  /\ Free(ShardOf[p])
  /\ Visible(p, now) # Absent
  /\ ToFront(p)
  /\ UNCHANGED <<clock, entries, hashToPath, bytes, currentBytes, now, pc, job,
                 scan, sweeper, overtaken>>

(* sweepExpired: on the ticker, read the time and lock the first shard.    *)
SweepStart ==
  /\ sweeper.at = 0
  /\ sweeper' = [at |-> 1, t |-> now]
  /\ UNCHANGED <<clock, store, now, pc, job, scan, overtaken>>

(* sweepExpired: drop one expired entry of the shard it holds.             *)
SweepEntry(p) ==
  /\ sweeper.at = ShardOf[p]
  /\ entries[p] # Absent
  /\ Expired(entries[p], sweeper.t)
  /\ Drop(p)
  /\ UNCHANGED <<clock, now, pc, job, scan, sweeper, overtaken>>

SweepPastLast ==
  /\ sweeper.at # 0
  /\ sweeper' = IF sweeper.at > ShardCount
                   THEN [at |-> 0, t |-> 0]
                   ELSE [sweeper EXCEPT !.at = @ + 1]
  /\ UNCHANGED <<clock, store, now, pc, job, scan, overtaken>>

(* sweepExpired: the shard has no expired entry left; unlock it and lock   *)
(* the next, or wait for the next tick.                                    *)
SweepNext ==
  /\ sweeper.at # 0
  /\ \A p \in Path : /\ ShardOf[p] = sweeper.at
                     /\ entries[p] # Absent
                     => ~Expired(entries[p], sweeper.t)
  /\ sweeper' = IF sweeper.at = ShardCount
                   THEN [at |-> 0, t |-> 0]
                   ELSE [sweeper EXCEPT !.at = @ + 1]
  /\ UNCHANGED <<clock, store, now, pc, job, scan, overtaken>>

Tick ==
  /\ now < MaxTime
  /\ now' = now + 1
  /\ UNCHANGED <<clock, store, pc, job, scan, sweeper, overtaken>>

AppendStep(w) ==
  \/ Discard(w)
  \/ Dedup(w)
  \/ Install(w)
  \/ CheckCeiling(w)
  \/ EvictLoop(w)
  \/ EvictScan(w)
  \/ EvictVictim(w)
  \/ EvictRecheck(w)

Next ==
  \/ \E w \in Proc, p \in Path, v \in Val, x \in Deadline : Mint(w, p, v, x)
  \/ \E w \in Proc : AppendStep(w)
  \/ \E p \in Path : GetCurrent(p)
  \/ SweepStart
  \/ \E p \in Path : SweepEntry(p)
  \/ SweepNext
  \/ Tick

Spec == Init /\ [][Next]_vars

-----------------------------------------------------------------------------
Resident == {p \in Path : entries[p] # Absent}

(* Every variable has its type.                                            *)
TypeOK ==
  /\ clock \in 0..MaxClock
  /\ entries \in [Path -> Atom \cup {Absent}]
  /\ hashToPath \subseteq (1..MaxClock) \X Path
  /\ lru \subseteq Path
  /\ newer \subseteq Path \X Path
  /\ bytes \in [Shard -> Int]
  /\ currentBytes \in Int
  /\ now \in 1..MaxTime
  /\ pc \in [Proc -> {"idle", "lock", "check", "loop", "scan", "recheck"}]
  /\ job \in [Proc -> [path : Path, atom : Atom] \cup {NoJob}]
  /\ \A w \in Proc : pc[w] = "lock" => job[w] # NoJob
  /\ scan \in [Proc -> [at : 0..ShardCount + 1, maxB : Int, victim : 0..ShardCount]]
  /\ sweeper \in [at : 0..ShardCount, t : 0..MaxTime]
  /\ overtaken \in [Proc -> BOOLEAN]

HashIndex ==
  /\ hashToPath = {<<entries[p].clock, p>> : p \in Resident}
  /\ \A p, q \in Resident : entries[p].clock = entries[q].clock => p = q

LruIndex ==
  /\ lru = Resident
  /\ \A p, q \in Path : <<p, q>> \in newer =>
       p \in lru /\ q \in lru /\ p # q /\ ShardOf[p] = ShardOf[q]
  /\ \A p, q \in lru : ShardOf[p] = ShardOf[q] /\ p # q
                         => (<<p, q>> \in newer <=> <<q, p>> \notin newer)

(* The four structures a shard keeps about its entries agree whenever no   *)
(* lock is held, whatever append, eviction, sweep and read interleave: the *)
(* hash index resolves exactly the resident hashes, each to its own path   *)
(* (GetAtom never finds a replaced or evicted atom), and each shard's LRU  *)
(* list holds exactly its resident paths, each once, in some order.        *)
IndexCoherent == HashIndex /\ LruIndex

(* The byte accounting that drives eviction is exact: each shard's counter *)
(* is the cost of its resident entries and the global counter is the cost  *)
(* of them all, so no replacement, eviction or sweep is counted twice.     *)
BytesExact ==
  /\ \A s \in Shard :
       bytes[s] = SumFunction([p \in {q \in Path : ShardOf[q] = s} |-> Weight(p)])
  /\ currentBytes = SumFunction([p \in Path |-> Weight(p)])

(* As long as no deadline has passed, the memory in use is below the       *)
(* ceiling that starts an eviction once every append has returned, however *)
(* the evictors raced with each other (the sweeper may empty the shard an  *)
(* evictor has picked, and evictToTarget then gives up).  Below six bytes  *)
(* of limit the target can equal the ceiling, and eviction stop there.     *)
CeilingHolds ==
  (\A w \in Proc : pc[w] = "idle") /\ (\A x \in Deadline : x = 0 \/ now <= x)
    => currentBytes < High

(* Guard 1 of AppendAtom: while a path stays resident it never goes back   *)
(* to an atom issued earlier than the one it shows.                        *)
ClockNeverGoesBack ==
  [][\A p \in Path : entries[p] # Absent /\ entries'[p] # Absent
       => entries'[p].clock >= entries[p].clock]_vars

-----------------------------------------------------------------------------
(* Refinement: a frontier is a LossyMap.  A path shows its resident        *)
(* content until it expires; a write is pending until its locked section.  *)
ContentOf(a) == [val |-> a.val, exp |-> a.exp]

shownValue ==
  [p \in Path |-> IF Visible(p, now) = Absent THEN Absent ELSE ContentOf(entries[p])]

pendingWrite ==
  [w \in Proc |-> IF pc[w] = "lock"
                    THEN [path |-> job[w].path, content |-> ContentOf(job[w].atom)]
                    ELSE Absent]

(* Guard 2 goes by the bytes of Serialize, and those do not determine the  *)
(* value: a VArray is its elements run together, a VRecord its keys and    *)
(* values, a VFloat six decimals, and none carries its type.               *)
Alike ==
  {cd \in Content \X Content :
     /\ cd[1].exp = cd[2].exp
     /\ {cd[1].val, cd[2].val} \subseteq Const
     /\ Ser[cd[1].val] = Ser[cd[2].val]}

Map == INSTANCE LossyMap WITH
         value <- shownValue,
         pending <- pendingWrite,
         over <- overtaken

(* AppendAtom is linearizable although it takes its clock before the lock, *)
(* drops late writes (Guard 1) and skips equal ones (Guard 2): each write  *)
(* takes effect once, between its call and its return, and is dropped only *)
(* when a write that overlapped it took effect after it began.  What Guard *)
(* 2 skips may still be another value: the path then goes on showing one   *)
(* with the same deadline and the same serialized bytes, and no other.     *)
RefinesLossyMap == Map!Spec
=============================================================================
