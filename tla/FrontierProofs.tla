--------------------------- MODULE FrontierProofs ---------------------------
(***************************************************************************)
(* Theorems about Frontier, for any number of paths, goroutines, shards    *)
(* and any memory limit.                                                   *)
(***************************************************************************)
EXTENDS Frontier, TLAPS

(* TypeOK in two halves: the store, and the goroutines.                    *)
StoreType ==
  /\ entries \in [Path -> Atom \cup {Absent}]
  /\ hashToPath \subseteq (1..MaxClock) \X Path
  /\ lru \subseteq Path
  /\ newer \subseteq Path \X Path
  /\ bytes \in [Shard -> Int]
  /\ currentBytes \in Int

ProcType ==
  /\ pc \in [Proc -> {"idle", "lock", "check", "loop", "scan", "recheck"}]
  /\ job \in [Proc -> [path : Path, atom : Atom] \cup {NoJob}]
  /\ \A w \in Proc : pc[w] = "lock" => job[w] # NoJob
  /\ scan \in [Proc -> [at : 0..ShardCount + 1, maxB : Int, victim : 0..ShardCount]]
  /\ overtaken \in [Proc -> BOOLEAN]
  /\ \A w \in Proc : pc[w] = "scan" => scan[w].at >= 1

ClockType ==
  /\ clock \in 0..MaxClock
  /\ now \in 1..MaxTime
  /\ sweeper \in [at : 0..ShardCount, t : 0..MaxTime]

Typed == StoreType /\ ProcType /\ ClockType

LEMMA TypedIsTypeOK == Typed => TypeOK
  BY DEF Typed, StoreType, ProcType, ClockType, TypeOK

LEMMA InitTyped == Init => Typed
  BY ShapeAssumption
  DEF Init, Typed, StoreType, ProcType, ClockType, Shard, NoScan

LEMMA WeightType ==
  ASSUME StoreType, NEW p \in Path
  PROVE  Weight(p) \in Nat
  <1>1. CASE entries[p] = Absent
    BY <1>1 DEF Weight
  <1>2. CASE entries[p] # Absent
    <2>1. entries[p] \in Atom
      BY <1>2 DEF StoreType
    <2>2. entries[p].val \in Val
      BY <2>1 DEF Atom
    <2> QED
      BY <1>2, <2>2, ShapeAssumption DEF Weight
  <1> QED
    BY <1>1, <1>2

LEMMA DropTyped ==
  ASSUME StoreType, NEW p \in Path, Drop(p)
  PROVE  StoreType'
  <1>1. entries' \in [Path -> Atom \cup {Absent}]
    BY DEF StoreType, Drop
  <1>2. hashToPath' \subseteq (1..MaxClock) \X Path
    BY DEF StoreType, Drop
  <1>3. lru' \subseteq Path /\ newer' \subseteq Path \X Path
    BY DEF StoreType, Drop, Without
  <1>4. bytes' \in [Shard -> Int] /\ currentBytes' \in Int
    <2>1. Weight(p) \in Int /\ ShardOf[p] \in Shard
      BY WeightType, ShapeAssumption
    <2>2. bytes' = [bytes EXCEPT ![ShardOf[p]] = bytes[ShardOf[p]] - Weight(p)]
      BY DEF Drop
    <2> QED
      BY <2>1, <2>2 DEF StoreType, Drop
  <1> QED
    BY <1>1, <1>2, <1>3, <1>4 DEF StoreType

LEMMA ToFrontTyped ==
  ASSUME StoreType, NEW p \in Path, ToFront(p)
  PROVE  lru' \subseteq Path /\ newer' \subseteq Path \X Path
  BY DEF StoreType, ToFront, Without

LEMMA ReturnTyped ==
  ASSUME ProcType, NEW w \in Proc, Return(w)
  PROVE  ProcType'
  BY ShapeAssumption DEF ProcType, Return, NoScan

(* A goroutine about to lock has a well-typed job.                         *)
LEMMA JobTyped ==
  ASSUME ProcType, NEW w \in Proc, pc[w] = "lock"
  PROVE  job[w].path \in Path /\ job[w].atom \in Atom
  BY DEF ProcType

ScanRec == [at : 0..ShardCount + 1, maxB : Int, victim : 0..ShardCount]

(* Moving the shard index of one goroutine's scan keeps the type.          *)
LEMMA ScanMoveTyped ==
  ASSUME ProcType, NEW w \in Proc, NEW i \in 0..ShardCount + 1,
         scan' = [scan EXCEPT ![w].at = i]
  PROVE  /\ scan' \in [Proc -> ScanRec]
         /\ scan'[w].at = i
         /\ \A v \in Proc \ {w} : scan'[v] = scan[v]
  <1>1. scan \in [Proc -> ScanRec]
    BY DEF ProcType, ScanRec
  <1>2. [scan[w] EXCEPT !.at = i] \in ScanRec
    BY <1>1 DEF ScanRec
  <1>3. scan' = [scan EXCEPT ![w] = [scan[w] EXCEPT !.at = i]]
    OBVIOUS
  <1>4. [scan[w] EXCEPT !.at = i].at = i
    BY <1>1 DEF ScanRec
  <1> QED
    BY <1>1, <1>2, <1>3, <1>4

LEMMA StepTyped == Typed /\ [Next]_vars => Typed'
  <1> SUFFICES ASSUME Typed, [Next]_vars
               PROVE  Typed'
    OBVIOUS
  <1>1. ASSUME NEW w \in Proc, NEW p \in Path, NEW v \in Val, NEW x \in Deadline,
               Mint(w, p, v, x)
        PROVE  Typed'
    <2>1. ClockType'
      BY <1>1, ShapeAssumption DEF Mint, Typed, ClockType
    <2>2. [val |-> v, exp |-> x, clock |-> clock + 1] \in Atom
      BY <1>1, ShapeAssumption DEF Mint, Typed, ClockType, Atom
    <2>3. [path |-> p, atom |-> [val |-> v, exp |-> x, clock |-> clock + 1]] # NoJob
      BY <2>2, ShapeAssumption DEF NoJob
    <2>4. ProcType'
      BY <1>1, <2>2, <2>3 DEF Mint, Typed, ProcType
    <2>5. StoreType'
      BY <1>1 DEF Mint, Typed, StoreType, store
    <2> QED
      BY <2>1, <2>4, <2>5 DEF Typed
  <1>2. ASSUME NEW w \in Proc, Discard(w)
        PROVE  Typed'
    BY <1>2, ReturnTyped, Zenon DEF Discard, Typed, StoreType, ClockType, store
  <1>3. ASSUME NEW w \in Proc, Dedup(w)
        PROVE  Typed'
    <2>1. StoreType'
      BY <1>3, JobTyped, ToFrontTyped DEF Dedup, Typed, StoreType
    <2>2. ProcType'
      BY <1>3 DEF Dedup, Typed, ProcType, Overtake
    <2> QED
      BY <1>3, <2>1, <2>2 DEF Dedup, Typed, ClockType
  <1>4. ASSUME NEW w \in Proc, Install(w)
        PROVE  Typed'
    <2>1. job[w].path \in Path /\ job[w].atom \in Atom
      BY <1>4, JobTyped DEF Install, Typed
    <2>2. Cost[job[w].path][job[w].atom.val] \in Int
      BY <2>1, ShapeAssumption DEF Atom
    <2>3. job[w].atom.clock \in 1..MaxClock
      BY <2>1, Zenon DEF Atom
    <2>4. lru' \subseteq Path /\ newer' \subseteq Path \X Path
      BY <1>4, <2>1, ToFrontTyped DEF Install, Typed
    <2>5. hashToPath' \subseteq (1..MaxClock) \X Path
      <3>1. hashToPath' \subseteq hashToPath \cup {<<job[w].atom.clock, job[w].path>>}
        BY <1>4 DEF Install
      <3> QED
        BY <2>1, <2>3, <3>1 DEF Typed, StoreType
    <2>6. bytes' \in [Shard -> Int] /\ currentBytes' \in Int
      <3> DEFINE p == job[w].path
                 delta == Cost[p][job[w].atom.val] - Weight(p)
      <3>1. delta \in Int /\ ShardOf[p] \in Shard
        BY <2>1, <2>2, WeightType, ShapeAssumption, SMTT(20) DEF Typed
      <3>2. bytes' = [bytes EXCEPT ![ShardOf[p]] = bytes[ShardOf[p]] + delta]
        BY <1>4, Zenon DEF Install, Charge
      <3>3. currentBytes' = currentBytes + delta
        BY <1>4, Zenon DEF Install, Charge
      <3> HIDE DEF delta
      <3> QED
        BY <3>1, <3>2, <3>3 DEF Typed, StoreType
    <2>7. StoreType'
      BY <1>4, <2>1, <2>4, <2>5, <2>6, Zenon DEF Install, Typed, StoreType
    <2>8. ProcType'
      BY <1>4 DEF Install, Typed, ProcType, Overtake
    <2> QED
      BY <1>4, <2>7, <2>8, Zenon DEF Install, Typed, ClockType
  <1>5. ASSUME NEW w \in Proc, CheckCeiling(w)
        PROVE  Typed'
    <2>1. ProcType'
      BY <1>5, ReturnTyped DEF CheckCeiling, Typed, ProcType
    <2> QED
      BY <1>5, <2>1 DEF CheckCeiling, Typed, StoreType, ClockType, store
  <1>6. ASSUME NEW w \in Proc, EvictLoop(w)
        PROVE  Typed'
    <2>1. ProcType'
      <3>1. CASE Return(w)
        BY <3>1, ReturnTyped DEF Typed
      <3>2. CASE ~Return(w)
        <4>1. [at |-> 1, maxB |-> -1, victim |-> 0]
                \in [at : 0..ShardCount + 1, maxB : Int, victim : 0..ShardCount]
          BY ShapeAssumption
        <4>2. /\ pc' = [pc EXCEPT ![w] = "scan"]
              /\ scan' = [scan EXCEPT ![w] = [at |-> 1, maxB |-> -1, victim |-> 0]]
              /\ job' = job
              /\ overtaken' = overtaken
          BY <1>6, <3>2 DEF EvictLoop
        <4> QED
          BY <4>1, <4>2 DEF Typed, ProcType
      <3> QED
        BY <3>1, <3>2
    <2> QED
      BY <1>6, <2>1 DEF EvictLoop, Typed, StoreType, ClockType, store
  <1>7. ASSUME NEW w \in Proc, EvictScan(w)
        PROVE  Typed'
    <2>1. scan[w].at \in Shard
      BY <1>7, ShapeAssumption DEF EvictScan, Typed, ProcType, Shard
    <2>2. bytes[scan[w].at] \in Int
      BY <2>1 DEF Typed, StoreType
    <2>3. ProcType'
      BY <1>7, <2>1, <2>2, ShapeAssumption DEF EvictScan, Typed, ProcType, Shard
    <2> QED
      BY <1>7, <2>3 DEF EvictScan, Typed, StoreType, ClockType, store
  <1>8. ASSUME NEW w \in Proc, EvictVictim(w)
        PROVE  Typed'
    <2>1. StoreType'
      BY <1>8, DropTyped DEF EvictVictim, Typed, StoreType, store
    <2>2. ProcType'
      <3>1. CASE Return(w)
        BY <3>1, ReturnTyped DEF Typed
      <3>2. CASE ~Return(w)
        <4>1. /\ pc' = [pc EXCEPT ![w] = "recheck"]
              /\ scan' = [scan EXCEPT ![w].at = 0]
              /\ job' = job
              /\ overtaken' = overtaken
          BY <1>8, <3>2 DEF EvictVictim
        <4> QED
          BY <4>1, ScanMoveTyped, ShapeAssumption DEF Typed, ProcType, ScanRec
      <3> QED
        BY <3>1, <3>2
    <2> QED
      BY <1>8, <2>1, <2>2 DEF EvictVictim, Typed, ClockType
  <1>9. ASSUME NEW w \in Proc, EvictRecheck(w)
        PROVE  Typed'
    <2>1. ProcType'
      <3>1. CASE Return(w)
        BY <3>1, ReturnTyped DEF Typed
      <3>2. CASE /\ pc' = [pc EXCEPT ![w] = "loop"]
                 /\ scan' = [scan EXCEPT ![w] = NoScan]
                 /\ UNCHANGED <<job, overtaken>>
        <4>1. NoScan \in ScanRec
          BY ShapeAssumption DEF NoScan, ScanRec
        <4> QED
          BY <3>2, <4>1 DEF Typed, ProcType, ScanRec
      <3>3. CASE /\ scan[w].at < ShardCount
                 /\ scan' = [scan EXCEPT ![w].at = scan[w].at + 1]
                 /\ UNCHANGED <<pc, job, overtaken>>
        <4>1. scan[w].at \in 0..ShardCount + 1 /\ pc[w] = "recheck"
          BY <1>9 DEF EvictRecheck, Typed, ProcType
        <4>2. scan[w].at + 1 \in 0..ShardCount + 1
          BY <3>3, <4>1, ShapeAssumption
        <4> QED
          BY <3>3, <4>1, <4>2, ScanMoveTyped, Zenon DEF Typed, ProcType, ScanRec
      <3> QED
        BY <1>9, <3>1, <3>2, <3>3 DEF EvictRecheck
    <2> QED
      BY <1>9, <2>1 DEF EvictRecheck, Typed, StoreType, ClockType, store
  <1>10. ASSUME NEW p \in Path, GetCurrent(p)
         PROVE  Typed'
    BY <1>10, ToFrontTyped, Zenon DEF GetCurrent, Typed, StoreType, ProcType, ClockType
  <1>11. ASSUME SweepStart
         PROVE  Typed'
    BY <1>11, ShapeAssumption
    DEF SweepStart, Typed, StoreType, ProcType, ClockType, store
  <1>12. ASSUME NEW p \in Path, SweepEntry(p)
         PROVE  Typed'
    BY <1>12, DropTyped DEF SweepEntry, Typed, ProcType, ClockType
  <1>13. ASSUME SweepNext
         PROVE  Typed'
    <2>1. sweeper' \in [at : 0..ShardCount, t : 0..MaxTime]
      <3>1. CASE sweeper.at = ShardCount
        BY <1>13, <3>1, ShapeAssumption DEF SweepNext
      <3>2. CASE sweeper.at # ShardCount
        <4>0. sweeper.at \in 0..ShardCount
          BY DEF Typed, ClockType
        <4>1. sweeper.at + 1 \in 0..ShardCount
          BY <3>2, <4>0, ShapeAssumption
        <4>2. sweeper' = [sweeper EXCEPT !.at = sweeper.at + 1]
          BY <1>13, <3>2 DEF SweepNext
        <4> QED
          BY <4>1, <4>2 DEF Typed, ClockType
      <3> QED
        BY <3>1, <3>2
    <2> QED
      BY <1>13, <2>1 DEF SweepNext, Typed, StoreType, ProcType, ClockType, store
  <1>14. ASSUME Tick
         PROVE  Typed'
    BY <1>14, ShapeAssumption DEF Tick, Typed, StoreType, ProcType, ClockType, store
  <1>15. ASSUME UNCHANGED vars
         PROVE  Typed'
    BY <1>15, Zenon DEF vars, store, Typed, StoreType, ProcType, ClockType
  <1> QED
    BY <1>1, <1>2, <1>3, <1>4, <1>5, <1>6, <1>7, <1>8, <1>9, <1>10, <1>11,
       <1>12, <1>13, <1>14, <1>15 DEF Next, AppendStep

-----------------------------------------------------------------------------
(* The indexes of a shard.  That a clock is never used twice is what makes *)
(* deleting a hash from hashToPath delete nothing else.                    *)
ClocksUnique ==
  /\ \A p \in Resident : entries[p].clock <= clock
  /\ \A w \in Proc : pc[w] = "lock" =>
       /\ job[w].atom.clock <= clock
       /\ \A p \in Resident : entries[p].clock # job[w].atom.clock
       /\ \A v \in Proc : pc[v] = "lock" /\ v # w
                            => job[v].atom.clock # job[w].atom.clock

IInv == Typed /\ ClocksUnique /\ IndexCoherent

LEMMA InitIInv == Init => IInv
  BY InitTyped
  DEF Init, IInv, ClocksUnique, IndexCoherent, HashIndex, LruIndex, Resident

(* The clocks stay unique when nothing is added to the residents or to the *)
(* pending appends.                                                        *)
LEMMA ClocksKept ==
  ASSUME ClocksUnique, clock' = clock,
         \A q \in Resident' : q \in Resident /\ entries'[q] = entries[q],
         \A v \in Proc : pc'[v] = "lock" => pc[v] = "lock" /\ job'[v] = job[v]
  PROVE  ClocksUnique'
  BY DEF ClocksUnique

(* Dropping an entry removes its path, and nothing else, from each index.  *)
LEMMA DropCoherent ==
  ASSUME StoreType, IndexCoherent, NEW p \in Path, entries[p] # Absent, Drop(p)
  PROVE  IndexCoherent' /\ Resident' = Resident \ {p}
                        /\ \A q \in Resident' : entries'[q] = entries[q]
  <1>1. Resident' = Resident \ {p}
    BY DEF StoreType, Drop, Resident
  <1>2. \A q \in Resident' : entries'[q] = entries[q] /\ q # p
    BY <1>1 DEF StoreType, Drop, Resident
  <1>3. HashIndex'
    <2>1. hashToPath' = {e \in hashToPath : e[1] # entries[p].clock}
      BY DEF Drop
    <2>2. p \in Resident
      BY DEF Resident
    <2>3. hashToPath' = {<<entries[q].clock, q>> : q \in Resident \ {p}}
      BY <2>1, <2>2 DEF IndexCoherent, HashIndex
    <2>4. hashToPath' = {<<entries'[q].clock, q>> : q \in Resident'}
      BY <1>1, <1>2, <2>3
    <2> QED
      BY <1>1, <1>2, <2>4 DEF IndexCoherent, HashIndex
  <1>4. LruIndex'
    BY <1>1 DEF IndexCoherent, LruIndex, Drop, Without
  <1> QED
    BY <1>1, <1>2, <1>3, <1>4 DEF IndexCoherent

(* Moving a path to the front of its list keeps the list a list.           *)
LEMMA ToFrontCoherent ==
  ASSUME StoreType, LruIndex, NEW p \in Path, ToFront(p), Resident' = Resident \cup {p}
  PROVE  LruIndex'
  <1>1. lru' = Resident'
    BY DEF LruIndex, ToFront
  <1>2. \A q, r \in Path : <<q, r>> \in newer' <=>
          \/ <<q, r>> \in newer /\ q # p /\ r # p
          \/ q = p /\ r \in lru /\ r # p /\ ShardOf[r] = ShardOf[p]
    BY DEF ToFront, Without
  <1>3. lru' = lru \cup {p} /\ lru \subseteq Path
    BY DEF ToFront, StoreType
  <1> QED
    BY <1>1, <1>2, <1>3 DEF LruIndex

(* A step that leaves the store alone and lets nobody into "lock".         *)
LEMMA QuietStep ==
  ASSUME IInv, UNCHANGED <<store, clock>>,
         \A w \in Proc : pc'[w] = "lock" => pc[w] = "lock" /\ job'[w] = job[w]
  PROVE  IndexCoherent' /\ ClocksUnique'
  <1>1. Resident' = Resident
    BY Zenon DEF Resident, store
  <1>2. HashIndex' /\ LruIndex'
    BY <1>1 DEF IInv, IndexCoherent, HashIndex, LruIndex, store
  <1>3. ClocksUnique'
    BY <1>1 DEF IInv, ClocksUnique, store
  <1> QED
    BY <1>2, <1>3 DEF IndexCoherent

LEMMA ReturnQuiet ==
  ASSUME ProcType, NEW w \in Proc, Return(w)
  PROVE  \A v \in Proc : pc'[v] = "lock" => pc[v] = "lock" /\ job'[v] = job[v]
  BY Zenon DEF ProcType, Return

LEMMA StepIInv == IInv /\ [Next]_vars => IInv'
  <1> SUFFICES ASSUME IInv, [Next]_vars
               PROVE  IndexCoherent' /\ ClocksUnique'
    BY StepTyped DEF IInv
  <1> USE DEF IInv, Typed
  <1>1. ASSUME NEW w \in Proc, NEW p \in Path, NEW v \in Val, NEW x \in Deadline,
               Mint(w, p, v, x)
        PROVE  IndexCoherent' /\ ClocksUnique'
    <2>1. Resident' = Resident /\ entries' = entries
      BY <1>1 DEF Mint, Resident, store
    <2>2. IndexCoherent'
      <3>1. UNCHANGED <<hashToPath, lru, newer>>
        BY <1>1 DEF Mint, store
      <3>2. HashIndex'
        BY <2>1, <3>1 DEF IndexCoherent, HashIndex
      <3>3. LruIndex'
        BY <2>1, <3>1, Zenon DEF IndexCoherent, LruIndex
      <3> QED
        BY <3>2, <3>3 DEF IndexCoherent
    <2>3. job'[w].atom.clock = clock + 1 /\ clock' = clock + 1 /\ clock \in Nat
      BY <1>1, ShapeAssumption DEF Mint, ProcType, ClockType
    <2>4. \A u \in Proc \ {w} : pc'[u] = pc[u] /\ job'[u] = job[u]
      BY <1>1, Zenon DEF Mint, ProcType
    <2>5. \A q \in Resident : entries[q].clock \in Int
      BY ShapeAssumption DEF Resident, StoreType, Atom
    <2>6. \A u \in Proc : pc[u] = "lock" => job[u].atom.clock \in Int
      BY JobTyped, ShapeAssumption DEF Atom
    <2>7. \A q \in Resident : entries[q].clock < clock + 1
      BY <2>3, <2>5 DEF ClocksUnique
    <2>8. \A u \in Proc : pc[u] = "lock" => job[u].atom.clock < clock + 1
      BY <2>3, <2>6 DEF ClocksUnique
    <2>9. ClocksUnique'
      BY <2>1, <2>3, <2>4, <2>5, <2>6, <2>7, <2>8, SMTT(20) DEF ClocksUnique
    <2> QED
      BY <2>2, <2>9
  <1>2. ASSUME NEW w \in Proc, Discard(w)
        PROVE  IndexCoherent' /\ ClocksUnique'
    BY <1>2, ReturnQuiet, QuietStep DEF Discard
  <1>3. ASSUME NEW w \in Proc, Dedup(w)
        PROVE  IndexCoherent' /\ ClocksUnique'
    <2>1. job[w].path \in Path
      BY <1>3, JobTyped, Zenon DEF Dedup
    <2>2. Resident' = Resident /\ Resident = Resident \cup {job[w].path}
      BY <1>3, <2>1, Zenon DEF Dedup, Resident
    <2>3. LruIndex'
      BY <1>3, <2>1, <2>2, ToFrontCoherent, Zenon DEF Dedup, IndexCoherent
    <2>4. HashIndex'
      BY <1>3, <2>2, Zenon DEF Dedup, IndexCoherent, HashIndex
    <2>5. \A u \in Proc : pc'[u] = "lock" => pc[u] = "lock" /\ job'[u] = job[u]
      BY <1>3, Zenon DEF Dedup, ProcType
    <2>6. ClocksUnique'
      <3>1. clock' = clock /\ entries' = entries
        BY <1>3, SMTT(20) DEF Dedup
      <3> QED
        BY <2>2, <2>5, <3>1, ClocksKept, Zenon
    <2> QED
      BY <2>3, <2>4, <2>6, Zenon DEF IndexCoherent
  <1>4. ASSUME NEW w \in Proc, Install(w)
        PROVE  IndexCoherent' /\ ClocksUnique'
    <2> DEFINE p == job[w].path
               a == job[w].atom
    <2>1. p \in Path /\ a \in Atom /\ pc[w] = "lock"
      <3>1. pc[w] = "lock"
        BY <1>4, Zenon DEF Install
      <3> QED
        BY <3>1, JobTyped, Zenon
    <2>2. entries' = [entries EXCEPT ![p] = a]
      BY <1>4, Zenon DEF Install
    <2>3. Resident' = Resident \cup {p}
      BY <2>1, <2>2, ShapeAssumption, Zenon DEF Resident, StoreType
    <2>4. /\ entries'[p] = a
          /\ \A q \in Resident' \ {p} : q \in Resident /\ entries'[q] = entries[q]
      BY <2>1, <2>2, <2>3 DEF Resident, StoreType
    <2>5. \A q \in Resident : entries[q].clock # a.clock
      BY <2>1, Zenon DEF ClocksUnique
    <2>6. LruIndex'
      BY <1>4, <2>1, <2>3, ToFrontCoherent, Zenon DEF Install, IndexCoherent
    <2>7. HashIndex'
      <3>1. hashToPath' = {e \in hashToPath : entries[p] = Absent \/ e[1] # entries[p].clock}
                            \cup {<<a.clock, p>>}
        BY <1>4, Zenon DEF Install
      <3>2. {e \in hashToPath : entries[p] = Absent \/ e[1] # entries[p].clock}
              = {<<entries[q].clock, q>> : q \in Resident \ {p}}
        <4>1. CASE entries[p] = Absent
          BY <4>1, <2>1 DEF IndexCoherent, HashIndex, Resident
        <4>2. CASE entries[p] # Absent
          <5>1. p \in Resident
            BY <4>2, <2>1, Zenon DEF Resident
          <5> QED
            BY <4>2, <5>1 DEF IndexCoherent, HashIndex
        <4> QED
          BY <4>1, <4>2, Zenon
      <3>3. hashToPath' = {<<entries'[q].clock, q>> : q \in Resident'}
        <4>1. Resident' = (Resident \ {p}) \cup {p}
          BY <2>3
        <4>2. \A q \in Resident \ {p} : entries'[q] = entries[q]
          BY <2>3, <2>4
        <4>3. {<<entries'[q].clock, q>> : q \in Resident \ {p}}
                = {<<entries[q].clock, q>> : q \in Resident \ {p}}
          BY <4>2, Zenon
        <4>4. hashToPath' = {<<entries'[q].clock, q>> : q \in Resident \ {p}}
                              \cup {<<entries'[p].clock, p>>}
          BY <2>4, <3>1, <3>2, <4>3, Zenon
        <4>5. {<<entries'[q].clock, q>> : q \in (Resident \ {p}) \cup {p}}
                = {<<entries'[q].clock, q>> : q \in Resident \ {p}} \cup {<<entries'[p].clock, p>>}
          BY Zenon
        <4> QED
          BY <4>1, <4>4, <4>5
      <3> QED
        BY <2>3, <2>4, <2>5, <3>3, SMTT(20) DEF IndexCoherent, HashIndex
    <2>8. \A u \in Proc : pc'[u] = "lock" => pc[u] = "lock" /\ job'[u] = job[u] /\ u # w
      BY <1>4, Zenon DEF Install, ProcType
    <2>9. ClocksUnique'
      <3>1. clock' = clock
        BY <1>4, Zenon DEF Install
      <3>2. \A q \in Resident' : entries'[q].clock <= clock
        BY <2>1, <2>3, <2>4, Zenon DEF ClocksUnique
      <3>3. ASSUME NEW u \in Proc, pc'[u] = "lock"
            PROVE  \A q \in Resident' : entries'[q].clock # job'[u].atom.clock
        <4>1. pc[u] = "lock" /\ job'[u] = job[u] /\ u # w
          BY <2>8, <3>3
        <4>2. entries'[p].clock # job[u].atom.clock
          BY <2>1, <2>4, <4>1 DEF ClocksUnique
        <4>3. \A q \in Resident : entries[q].clock # job[u].atom.clock
          BY <4>1 DEF ClocksUnique
        <4> QED
          BY <2>4, <4>1, <4>2, <4>3
      <3>4. ASSUME NEW u \in Proc, pc'[u] = "lock", NEW v \in Proc, pc'[v] = "lock", v # u
            PROVE  job'[v].atom.clock # job'[u].atom.clock
        BY <2>8, <3>4 DEF ClocksUnique
      <3>5. \A u \in Proc : pc'[u] = "lock" => job'[u].atom.clock <= clock
        BY <2>8, Zenon DEF ClocksUnique
      <3> QED
        BY <3>1, <3>2, <3>3, <3>4, <3>5, Zenon DEF ClocksUnique
    <2> QED
      BY <2>6, <2>7, <2>9 DEF IndexCoherent
  <1>5. ASSUME NEW w \in Proc, CheckCeiling(w)
        PROVE  IndexCoherent' /\ ClocksUnique'
    <2>1. \A v \in Proc : pc'[v] = "lock" => pc[v] = "lock" /\ job'[v] = job[v]
      BY <1>5, ReturnQuiet, Zenon DEF CheckCeiling, ProcType
    <2> QED
      BY <1>5, <2>1, QuietStep, Zenon DEF CheckCeiling
  <1>6. ASSUME NEW w \in Proc, EvictLoop(w)
        PROVE  IndexCoherent' /\ ClocksUnique'
    <2>1. \A v \in Proc : pc'[v] = "lock" => pc[v] = "lock" /\ job'[v] = job[v]
      BY <1>6, ReturnQuiet DEF EvictLoop, ProcType
    <2> QED
      BY <1>6, <2>1, QuietStep, Zenon DEF EvictLoop
  <1>7. ASSUME NEW w \in Proc, EvictScan(w)
        PROVE  IndexCoherent' /\ ClocksUnique'
    BY <1>7, QuietStep DEF EvictScan
  <1>8. ASSUME NEW w \in Proc, EvictVictim(w)
        PROVE  IndexCoherent' /\ ClocksUnique'
    <2>1. CASE Return(w) /\ UNCHANGED store
      BY <1>8, <2>1, ReturnQuiet, QuietStep, Zenon DEF EvictVictim
    <2>2. ASSUME NEW p \in Path, IsBack(p, scan[w].victim), Drop(p),
                 pc' = [pc EXCEPT ![w] = "recheck"], job' = job
          PROVE  IndexCoherent' /\ ClocksUnique'
      <3>1. entries[p] # Absent
        BY <2>2 DEF IsBack, IndexCoherent, LruIndex, Resident
      <3>2. \A v \in Proc : pc'[v] = "lock" => pc[v] = "lock" /\ job'[v] = job[v]
        BY <2>2 DEF ProcType
      <3>3. clock' = clock
        BY <1>8 DEF EvictVictim
      <3> QED
        BY <2>2, <3>1, <3>2, <3>3, DropCoherent, ClocksKept, Zenon
    <2> QED
      BY <1>8, <2>1, <2>2 DEF EvictVictim
  <1>9. ASSUME NEW w \in Proc, EvictRecheck(w)
        PROVE  IndexCoherent' /\ ClocksUnique'
    <2>1. \A v \in Proc : pc'[v] = "lock" => pc[v] = "lock" /\ job'[v] = job[v]
      BY <1>9, ReturnQuiet, Zenon DEF EvictRecheck, ProcType
    <2> QED
      BY <1>9, <2>1, QuietStep DEF EvictRecheck
  <1>10. ASSUME NEW p \in Path, GetCurrent(p)
         PROVE  IndexCoherent' /\ ClocksUnique'
    <2>1. Resident' = Resident /\ Resident = Resident \cup {p}
      BY <1>10 DEF GetCurrent, Visible, Resident
    <2>2. LruIndex'
      BY <1>10, <2>1, ToFrontCoherent, Zenon DEF GetCurrent, IndexCoherent
    <2> QED
      BY <1>10, <2>1, <2>2, Zenon DEF GetCurrent, IndexCoherent, HashIndex, ClocksUnique
  <1>11. ASSUME SweepStart
         PROVE  IndexCoherent' /\ ClocksUnique'
    BY <1>11, QuietStep, Zenon DEF SweepStart
  <1>12. ASSUME NEW p \in Path, SweepEntry(p)
         PROVE  IndexCoherent' /\ ClocksUnique'
    <2>1. entries[p] # Absent /\ Drop(p) /\ UNCHANGED <<clock, pc, job>>
      BY <1>12 DEF SweepEntry
    <2> QED
      BY <2>1, DropCoherent, ClocksKept, Zenon
  <1>13. ASSUME SweepNext
         PROVE  IndexCoherent' /\ ClocksUnique'
    BY <1>13, QuietStep DEF SweepNext
  <1>14. ASSUME Tick
         PROVE  IndexCoherent' /\ ClocksUnique'
    BY <1>14, QuietStep DEF Tick
  <1>15. ASSUME UNCHANGED vars
         PROVE  IndexCoherent' /\ ClocksUnique'
    BY <1>15, QuietStep DEF vars
  <1> QED
    BY <1>1, <1>2, <1>3, <1>4, <1>5, <1>6, <1>7, <1>8, <1>9, <1>10, <1>11,
       <1>12, <1>13, <1>14, <1>15 DEF Next, AppendStep

-----------------------------------------------------------------------------
(* Sums over finite sets.                                                  *)

INSTANCE FiniteSetTheorems

(* Induction over the naturals, for a set.                                 *)
LEMMA NatSetInduction ==
  ASSUME NEW T, 0 \in T, \A n \in Nat : n \in T => n + 1 \in T
  PROVE  \A n \in Nat : n \in T
  <1> DEFINE B == Nat \ T
  <1> SUFFICES ASSUME B # {} PROVE FALSE
    OBVIOUS
  <1>1. PICK m \in B : \A k \in B : ~(<<k, m>> \in OpToRel(<, Nat))
    BY WFMin, NatLessThanWellFounded, Zenon
  <1>2. m \in Nat /\ m # 0
    OBVIOUS
  <1>3. m - 1 \in Nat /\ m - 1 < m /\ (m - 1) + 1 = m
    BY <1>2
  <1>4. <<m - 1, m>> \in OpToRel(<, Nat)
    BY <1>2, <1>3 DEF OpToRel
  <1>5. m - 1 \in T
    BY <1>1, <1>3, <1>4, Zenon
  <1> QED
    BY <1>1, <1>3, <1>5, Zenon

(* SumFunction(w) is the value at DOMAIN w of a recursive function over    *)
(* the subsets of DOMAIN w.                                                *)
Pick(s) == CHOOSE x \in s : TRUE
SumStep(w, f, s) == IF s = {} THEN 0 ELSE w[Pick(s)] + f[s \ {Pick(s)}]
IsSum(w, f) == f = [s \in SUBSET DOMAIN w |-> SumStep(w, f, s)]
SumOf(w) == CHOOSE f : IsSum(w, f)

LEMMA SumUnfold == ASSUME NEW w PROVE SumFunction(w) = SumOf(w)[DOMAIN w]
  BY DEF SumFunction, SumFunctionOnSet, FoldFunctionOnSet, MapThenFoldSet, Pick, SumStep, IsSum, SumOf

(* A set less one of its elements is one smaller.                          *)
LEMMA SmallerRest ==
  ASSUME NEW D, IsFiniteSet(D), NEW s \in SUBSET D, NEW x \in s, NEW n \in Nat,
         Cardinality(s) <= n + 1
  PROVE  s \ {x} \in SUBSET D /\ Cardinality(s \ {x}) <= n
  <1>1. IsFiniteSet(s)
    BY FS_Subset
  <1>2. Cardinality(s \ {x}) = Cardinality(s) - 1 /\ Cardinality(s) \in Nat
    BY <1>1, FS_RemoveElement, FS_CardinalityType
  <1> QED
    BY <1>2

LEMMA PickIn == ASSUME NEW s, s # {} PROVE Pick(s) \in s
  BY DEF Pick

(* The recursion has a solution: build it for sets of growing size.        *)
LEMMA SumExists ==
  ASSUME NEW D, IsFiniteSet(D), NEW w \in [D -> Int]
  PROVE  \E f \in [SUBSET D -> Int] : IsSum(w, f)
  <1> DEFINE T == {n \in Nat : \E f \in [SUBSET D -> Int] : \A s \in SUBSET D :
                     Cardinality(s) <= n => f[s] = SumStep(w, f, s)}
  <1>0. ASSUME NEW s \in SUBSET D, Cardinality(s) <= 0 PROVE s = {}
    BY <1>0, FS_EmptySet, FS_Subset, FS_CardinalityType
  <1>1. 0 \in T
    <2> DEFINE f == [s \in SUBSET D |-> 0]
    <2>1. \A s \in SUBSET D : Cardinality(s) <= 0 => f[s] = SumStep(w, f, s)
      BY <1>0 DEF SumStep
    <2>2. f \in [SUBSET D -> Int]
      OBVIOUS
    <2> QED
      BY <2>1, <2>2, Zenon
  <1>2. ASSUME NEW n \in Nat, n \in T PROVE n + 1 \in T
    <2>1. PICK f \in [SUBSET D -> Int] : \A s \in SUBSET D :
                     Cardinality(s) <= n => f[s] = SumStep(w, f, s)
      BY <1>2, Zenon
    <2> DEFINE g == [s \in SUBSET D |-> SumStep(w, f, s)]
    <2>2. g \in [SUBSET D -> Int]
      <3> SUFFICES ASSUME NEW s \in SUBSET D PROVE SumStep(w, f, s) \in Int
        OBVIOUS
      <3>1. s # {} => Pick(s) \in s
        BY PickIn
      <3> QED
        BY <3>1 DEF SumStep
    <2>3. ASSUME NEW s \in SUBSET D, Cardinality(s) <= n + 1
          PROVE  g[s] = SumStep(w, g, s)
      <3>1. CASE s = {}
        BY <3>1 DEF SumStep
      <3>2. CASE s # {}
        <4>1. Pick(s) \in s
          BY <3>2, PickIn
        <4>2. s \ {Pick(s)} \in SUBSET D /\ Cardinality(s \ {Pick(s)}) <= n
          BY <2>3, <4>1, SmallerRest, Zenon
        <4>3. g[s \ {Pick(s)}] = f[s \ {Pick(s)}]
          BY <2>1, <4>2
        <4> QED
          BY <3>2, <4>3 DEF SumStep
      <3> QED
        BY <3>1, <3>2
    <2> HIDE DEF g
    <2> QED
      BY <2>2, <2>3
  <1>3. Cardinality(D) \in T
    <2> HIDE DEF T
    <2> QED
      BY <1>1, <1>2, NatSetInduction, FS_CardinalityType, Zenon
  <1>4. PICK f \in [SUBSET D -> Int] : \A s \in SUBSET D :
                     Cardinality(s) <= Cardinality(D) => f[s] = SumStep(w, f, s)
    BY <1>3, Zenon
  <1>5. \A s \in SUBSET D : Cardinality(s) <= Cardinality(D)
    BY FS_Subset
  <1>6. \A s \in SUBSET D : f[s] = SumStep(w, f, s)
    BY <1>4, <1>5
  <1>7. f = [s \in SUBSET D |-> SumStep(w, f, s)]
    BY <1>4, <1>6
  <1> QED
    BY <1>4, <1>7, Zenon DEF IsSum

Totals(D, w, f) ==
  /\ f \in [SUBSET D -> Int]
  /\ \A s \in SUBSET D : f[s] = SumStep(w, f, s)

(* Every solution is a function into the integers.                         *)
LEMMA SumType ==
  ASSUME NEW D, IsFiniteSet(D), NEW w \in [D -> Int], NEW f, IsSum(w, f)
  PROVE  Totals(D, w, f)
  <1>0. \A s \in SUBSET D : f[s] = SumStep(w, f, s)
    BY DEF IsSum
  <1> DEFINE T == {n \in Nat : \A s \in SUBSET D : Cardinality(s) <= n => f[s] \in Int}
  <1>1. 0 \in T
    <2> SUFFICES ASSUME NEW s \in SUBSET D, Cardinality(s) <= 0 PROVE f[s] \in Int
      OBVIOUS
    <2>1. s = {}
      BY FS_EmptySet, FS_Subset, FS_CardinalityType
    <2>2. f[s] = SumStep(w, f, s) /\ SumStep(w, f, s) = 0
      BY <1>0, <2>1, Zenon DEF SumStep
    <2> QED
      BY <2>2
  <1>2. ASSUME NEW n \in Nat, n \in T PROVE n + 1 \in T
    <2> SUFFICES ASSUME NEW s \in SUBSET D, Cardinality(s) <= n + 1 PROVE f[s] \in Int
      OBVIOUS
    <2>1. CASE s = {}
      BY <1>0, <2>1 DEF SumStep
    <2>2. CASE s # {}
      <3>1. Pick(s) \in s
        BY <2>2, PickIn, Zenon
      <3>2. s \ {Pick(s)} \in SUBSET D /\ Cardinality(s \ {Pick(s)}) <= n
        BY <3>1, SmallerRest, Zenon
      <3>3. f[s \ {Pick(s)}] \in Int /\ w[Pick(s)] \in Int
        BY <1>2, <3>1, <3>2
      <3> QED
        BY <1>0, <2>2, <3>3 DEF SumStep
    <2> QED
      BY <2>1, <2>2
  <1>3. Cardinality(D) \in T
    <2> HIDE DEF T
    <2> QED
      BY <1>1, <1>2, NatSetInduction, FS_CardinalityType, Zenon
  <1>4. \A s \in SUBSET D : f[s] \in Int
    BY <1>3, FS_Subset
  <1>5. f = [s \in SUBSET D |-> SumStep(w, f, s)]
    BY DEF IsSum
  <1>6. f = [s \in SUBSET D |-> f[s]]
    BY <1>5, Zenon
  <1> QED
    BY <1>0, <1>4, <1>6, Zenon DEF Totals

(* The order in which the elements are taken does not matter.              *)
LEMMA SumRemove ==
  ASSUME NEW D, IsFiniteSet(D), NEW w \in [D -> Int], NEW f, Totals(D, w, f)
  PROVE  \A s \in SUBSET D : \A x \in s : f[s] = w[x] + f[s \ {x}]
  <1>0. /\ f \in [SUBSET D -> Int]
        /\ \A s \in SUBSET D : f[s] = SumStep(w, f, s)
    BY DEF Totals
  <1> DEFINE T == {n \in Nat : \A s \in SUBSET D : Cardinality(s) <= n =>
                     \A x \in s : f[s] = w[x] + f[s \ {x}]}
  <1>1. 0 \in T
    <2> SUFFICES ASSUME NEW s \in SUBSET D, Cardinality(s) <= 0 PROVE s = {}
      BY Zenon
    <2> QED
      BY FS_EmptySet, FS_Subset, FS_CardinalityType
  <1>2. ASSUME NEW n \in Nat, n \in T PROVE n + 1 \in T
    <2> SUFFICES ASSUME NEW s \in SUBSET D, Cardinality(s) <= n + 1, NEW x \in s
                 PROVE  f[s] = w[x] + f[s \ {x}]
      OBVIOUS
    <2> DEFINE c == Pick(s)
    <2>1. c \in s
      BY PickIn
    <2> HIDE DEF c
    <2>2. f[s] = w[c] + f[s \ {c}]
      BY <1>0, Zenon DEF SumStep, c
    <2>3. CASE x = c
      BY <2>2, <2>3, Zenon
    <2>4. CASE x # c
      <3>1. /\ s \ {c} \in SUBSET D /\ Cardinality(s \ {c}) <= n
            /\ s \ {x} \in SUBSET D /\ Cardinality(s \ {x}) <= n
        BY <2>1, SmallerRest, Zenon
      <3>2. f[s \ {c}] = w[x] + f[(s \ {c}) \ {x}]
        BY <1>2, <2>4, <3>1, Zenon
      <3>3. f[s \ {x}] = w[c] + f[(s \ {x}) \ {c}]
        BY <1>2, <2>1, <2>4, <3>1
      <3> DEFINE e == (s \ {c}) \ {x}
      <3>4. (s \ {x}) \ {c} = e /\ e \in SUBSET D
        OBVIOUS
      <3>5. f[e] \in Int /\ w[c] \in Int /\ w[x] \in Int
        BY <1>0, <2>1, <3>4
      <3>6. f[s \ {c}] = w[x] + f[e]
        BY <3>2, Zenon
      <3>7. f[s \ {x}] = w[c] + f[e]
        BY <3>3, <3>4, Zenon
      <3> HIDE DEF e
      <3> QED
        BY <2>2, <3>5, <3>6, <3>7
    <2> QED
      BY <2>3, <2>4, Zenon
  <1>3. Cardinality(D) \in T
    <2> HIDE DEF T
    <2> QED
      BY <1>1, <1>2, NatSetInduction, FS_CardinalityType, Zenon
  <1> QED
    BY <1>3, FS_Subset, Zenon

(* The sum over a set depends on the weights of its elements only.         *)
LEMMA SumAgree ==
  ASSUME NEW D, IsFiniteSet(D), NEW w \in [D -> Int], NEW v \in [D -> Int],
         NEW f, Totals(D, w, f), NEW g, Totals(D, v, g), NEW E \in SUBSET D,
         \A q \in E : v[q] = w[q]
  PROVE  f[E] = g[E]
  <1>0. /\ f \in [SUBSET D -> Int] /\ \A s \in SUBSET D : f[s] = SumStep(w, f, s)
        /\ g \in [SUBSET D -> Int] /\ \A s \in SUBSET D : g[s] = SumStep(v, g, s)
    BY Zenon DEF Totals
  <1> DEFINE T == {n \in Nat : \A s \in SUBSET E : Cardinality(s) <= n => f[s] = g[s]}
  <1>a. IsFiniteSet(E)
    BY FS_Subset, Zenon
  <1>1. 0 \in T
    <2> SUFFICES ASSUME NEW s \in SUBSET E, Cardinality(s) <= 0 PROVE f[s] = g[s]
      OBVIOUS
    <2>1. s = {}
      BY <1>a, FS_EmptySet, FS_Subset, FS_CardinalityType
    <2> QED
      BY <1>0, <2>1, Zenon DEF SumStep
  <1>2. ASSUME NEW n \in Nat, n \in T PROVE n + 1 \in T
    <2> SUFFICES ASSUME NEW s \in SUBSET E, Cardinality(s) <= n + 1 PROVE f[s] = g[s]
      OBVIOUS
    <2>1. CASE s = {}
      BY <1>0, <2>1, Zenon DEF SumStep
    <2>2. CASE s # {}
      <3>1. Pick(s) \in s
        BY <2>2, PickIn
      <3>2. s \ {Pick(s)} \in SUBSET E /\ Cardinality(s \ {Pick(s)}) <= n
        BY <1>a, <3>1, SmallerRest
      <3>3. f[s \ {Pick(s)}] = g[s \ {Pick(s)}] /\ w[Pick(s)] = v[Pick(s)]
        BY <1>2, <3>1, <3>2, Zenon
      <3> QED
        BY <1>0, <2>2, <3>3 DEF SumStep
    <2> QED
      BY <2>1, <2>2
  <1>3. Cardinality(E) \in T
    <2> HIDE DEF T
    <2> QED
      BY <1>a, <1>1, <1>2, NatSetInduction, FS_CardinalityType
  <1> QED
    BY <1>3, <1>a, FS_CardinalityType

(* SumFunction is such a sum.                                              *)
LEMMA SumIs ==
  ASSUME NEW D, IsFiniteSet(D), NEW w \in [D -> Int]
  PROVE  Totals(D, w, SumOf(w)) /\ SumFunction(w) = SumOf(w)[D]
  <1>1. IsSum(w, SumOf(w))
    BY SumExists, Zenon DEF SumOf
  <1>2. SumFunction(w) = SumOf(w)[D]
    BY SumUnfold
  <1> QED
    BY <1>1, <1>2, SumType, Zenon

Splits(D, w, f, p) == f[D] = w[p] + f[D \ {p}]

LEMMA SumWithout ==
  ASSUME NEW D, IsFiniteSet(D), NEW w \in [D -> Int], NEW f, Totals(D, w, f), NEW p \in D
  PROVE  Splits(D, w, f, p)
  <1>1. D \in SUBSET D
    OBVIOUS
  <1> QED
    BY <1>1, SumRemove DEF Splits

(* Changing one weight changes the sum by the same amount.                 *)
LEMMA SumChange ==
  ASSUME NEW D, IsFiniteSet(D), NEW w \in [D -> Int], NEW v \in [D -> Int],
         NEW p \in D, \A q \in D \ {p} : v[q] = w[q]
  PROVE  SumFunction(v) = SumFunction(w) + (v[p] - w[p])
  <1>0. /\ Totals(D, w, SumOf(w)) /\ SumFunction(w) = SumOf(w)[D]
        /\ Totals(D, v, SumOf(v)) /\ SumFunction(v) = SumOf(v)[D]
    BY SumIs
  <1>1. SumFunction(w) = w[p] + SumOf(w)[D \ {p}]
    <2>1. Splits(D, w, SumOf(w), p)
      BY <1>0, SumWithout, Zenon
    <2> QED
      BY <1>0, <2>1, Zenon DEF Splits
  <1>2. SumFunction(v) = v[p] + SumOf(v)[D \ {p}]
    <2>1. Splits(D, v, SumOf(v), p)
      BY <1>0, SumWithout, Zenon
    <2> QED
      BY <1>0, <2>1, Zenon DEF Splits
  <1>3. SumOf(w)[D \ {p}] = SumOf(v)[D \ {p}]
    BY SumIs, SumAgree
  <1>4. SumOf(w)[D \ {p}] \in Int
    BY <1>0 DEF Totals
  <1> QED
    BY <1>1, <1>2, <1>3, <1>4

(* A sum of naturals is positive when one of them is.                      *)
LEMMA SumSigns ==
  ASSUME NEW D, IsFiniteSet(D), NEW w \in [D -> Nat]
  PROVE  SumFunction(w) \in Nat /\ (SumFunction(w) > 0 <=> \E p \in D : w[p] > 0)
  <1> DEFINE f == SumOf(w)
  <1>0. /\ f \in [SUBSET D -> Int] /\ \A s \in SUBSET D : f[s] = SumStep(w, f, s)
        /\ SumFunction(w) = f[D] /\ Totals(D, w, f)
    <2>1. w \in [D -> Int]
      OBVIOUS
    <2>2. Totals(D, w, f) /\ SumFunction(w) = f[D]
      BY <2>1, SumIs
    <2> QED
      BY <2>2 DEF Totals
  <1> HIDE DEF f
  <1> DEFINE T == {n \in Nat : \A s \in SUBSET D : Cardinality(s) <= n =>
                     f[s] >= 0 /\ (f[s] > 0 => \E p \in s : w[p] > 0)}
  <1>1. 0 \in T
    <2> SUFFICES ASSUME NEW s \in SUBSET D, Cardinality(s) <= 0 PROVE f[s] = 0
      OBVIOUS
    <2>1. s = {}
      BY FS_EmptySet, FS_Subset, FS_CardinalityType
    <2>2. f[s] = SumStep(w, f, s) /\ SumStep(w, f, s) = 0
      BY <1>0, <2>1, Zenon DEF SumStep
    <2> QED
      BY <2>2
  <1>2. ASSUME NEW n \in Nat, n \in T PROVE n + 1 \in T
    <2> SUFFICES ASSUME NEW s \in SUBSET D, Cardinality(s) <= n + 1
                 PROVE  f[s] >= 0 /\ (f[s] > 0 => \E p \in s : w[p] > 0)
      OBVIOUS
    <2>1. CASE s = {}
      <3>1. f[s] = SumStep(w, f, s) /\ SumStep(w, f, s) = 0
        BY <1>0, <2>1, Zenon DEF SumStep
      <3> QED
        BY <3>1
    <2>2. CASE s # {}
      <3> DEFINE c == Pick(s)
                 r == s \ {c}
      <3>1. c \in s
        BY <2>2, PickIn
      <3>2. r \in SUBSET D /\ Cardinality(r) <= n
        BY <3>1, SmallerRest
      <3>3. f[r] >= 0 /\ (f[r] > 0 => \E p \in r : w[p] > 0)
        BY <1>2, <3>2, Zenon
      <3>4. f[s] = w[c] + f[r]
        BY <1>0, <2>2, Zenon DEF SumStep
      <3>5. w[c] \in Nat /\ f[r] \in Int
        BY <1>0, <3>1, <3>2
      <3>6. (\E p \in r : w[p] > 0) => \E p \in s : w[p] > 0
        OBVIOUS
      <3> HIDE DEF c, r
      <3> QED
        BY <3>1, <3>3, <3>4, <3>5, <3>6
    <2> QED
      BY <2>1, <2>2
  <1>3. Cardinality(D) \in T
    <2> HIDE DEF T
    <2> QED
      BY <1>1, <1>2, NatSetInduction, FS_CardinalityType, Zenon
  <1>4. \A s \in SUBSET D : f[s] >= 0 /\ (f[s] > 0 => \E p \in s : w[p] > 0)
    BY <1>3, FS_Subset, Zenon
  <1>5. ASSUME NEW p \in D, w[p] > 0 PROVE f[D] > 0
    <2>1. f[D] = w[p] + f[D \ {p}]
      <3>1. w \in [D -> Int]
        OBVIOUS
      <3>2. Splits(D, w, f, p)
        BY <1>0, <3>1, SumWithout, Zenon
      <3> QED
        BY <3>2, Zenon DEF Splits
    <2>2. f[D \ {p}] >= 0 /\ f[D \ {p}] \in Int
      BY <1>0, <1>4, Zenon
    <2> QED
      BY <1>5, <2>1, <2>2
  <1> QED
    BY <1>0, <1>4, <1>5

-----------------------------------------------------------------------------
(* The byte accounting.  The weight of a path in a given store, and what   *)
(* BytesExact says of one.                                                 *)
WeightIn(e, p) == IF e[p] = Absent THEN 0 ELSE Cost[p][e[p].val]

PathsOf(s) == {q \in Path : ShardOf[q] = s}

ExactIn(e, b, c) ==
  /\ \A s \in Shard : b[s] = SumFunction([p \in PathsOf(s) |-> WeightIn(e, p)])
  /\ c = SumFunction([p \in Path |-> WeightIn(e, p)])

EntriesType == [Path -> Atom \cup {Absent}]

LEMMA ExactIsExact ==
  /\ BytesExact <=> ExactIn(entries, bytes, currentBytes)
  /\ BytesExact' <=> ExactIn(entries', bytes', currentBytes')
  BY DEF BytesExact, ExactIn, Weight, WeightIn, PathsOf

LEMMA WeightInType ==
  ASSUME NEW e \in EntriesType, NEW p \in Path
  PROVE  WeightIn(e, p) \in Nat /\ (e[p] # Absent <=> WeightIn(e, p) > 0)
  <1>1. CASE e[p] = Absent
    BY <1>1 DEF WeightIn
  <1>2. CASE e[p] # Absent
    <2>1. e[p] \in Atom
      BY <1>2, Zenon DEF EntriesType
    <2>2. e[p].val \in Val
      BY <2>1, Zenon DEF Atom
    <2>3. Cost[p][e[p].val] \in Nat /\ Cost[p][e[p].val] > 0
      BY <2>2, ShapeAssumption
    <2> QED
      BY <1>2, <2>3, Zenon DEF WeightIn
  <1> QED
    BY <1>1, <1>2, Zenon

(* A step that changes the entry of one path and moves the counters by the *)
(* difference of its weights keeps them exact.                             *)
LEMMA ExactMoves ==
  ASSUME NEW e \in EntriesType, NEW f \in EntriesType, NEW p \in Path,
         \A q \in Path \ {p} : f[q] = e[q],
         NEW b \in [Shard -> Int], NEW c \in Int, ExactIn(e, b, c),
         NEW d, d = WeightIn(f, p) - WeightIn(e, p),
         NEW b2, b2 = [b EXCEPT ![ShardOf[p]] = b[ShardOf[p]] + d]
  PROVE  ExactIn(f, b2, c + d)
  <1> DEFINE W(g, S) == [q \in S |-> WeightIn(g, q)]
  <1>1. ASSUME NEW S \in SUBSET Path
        PROVE  /\ IsFiniteSet(S)
               /\ W(e, S) \in [S -> Int] /\ W(f, S) \in [S -> Int]
               /\ \A q \in S \ {p} : W(f, S)[q] = W(e, S)[q]
               /\ p \in S => W(f, S)[p] - W(e, S)[p] = d
               /\ p \notin S => W(f, S) = W(e, S)
    <2>1. IsFiniteSet(S)
      BY <1>1, ShapeAssumption, FS_Subset, Zenon
    <2>2. \A q \in S : WeightIn(e, q) \in Int /\ WeightIn(f, q) \in Int
      BY <1>1, WeightInType
    <2>3. \A q \in S \ {p} : WeightIn(f, q) = WeightIn(e, q)
      BY <1>1 DEF WeightIn
    <2> QED
      BY <2>1, <2>2, <2>3, Zenon
  <1>2. ASSUME NEW S \in SUBSET Path, p \in S
        PROVE  SumFunction(W(f, S)) = SumFunction(W(e, S)) + d
    <2> DEFINE v == W(f, S)
               w == W(e, S)
    <2>1. /\ IsFiniteSet(S)
          /\ w \in [S -> Int] /\ v \in [S -> Int]
          /\ \A q \in S \ {p} : v[q] = w[q]
          /\ v[p] - w[p] = d
      BY <1>1, <1>2, Zenon
    <2> HIDE DEF v, w
    <2>2. SumFunction(v) = SumFunction(w) + (v[p] - w[p])
      BY <1>2, <2>1, SumChange
    <2>3. SumFunction(v) = SumFunction(w) + d
      BY <2>1, <2>2
    <2> QED
      BY <2>3, Zenon DEF v, w
  <1>3. ASSUME NEW s \in Shard
        PROVE  b2[s] = SumFunction(W(f, PathsOf(s)))
    <2>1. PathsOf(s) \in SUBSET Path /\ (p \in PathsOf(s) <=> s = ShardOf[p])
      BY Zenon DEF PathsOf
    <2>2. b[s] = SumFunction(W(e, PathsOf(s)))
      BY Zenon DEF ExactIn
    <2> HIDE DEF W
    <2>3. CASE s = ShardOf[p]
      BY <1>2, <2>1, <2>2, <2>3, Zenon
    <2>4. CASE s # ShardOf[p]
      BY <1>1, <2>1, <2>2, <2>4, Zenon
    <2> QED
      BY <2>3, <2>4, Zenon
  <1>4. c + d = SumFunction(W(f, Path))
    <2>1. c = SumFunction(W(e, Path))
      BY Zenon DEF ExactIn
    <2>2. SumFunction(W(f, Path)) = SumFunction(W(e, Path)) + d
      <3> HIDE DEF W
      <3> QED
        BY <1>2, Zenon
    <2> HIDE DEF W
    <2> QED
      BY <2>1, <2>2, Zenon
  <1> QED
    BY <1>3, <1>4, Zenon DEF ExactIn

LEMMA DropExact ==
  ASSUME StoreType, BytesExact, NEW p \in Path, Drop(p)
  PROVE  BytesExact'
  <1>1. entries \in EntriesType /\ entries' \in EntriesType
    BY DropTyped, Zenon DEF StoreType, EntriesType
  <1>2. \A q \in Path \ {p} : entries'[q] = entries[q]
    BY Zenon DEF StoreType, Drop
  <1> DEFINE d == WeightIn(entries', p) - WeightIn(entries, p)
  <1>3. entries'[p] = Absent
    BY Zenon DEF StoreType, Drop
  <1>4. Weight(p) = WeightIn(entries, p) /\ WeightIn(entries', p) = 0 /\ Weight(p) \in Int
    BY <1>3, WeightType DEF Weight, WeightIn
  <1>5. bytes' = [bytes EXCEPT ![ShardOf[p]] = bytes[ShardOf[p]] - Weight(p)]
    BY Zenon DEF Drop
  <1>6. currentBytes' = currentBytes - Weight(p) /\ currentBytes \in Int
    BY Zenon DEF Drop, StoreType
  <1>7. bytes \in [Shard -> Int] /\ ShardOf[p] \in Shard
    BY ShapeAssumption, Zenon DEF StoreType
  <1>8. bytes' = [bytes EXCEPT ![ShardOf[p]] = bytes[ShardOf[p]] + d]
    <2>1. bytes[ShardOf[p]] - Weight(p) = bytes[ShardOf[p]] + d
      BY <1>4, <1>7
    <2> HIDE DEF d
    <2> QED
      BY <1>5, <2>1, Zenon
  <1>9. currentBytes' = currentBytes + d
    BY <1>4, <1>6
  <1>10. d \in Int
    BY <1>4
  <1> HIDE DEF d
  <1>11. ExactIn(entries', bytes', currentBytes + d)
    BY <1>1, <1>2, <1>6, <1>7, <1>8, <1>10, ExactIsExact, ExactMoves, Zenon DEF d
  <1> QED
    BY <1>9, <1>11, ExactIsExact, Zenon

LEMMA InstallExact ==
  ASSUME Typed, Typed', BytesExact, NEW w \in Proc, Install(w)
  PROVE  BytesExact'
  <1> DEFINE p == job[w].path
             a == job[w].atom
             d == WeightIn(entries', p) - WeightIn(entries, p)
  <1>1. p \in Path /\ a \in Atom
    BY JobTyped, Zenon DEF Install, Typed
  <1>2. entries \in EntriesType /\ entries' \in EntriesType
    BY Zenon DEF Typed, StoreType, EntriesType
  <1>3. entries' = [entries EXCEPT ![p] = a]
    BY Zenon DEF Install
  <1>4. a # Absent
    BY <1>1, ShapeAssumption, Zenon
  <1>5. entries'[p] = a /\ \A q \in Path \ {p} : entries'[q] = entries[q]
    BY <1>1, <1>2, <1>3, Zenon DEF EntriesType
  <1>6. Weight(p) = WeightIn(entries, p) /\ WeightIn(entries', p) = Cost[p][a.val]
    BY <1>4, <1>5, Zenon DEF Weight, WeightIn
  <1>7. Charge(p, a) = d
    BY <1>6, Zenon DEF Charge
  <1>8. WeightIn(entries', p) \in Int /\ WeightIn(entries, p) \in Int
    BY <1>1, <1>2, WeightInType
  <1>9. /\ bytes' = [bytes EXCEPT ![ShardOf[p]] = bytes[ShardOf[p]] + Charge(p, a)]
        /\ currentBytes' = currentBytes + Charge(p, a)
    BY Zenon DEF Install
  <1>10. bytes \in [Shard -> Int] /\ currentBytes \in Int
    BY Zenon DEF Typed, StoreType
  <1>11. d \in Int
    BY <1>8
  <1> HIDE DEF d, p, a
  <1>12. ExactIn(entries', bytes', currentBytes + d)
    BY <1>1, <1>2, <1>5, <1>7, <1>9, <1>10, <1>11, ExactIsExact, ExactMoves, Zenon DEF d
  <1> QED
    BY <1>7, <1>9, <1>12, ExactIsExact

LEMMA InitExact == Init => BytesExact
  <1> SUFFICES ASSUME Init PROVE ExactIn(entries, bytes, currentBytes)
    BY ExactIsExact, Zenon
  <1>1. \A p \in Path : WeightIn(entries, p) = 0
    BY DEF Init, WeightIn
  <1>2. ASSUME NEW S \in SUBSET Path
        PROVE  SumFunction([p \in S |-> WeightIn(entries, p)]) = 0
    <2> DEFINE w == [p \in S |-> WeightIn(entries, p)]
    <2>1. IsFiniteSet(S) /\ w \in [S -> Nat] /\ \A p \in S : ~(w[p] > 0)
      BY <1>1, <1>2, ShapeAssumption, FS_Subset
    <2> HIDE DEF w
    <2>2. ~(SumFunction(w) > 0) /\ SumFunction(w) \in Nat
      BY <2>1, SumSigns
    <2>3. SumFunction(w) = 0
      BY <2>2
    <2> QED
      BY <2>3, Zenon DEF w
  <1>3. \A s \in Shard : bytes[s] = SumFunction([p \in PathsOf(s) |-> WeightIn(entries, p)])
    BY <1>2, Zenon DEF Init, PathsOf
  <1>4. currentBytes = SumFunction([p \in Path |-> WeightIn(entries, p)])
    BY <1>2 DEF Init
  <1> QED
    BY <1>3, <1>4, Zenon DEF ExactIn

(* The counters are untouched by a step that leaves entries alone.         *)
LEMMA ExactKept ==
  ASSUME BytesExact, UNCHANGED <<entries, bytes, currentBytes>>
  PROVE  BytesExact'
  <1>1. ExactIn(entries, bytes, currentBytes)
    BY ExactIsExact
  <1>2. ExactIn(entries', bytes', currentBytes')
    BY <1>1, Zenon
  <1> QED
    BY <1>2, ExactIsExact

LEMMA StepExact == IInv /\ BytesExact /\ [Next]_vars => BytesExact'
  <1> SUFFICES ASSUME IInv, BytesExact, [Next]_vars
               PROVE  BytesExact'
    BY Zenon
  <1>0. Typed /\ Typed' /\ StoreType
    BY StepTyped, Zenon DEF IInv, Typed
  <1>1. CASE UNCHANGED <<entries, bytes, currentBytes>>
    BY <1>1, ExactKept, Zenon
  <1>2. ASSUME NEW w \in Proc, Install(w)
        PROVE  BytesExact'
    BY <1>0, <1>2, InstallExact, Zenon
  <1>3. ASSUME NEW p \in Path, Drop(p)
        PROVE  BytesExact'
    BY <1>0, <1>3, DropExact, Zenon
  <1>4. ASSUME NEW w \in Proc, EvictVictim(w)
        PROVE  BytesExact'
    BY <1>1, <1>3, <1>4, Zenon DEF EvictVictim, store
  <1>5. ASSUME NEW p \in Path, SweepEntry(p)
        PROVE  BytesExact'
    BY <1>3, <1>5, Zenon DEF SweepEntry
  <1>6. ASSUME NEW w \in Proc, AppendStep(w)
        PROVE  BytesExact'
    BY <1>1, <1>2, <1>4, <1>6, Zenon
    DEF AppendStep, Discard, Dedup, CheckCeiling, EvictLoop, EvictScan, EvictRecheck, store
  <1> QED
    BY <1>1, <1>5, <1>6, Zenon
    DEF Next, Mint, GetCurrent, SweepStart, SweepNext, Tick, vars, store

-----------------------------------------------------------------------------
(* The ceiling.  While the counter is at or above the ceiling, some append *)
(* is going to evict: it has not looked yet, or it has picked or will      *)
(* still come to a shard that has something to evict.                      *)
Holding(j) == ~Empty(j)

Ahead(i) == \E j \in Shard : j >= i /\ Holding(j)

Evicting(w) ==
  \/ pc[w] \in {"check", "loop"}
  \/ /\ pc[w] = "scan"
     /\ IF scan[w].maxB > 0 THEN Holding(scan[w].victim) ELSE Ahead(scan[w].at)
  \/ /\ pc[w] = "recheck"
     /\ scan[w].at = 0 \/ Ahead(scan[w].at)

NoneDue == \A x \in Deadline : x = 0 \/ now <= x

SweepsPast == sweeper.t <= now

EvictorAtWork == NoneDue /\ currentBytes >= High => \E w \in Proc : Evicting(w)

CeilingInv == IInv /\ BytesExact /\ SweepsPast /\ EvictorAtWork

(* A shard has something to evict exactly when its counter is positive.    *)
LEMMA HoldingBytes ==
  ASSUME IInv, BytesExact, NEW s \in Shard
  PROVE  bytes[s] > 0 <=> Holding(s)
  <1> DEFINE w == [p \in PathsOf(s) |-> WeightIn(entries, p)]
  <1>1. entries \in EntriesType
    BY Zenon DEF IInv, Typed, StoreType, EntriesType
  <1>2. IsFiniteSet(PathsOf(s))
    BY ShapeAssumption, FS_Subset, Zenon DEF PathsOf
  <1>3. w \in [PathsOf(s) -> Nat]
    BY <1>1, WeightInType, Zenon DEF PathsOf
  <1>4. bytes[s] = SumFunction(w)
    BY ExactIsExact, Zenon DEF ExactIn
  <1>5. \A p \in PathsOf(s) : w[p] > 0 <=> entries[p] # Absent
    BY <1>1, WeightInType, Zenon DEF PathsOf
  <1> HIDE DEF w
  <1>6. bytes[s] > 0 <=> \E p \in PathsOf(s) : w[p] > 0
    BY <1>2, <1>3, <1>4, SumSigns, Zenon
  <1>7. Holding(s) <=> \E p \in PathsOf(s) : entries[p] # Absent
    BY Zenon DEF Holding, Empty, IInv, IndexCoherent, LruIndex, Resident, PathsOf
  <1> QED
    BY <1>5, <1>6, <1>7, Zenon

(* When anything is charged, some shard has something to evict.            *)
LEMMA ChargedHeld ==
  ASSUME IInv, BytesExact, currentBytes > 0
  PROVE  Ahead(1)
  <1> DEFINE w == [p \in Path |-> WeightIn(entries, p)]
  <1>1. entries \in EntriesType
    BY Zenon DEF IInv, Typed, StoreType, EntriesType
  <1>2. w \in [Path -> Nat] /\ IsFiniteSet(Path)
    BY <1>1, WeightInType, ShapeAssumption, Zenon
  <1>3. currentBytes = SumFunction(w)
    BY ExactIsExact, Zenon DEF ExactIn
  <1>4. \A p \in Path : w[p] > 0 <=> entries[p] # Absent
    BY <1>1, WeightInType, Zenon
  <1> HIDE DEF w
  <1>5. PICK p \in Path : w[p] > 0
    BY <1>2, <1>3, SumSigns, Zenon
  <1>6. p \in lru
    BY <1>4, <1>5, Zenon DEF IInv, IndexCoherent, LruIndex, Resident
  <1>7. ShardOf[p] \in Shard /\ ShardOf[p] >= 1
    BY ShapeAssumption DEF Shard
  <1> QED
    BY <1>6, <1>7, Zenon DEF Ahead, Holding, Empty

(* The lists only grow: a shard that held something still does.            *)
LEMMA HoldingGrows ==
  ASSUME lru \subseteq lru'
  PROVE  /\ \A j : Holding(j) => Holding(j)'
         /\ \A i : Ahead(i) => Ahead(i)'
  <1>1. \A j : Holding(j) => Holding(j)'
    BY Zenon DEF Holding, Empty
  <1> QED
    BY <1>1, Zenon DEF Ahead

(* An evictor that does not move keeps its work when the lists only grow.  *)
LEMMA EvictingKept ==
  ASSUME lru \subseteq lru', NEW w \in Proc, Evicting(w),
         pc'[w] = pc[w], scan'[w] = scan[w]
  PROVE  Evicting(w)'
  <1>1. Holding(scan[w].victim) => Holding(scan[w].victim)'
    BY HoldingGrows, Zenon DEF Holding, Empty
  <1>2. Ahead(scan[w].at) => Ahead(scan[w].at)'
    BY <1>1, HoldingGrows, Zenon DEF Ahead, Holding, Empty
  <1> QED
    BY <1>1, <1>2, Zenon DEF Evicting, Holding, Empty, Ahead

(* Six bytes are enough for 90% and 80% of the limit to differ.            *)
LEMMA CeilingAboveTarget ==
  ASSUME MaxMemory >= 6
  PROVE  High \in Int /\ Target \in Int /\ Target >= 0 /\ Target < High
  <1>1. MaxMemory \in Nat
    BY ShapeAssumption, Zenon
  <1>2. High \in Int /\ Target \in Int
    BY <1>1 DEF High, Target
  <1>3. Target >= 0 /\ Target < High
    BY <1>1 DEF High, Target
  <1> QED
    BY <1>2, <1>3, Zenon

(* A step of w that leaves the other goroutines alone, drops no entry and  *)
(* keeps w at work, if it was, keeps somebody at work.                     *)
LEMMA SomebodyLeft ==
  ASSUME EvictorAtWork, NoneDue, currentBytes >= High, lru \subseteq lru', NEW w \in Proc,
         \A u \in Proc \ {w} : pc'[u] = pc[u] /\ scan'[u] = scan[u],
         Evicting(w) => Evicting(w)'
  PROVE  \E u \in Proc : Evicting(u)'
  <1>1. PICK u \in Proc : Evicting(u)
    BY Zenon DEF EvictorAtWork
  <1>2. CASE u = w
    BY <1>1, <1>2, Zenon
  <1>3. CASE u # w
    <2>1. Evicting(u)'
      BY <1>1, <1>3, EvictingKept, Zenon
    <2> QED
      BY <2>1, Zenon
  <1> QED
    BY <1>2, <1>3, Zenon

LEMMA EvictLoopWorks ==
  ASSUME MaxMemory >= 6, IInv, BytesExact, currentBytes >= High,
         NEW w \in Proc, EvictLoop(w)
  PROVE  Evicting(w)'
  <1>1. Target < High /\ Target >= 0 /\ High \in Int /\ Target \in Int
    BY CeilingAboveTarget, Zenon
  <1>2. currentBytes \in Int
    BY Zenon DEF IInv, Typed, StoreType
  <1>3. /\ pc' = [pc EXCEPT ![w] = "scan"]
        /\ scan' = [scan EXCEPT ![w] = [at |-> 1, maxB |-> -1, victim |-> 0]]
        /\ lru' = lru
    BY <1>1, <1>2 DEF EvictLoop, store
  <1>4. pc'[w] = "scan" /\ scan'[w].maxB = -1 /\ scan'[w].at = 1
    BY <1>3, Zenon DEF IInv, Typed, ProcType
  <1>5. Ahead(1)
    BY <1>1, <1>2, ChargedHeld
  <1>6. Ahead(1)'
    BY <1>3, <1>5, Zenon DEF Ahead, Holding, Empty
  <1> QED
    BY <1>4, <1>6 DEF Evicting, Ahead, Holding, Empty

LEMMA EvictScanWorks ==
  ASSUME IInv, BytesExact, NEW w \in Proc, EvictScan(w), Evicting(w)
  PROVE  Evicting(w)'
  <1> DEFINE i == scan[w].at
             m == scan[w].maxB
  <1>1. /\ i \in Shard /\ m \in Int /\ bytes[i] \in Int
        /\ scan[w] \in ScanRec
    BY ShapeAssumption DEF EvictScan, IInv, Typed, ProcType, StoreType, Shard, ScanRec
  <1>2. pc[w] = "scan" /\ pc'[w] = "scan" /\ lru' = lru
    BY Zenon DEF EvictScan, store
  <1>3. bytes[i] > 0 <=> Holding(i)
    BY <1>1, HoldingBytes, Zenon
  <1>4. CASE bytes[i] > m
    <2>1. scan'[w] = [at |-> i + 1, maxB |-> bytes[i], victim |-> i]
      BY <1>4, Zenon DEF EvictScan, IInv, Typed, ProcType
    <2>2. scan'[w].at = i + 1 /\ scan'[w].maxB = bytes[i] /\ scan'[w].victim = i
      BY <2>1
    <2>3. CASE bytes[i] > 0
      BY <1>2, <1>3, <2>2, <2>3, Zenon DEF Evicting, Holding, Empty
    <2>4. CASE ~(bytes[i] > 0)
      <3>1. ~(m > 0)
        BY <1>1, <1>4, <2>4
      <3>2. PICK j \in Shard : j >= i /\ Holding(j)
        BY <1>2, <3>1, Zenon DEF Evicting, Ahead
      <3>3. j # i
        BY <1>3, <2>4, <3>2, Zenon
      <3>4. j >= i + 1
        BY <1>1, <3>2, <3>3 DEF Shard
      <3>5. Ahead(i + 1)
        BY <3>2, <3>4, Zenon DEF Ahead
      <3> QED
        BY <1>2, <2>2, <2>4, <3>5, Zenon DEF Evicting, Ahead, Holding, Empty
    <2> QED
      BY <2>3, <2>4
  <1>5. CASE ~(bytes[i] > m)
    <2>1. scan'[w] = [scan[w] EXCEPT !.at = i + 1]
      BY <1>5 DEF EvictScan, IInv, Typed, ProcType
    <2>2. scan'[w].at = i + 1 /\ scan'[w].maxB = m /\ scan'[w].victim = scan[w].victim
      BY <1>1, <2>1, Zenon DEF ScanRec
    <2>3. CASE m > 0
      BY <1>2, <2>2, <2>3, Zenon DEF Evicting, Holding, Empty
    <2>4. CASE ~(m > 0)
      <3>1. ~(bytes[i] > 0)
        BY <1>1, <1>5, <2>4
      <3>2. PICK j \in Shard : j >= i /\ Holding(j)
        BY <1>2, <2>4, Zenon DEF Evicting, Ahead
      <3>3. j # i
        BY <1>3, <3>1, <3>2, Zenon
      <3>4. j >= i + 1
        BY <1>1, <3>2, <3>3 DEF Shard
      <3>5. Ahead(i + 1)
        BY <3>2, <3>4 DEF Ahead
      <3> QED
        BY <1>2, <2>2, <2>4, <3>5, Zenon DEF Evicting, Ahead, Holding, Empty
    <2> QED
      BY <2>3, <2>4, Zenon
  <1> QED
    BY <1>4, <1>5, Zenon

(* An evictor at work does not give up: it drops an entry and looks again. *)
LEMMA EvictVictimWorks ==
  ASSUME IInv, NEW w \in Proc, EvictVictim(w), Evicting(w)
  PROVE  Evicting(w)'
  <1>1. pc[w] = "scan" /\ scan[w].at > ShardCount /\ scan[w].at \in Int
    BY DEF EvictVictim, IInv, Typed, ProcType
  <1>2. ~Ahead(scan[w].at)
    BY <1>1, ShapeAssumption DEF Ahead, Shard
  <1>3. scan[w].maxB > 0 /\ ~Empty(scan[w].victim)
    BY <1>1, <1>2, Zenon DEF Evicting, Holding
  <1>4. scan[w].maxB \in Int
    BY DEF IInv, Typed, ProcType
  <1>5. /\ pc' = [pc EXCEPT ![w] = "recheck"]
        /\ scan' = [scan EXCEPT ![w].at = 0]
    BY <1>3, <1>4 DEF EvictVictim
  <1>6. pc'[w] = "recheck" /\ scan'[w].at = 0
    BY <1>5, ShapeAssumption, ScanMoveTyped DEF IInv, Typed, ProcType
  <1> QED
    BY <1>6 DEF Evicting

LEMMA EvictRecheckWorks ==
  ASSUME IInv, BytesExact, currentBytes > 0, NEW w \in Proc, EvictRecheck(w), Evicting(w)
  PROVE  Evicting(w)'
  <1> DEFINE i == scan[w].at
  <1>0. ShardCount \in Nat
    BY ShapeAssumption
  <1>1. pc[w] = "recheck" /\ i \in 0..ShardCount + 1 /\ lru' = lru
    BY Zenon DEF EvictRecheck, IInv, Typed, ProcType, store
  <1>2. i = 0 \/ Ahead(i)
    BY <1>1, Zenon DEF Evicting
  <1>3. CASE pc' = [pc EXCEPT ![w] = "loop"]
    BY <1>3, Zenon DEF Evicting, IInv, Typed, ProcType
  <1>4. CASE /\ Empty(IF i = 0 THEN scan[w].victim ELSE i)
             /\ i < ShardCount
             /\ scan' = [scan EXCEPT ![w].at = i + 1]
             /\ pc' = pc
    <2>0. i + 1 \in 0..ShardCount + 1 /\ ProcType
      BY <1>1, <1>4, <1>0 DEF IInv, Typed
    <2>1. scan'[w].at = i + 1
      <3>1. scan' = [scan EXCEPT ![w].at = i + 1]
        BY <1>4
      <3> HIDE DEF i
      <3> QED
        BY <2>0, <3>1, ScanMoveTyped, Zenon
    <2>2. Ahead(i + 1)
      <3>1. CASE i = 0
        BY <3>1, ChargedHeld
      <3>2. CASE i # 0
        <4>1. PICK j \in Shard : j >= i /\ Holding(j)
          BY <1>2, <3>2 DEF Ahead
        <4>2. j # i
          BY <1>4, <3>2, <4>1, Zenon DEF Holding
        <4>3. j >= i + 1
          BY <1>0, <1>1, <4>1, <4>2 DEF Shard
        <4> QED
          BY <4>1, <4>3, Zenon DEF Ahead
      <3> QED
        BY <3>1, <3>2
    <2> QED
      BY <1>1, <1>4, <2>1, <2>2, Zenon DEF Evicting, Ahead, Holding, Empty
  <1>5. CASE i = ShardCount /\ Empty(i)
    <2>1. i # 0
      BY <1>5, ShapeAssumption, Zenon
    <2>2. PICK j \in Shard : j >= i /\ Holding(j)
      BY <1>2, <2>1, Zenon DEF Ahead
    <2>3. j = i
      BY <1>0, <1>1, <1>5, <2>2 DEF Shard
    <2> QED
      BY <1>5, <2>2, <2>3, Zenon DEF Holding
  <1> QED
    BY <1>3, <1>4, <1>5, Zenon DEF EvictRecheck

LEMMA StepSweepsPast == Typed /\ SweepsPast /\ [Next]_vars => SweepsPast'
  <1> SUFFICES ASSUME Typed, SweepsPast, [Next]_vars
               PROVE  SweepsPast'
    BY Zenon
  <1>1. now \in Int /\ now >= 1 /\ sweeper.t \in Int
    BY ShapeAssumption DEF Typed, ClockType
  <1>2. CASE sweeper' = sweeper /\ (now' = now \/ now' = now + 1)
    BY <1>1, <1>2 DEF SweepsPast
  <1>3. CASE SweepStart
    BY <1>1, <1>3 DEF SweepStart, SweepsPast
  <1>4. CASE SweepNext
    <2>1. sweeper'.t = 0 \/ sweeper'.t = sweeper.t
      BY <1>4, Zenon DEF SweepNext, Typed, ClockType
    <2> QED
      BY <1>1, <1>4, <2>1 DEF SweepNext, SweepsPast
  <1>5. ASSUME NEW w \in Proc, AppendStep(w)
        PROVE  sweeper' = sweeper /\ now' = now
    BY <1>5, Zenon
    DEF AppendStep, Discard, Dedup, Install, CheckCeiling, EvictLoop, EvictScan,
        EvictVictim, EvictRecheck
  <1> QED
    BY <1>2, <1>3, <1>4, <1>5, Zenon DEF Next, Mint, GetCurrent, SweepEntry, Tick, vars

(* As long as no deadline has passed the sweeper drops nothing.            *)
LEMMA NothingSwept ==
  ASSUME Typed, SweepsPast, NoneDue, NEW p \in Path
  PROVE  ~SweepEntry(p)
  <1> SUFFICES ASSUME SweepEntry(p) PROVE FALSE
    BY Zenon
  <1>1. entries[p] \in Atom
    BY Zenon DEF SweepEntry, Typed, StoreType
  <1>2. entries[p].exp \in Deadline /\ entries[p].exp # 0 /\ entries[p].exp < sweeper.t
    BY <1>1, Zenon DEF SweepEntry, Expired, Atom
  <1>3. now \in Int /\ sweeper.t \in Int /\ entries[p].exp \in Int
    BY <1>2, ShapeAssumption DEF Typed, ClockType
  <1> QED
    BY <1>2, <1>3 DEF NoneDue, SweepsPast

LEMMA StepCeiling == MaxMemory >= 6 /\ CeilingInv /\ [Next]_vars => CeilingInv'
  <1> SUFFICES ASSUME MaxMemory >= 6, CeilingInv, [Next]_vars, NoneDue', currentBytes' >= High
               PROVE  \E w \in Proc : Evicting(w)'
    BY StepIInv, StepExact, StepSweepsPast, Zenon DEF CeilingInv, EvictorAtWork, IInv
  <1>1. Typed /\ StoreType /\ ProcType /\ IInv /\ BytesExact /\ EvictorAtWork /\ SweepsPast
    BY Zenon DEF CeilingInv, IInv, Typed
  <1>2. Target < High /\ Target >= 0 /\ High \in Int /\ Target \in Int
    BY CeilingAboveTarget, Zenon
  <1>3. ASSUME now' = now \/ now' = now + 1
        PROVE  NoneDue
    <2>1. now \in Int /\ \A x \in Deadline : x \in Int
      BY <1>1, ShapeAssumption DEF Typed, ClockType
    <2> QED
      BY <1>3, <2>1 DEF NoneDue
  <1> DEFINE Quiet == /\ lru \subseteq lru'
                      /\ currentBytes' = currentBytes
                      /\ now' = now \/ now' = now + 1
  <1>4. ASSUME Quiet, NEW w \in Proc,
               \A u \in Proc \ {w} : pc'[u] = pc[u] /\ scan'[u] = scan[u],
               currentBytes >= High /\ currentBytes > 0 /\ Evicting(w) => Evicting(w)'
        PROVE  \E u \in Proc : Evicting(u)'
    <2>1. NoneDue /\ currentBytes >= High /\ currentBytes > 0
      <3>1. currentBytes >= High /\ currentBytes \in Int
        BY <1>1, <1>4, Zenon DEF StoreType
      <3>2. currentBytes > 0
        BY <1>2, <3>1
      <3> QED
        BY <1>3, <1>4, <3>1, <3>2, Zenon
    <2> QED
      BY <1>1, <1>4, <2>1, SomebodyLeft, Zenon
  <1>5. ASSUME Quiet, UNCHANGED <<pc, scan>>
        PROVE  \E u \in Proc : Evicting(u)'
    <2>1. NoneDue /\ currentBytes >= High
      BY <1>3, <1>5, Zenon
    <2>2. PICK u \in Proc : Evicting(u)
      BY <1>1, <2>1, Zenon DEF EvictorAtWork
    <2>3. Evicting(u)'
      BY <1>5, <2>2, EvictingKept, Zenon
    <2> QED
      BY <2>3, Zenon
  <1>6. ASSUME NEW w \in Proc, NEW p \in Path, NEW v \in Val, NEW x \in Deadline,
               Mint(w, p, v, x)
        PROVE  \E u \in Proc : Evicting(u)'
    <2>1. Quiet /\ ~Evicting(w)
      BY <1>6, Zenon DEF Mint, store, Evicting
    <2>2. \A u \in Proc \ {w} : pc'[u] = pc[u] /\ scan'[u] = scan[u]
      BY <1>1, <1>6, Zenon DEF Mint, ProcType
    <2> QED
      BY <1>4, <2>1, <2>2, Zenon
  <1>7. ASSUME NEW w \in Proc, Discard(w)
        PROVE  \E u \in Proc : Evicting(u)'
    <2>1. Quiet /\ ~Evicting(w)
      BY <1>7, Zenon DEF Discard, store, Evicting
    <2>2. \A u \in Proc \ {w} : pc'[u] = pc[u] /\ scan'[u] = scan[u]
      BY <1>1, <1>7, Zenon DEF Discard, Return, ProcType
    <2> QED
      BY <1>4, <2>1, <2>2, Zenon
  <1>8. ASSUME NEW w \in Proc, Dedup(w)
        PROVE  \E u \in Proc : Evicting(u)'
    <2>1. Quiet /\ ~Evicting(w)
      BY <1>8, Zenon DEF Dedup, ToFront, Evicting
    <2>2. \A u \in Proc \ {w} : pc'[u] = pc[u] /\ scan'[u] = scan[u]
      BY <1>1, <1>8, Zenon DEF Dedup, ProcType
    <2> QED
      BY <1>4, <2>1, <2>2
  <1>9. ASSUME NEW w \in Proc, Install(w)
        PROVE  \E u \in Proc : Evicting(u)'
    <2>1. pc'[w] = "check"
      BY <1>1, <1>9, Zenon DEF Install, ProcType
    <2> QED
      BY <2>1, Zenon DEF Evicting
  <1>10. ASSUME NEW w \in Proc, CheckCeiling(w)
         PROVE  \E u \in Proc : Evicting(u)'
    <2>1. currentBytes' = currentBytes /\ currentBytes \in Int
      BY <1>1, <1>10, Zenon DEF CheckCeiling, store, StoreType
    <2>2. pc' = [pc EXCEPT ![w] = "loop"]
      BY <1>2, <1>10, <2>1 DEF CheckCeiling
    <2>3. pc'[w] = "loop"
      BY <1>1, <2>2, Zenon DEF ProcType
    <2> QED
      BY <2>3, Zenon DEF Evicting
  <1>11. ASSUME NEW w \in Proc, EvictLoop(w)
         PROVE  \E u \in Proc : Evicting(u)'
    <2>1. currentBytes' = currentBytes
      BY <1>11, Zenon DEF EvictLoop, store
    <2>2. Evicting(w)'
      BY <1>1, <1>11, <2>1, EvictLoopWorks, Zenon
    <2> QED
      BY <2>2
  <1>12. ASSUME NEW w \in Proc, EvictScan(w)
         PROVE  \E u \in Proc : Evicting(u)'
    <2>1. Quiet
      BY <1>12, Zenon DEF EvictScan, store
    <2>2. \A u \in Proc \ {w} : pc'[u] = pc[u] /\ scan'[u] = scan[u]
      BY <1>1, <1>12, Zenon DEF EvictScan, ProcType
    <2>3. Evicting(w) => Evicting(w)'
      BY <1>1, <1>12, EvictScanWorks, Zenon
    <2> QED
      BY <1>4, <2>1, <2>2, <2>3, Zenon
  <1>13. ASSUME NEW w \in Proc, EvictVictim(w)
         PROVE  \E u \in Proc : Evicting(u)'
    <2>1. CASE Return(w) /\ UNCHANGED store
      <3>1. Quiet
        BY <1>13, <2>1, Zenon DEF EvictVictim, store
      <3>2. \A u \in Proc \ {w} : pc'[u] = pc[u] /\ scan'[u] = scan[u]
        BY <1>1, <2>1, Zenon DEF Return, ProcType
      <3>3. Evicting(w) => Evicting(w)'
        BY <1>1, <1>13, EvictVictimWorks, Zenon
      <3> QED
        BY <1>4, <3>1, <3>2, <3>3
    <2>2. CASE pc' = [pc EXCEPT ![w] = "recheck"] /\ scan' = [scan EXCEPT ![w].at = 0]
      <3>1. pc'[w] = "recheck" /\ scan'[w].at = 0
        BY <1>1, <2>2, ShapeAssumption, ScanMoveTyped DEF ProcType
      <3> QED
        BY <3>1 DEF Evicting
    <2> QED
      BY <1>13, <2>1, <2>2, Zenon DEF EvictVictim
  <1>14. ASSUME NEW w \in Proc, EvictRecheck(w)
         PROVE  \E u \in Proc : Evicting(u)'
    <2>1. Quiet
      BY <1>14, Zenon DEF EvictRecheck, store
    <2>2. \A u \in Proc \ {w} : pc'[u] = pc[u] /\ scan'[u] = scan[u]
      BY <1>1, <1>14, Zenon DEF EvictRecheck, Return, ProcType
    <2>3. currentBytes > 0 /\ Evicting(w) => Evicting(w)'
      BY <1>1, <1>14, EvictRecheckWorks, Zenon
    <2> QED
      BY <1>4, <2>1, <2>2, <2>3, Zenon
  <1>15. ASSUME NEW p \in Path, GetCurrent(p)
         PROVE  \E u \in Proc : Evicting(u)'
    BY <1>5, <1>15, Zenon DEF GetCurrent, ToFront
  <1>16. ASSUME NEW p \in Path, SweepEntry(p)
         PROVE  \E u \in Proc : Evicting(u)'
    <2>1. now' = now
      BY <1>16, Zenon DEF SweepEntry
    <2> QED
      BY <1>1, <1>3, <1>16, <2>1, NothingSwept, Zenon
  <1>17. CASE SweepStart \/ SweepNext \/ Tick \/ UNCHANGED vars
    <2>1. Quiet /\ UNCHANGED <<pc, scan>>
      BY <1>17 DEF SweepStart, SweepNext, Tick, vars, store
    <2> QED
      BY <1>5, <2>1, Zenon
  <1> QED
    BY <1>6, <1>7, <1>8, <1>9, <1>10, <1>11, <1>12, <1>13, <1>14, <1>15, <1>16,
       <1>17, Zenon DEF Next, AppendStep

-----------------------------------------------------------------------------
(* Type correctness of the sharded frontier.                               *)
THEOREM TypeCorrect == Spec => []TypeOK
  BY InitTyped, StepTyped, TypedIsTypeOK, PTL DEF Spec

(* sharded_frontier.go: however appends, evictions, sweeps and reads       *)
(* interleave, hashToPath, the LRU lists and entries agree, so GetAtom     *)
(* resolves exactly the resident atoms and no entry escapes eviction.      *)
THEOREM IndexesCoherent == Spec => []IndexCoherent
  <1>1. IInv => IndexCoherent
    BY DEF IInv
  <1> QED
    BY InitIInv, StepIInv, <1>1, PTL DEF Spec

(* sharded_frontier.go: s.bytes and currentBytes are exactly the cost of   *)
(* the resident entries, whatever replacements, evictions and sweeps there *)
(* were: none is charged or refunded twice, and none is forgotten.         *)
THEOREM AccountingExact == Spec => []BytesExact
  <1>1. IInv /\ BytesExact /\ [Next]_vars => (IInv /\ BytesExact)'
    BY StepIInv, StepExact, Zenon
  <1>2. Init => IInv /\ BytesExact
    BY InitIInv, InitExact
  <1> QED
    BY <1>1, <1>2, PTL DEF Spec

(* evictToTarget: when every append has returned, the memory in use is     *)
(* below the ceiling, unless a deadline has passed.  The limit must leave  *)
(* room between 80% and 90% (six bytes do); at five bytes an evictor that  *)
(* stops at its target can stop at the ceiling.                            *)
THEOREM CeilingKept == MaxMemory >= 6 /\ Spec => []CeilingHolds
  <1> SUFFICES ASSUME MaxMemory >= 6 PROVE Spec => []CeilingHolds
    OBVIOUS
  <1>1. Init => CeilingInv
    <2> SUFFICES ASSUME Init PROVE SweepsPast /\ EvictorAtWork
      BY InitIInv, InitExact, Zenon DEF CeilingInv
    <2>1. SweepsPast
      BY DEF Init, SweepsPast
    <2>2. EvictorAtWork
      BY CeilingAboveTarget DEF Init, EvictorAtWork
    <2> QED
      BY <2>1, <2>2
  <1>2. CeilingInv /\ [Next]_vars => CeilingInv'
    BY StepCeiling
  <1>3. CeilingInv => CeilingHolds
    <2> SUFFICES ASSUME CeilingInv, \A w \in Proc : pc[w] = "idle", NoneDue
                 PROVE  currentBytes < High
      BY Zenon DEF CeilingHolds, NoneDue
    <2>1. currentBytes \in Int /\ High \in Int
      BY CeilingAboveTarget, Zenon DEF CeilingInv, IInv, Typed, StoreType
    <2>2. ~(currentBytes >= High)
      BY DEF CeilingInv, EvictorAtWork, Evicting
    <2> QED
      BY <2>1, <2>2
  <1> QED
    BY <1>1, <1>2, <1>3, PTL DEF Spec
=============================================================================
