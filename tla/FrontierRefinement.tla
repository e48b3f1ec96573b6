------------------------- MODULE FrontierRefinement -------------------------
(***************************************************************************)
(* The sharded frontier implements LossyMap, and Guard 1 keeps each path's *)
(* clock from going back, for every value of the constants.                *)
(***************************************************************************)
EXTENDS FrontierProofs

(* A pending append that finds a later-issued resident was overtaken; one  *)
(* that is not pending has no mark left from an earlier append.            *)
OvertakenInv ==
  \A w \in Proc :
    /\ pc[w] # "lock" => overtaken[w] = FALSE
    /\ /\ pc[w] = "lock"
       /\ entries[job[w].path] # Absent
       /\ entries[job[w].path].clock > job[w].atom.clock
       => overtaken[w]

RInv == IInv /\ OvertakenInv

LEMMA InitRInv == Init => RInv
  BY InitIInv DEF Init, RInv, OvertakenInv

(* Return clears the mark of the goroutine that returns and no other.      *)
LEMMA ReturnOvertaken ==
  ASSUME ProcType, NEW w \in Proc, Return(w)
  PROVE  /\ pc'[w] = "idle" /\ overtaken'[w] = FALSE
         /\ \A v \in Proc \ {w} : /\ pc'[v] = pc[v]
                                  /\ job'[v] = job[v]
                                  /\ overtaken'[v] = overtaken[v]
  BY DEF ProcType, Return

(* A step that changes no goroutine at "lock", and no resident except by   *)
(* dropping it, keeps the marks right.                                     *)
LEMMA QuietOvertaken ==
  ASSUME RInv,
         \A v \in Proc : /\ pc'[v] # "lock" => overtaken'[v] = FALSE
                         /\ pc'[v] = "lock" => /\ pc[v] = "lock"
                                               /\ job'[v] = job[v]
                                               /\ overtaken'[v] = overtaken[v],
         \A p \in Path : entries'[p] \in {entries[p], Absent}
  PROVE  OvertakenInv'
  <1>1. ASSUME NEW v \in Proc, pc'[v] = "lock",
               entries'[job'[v].path] # Absent,
               entries'[job'[v].path].clock > job'[v].atom.clock
        PROVE  overtaken'[v]
    <2>1. job[v].path \in Path /\ job'[v] = job[v] /\ pc[v] = "lock"
      BY <1>1, JobTyped, Zenon DEF RInv, IInv, Typed
    <2> QED
      BY <1>1, <2>1, Zenon DEF RInv, OvertakenInv
  <1> QED
    BY <1>1 DEF OvertakenInv

LEMMA DropEntries ==
  ASSUME StoreType, NEW p \in Path, Drop(p)
  PROVE  \A q \in Path : entries'[q] \in {entries[q], Absent}
  BY DEF StoreType, Drop

(* Overtake marks every append to the same path that has yet to lock.      *)
LEMMA OvertakeMarks ==
  ASSUME ProcType, NEW w \in Proc, Overtake(w)
  PROVE  /\ overtaken'[w] = FALSE
         /\ \A v \in Proc \ {w} :
              overtaken'[v] = (\/ overtaken[v]
                               \/ pc[v] = "lock" /\ job[v].path = job[w].path)
  BY DEF ProcType, Overtake

LEMMA StepRInv == RInv /\ [Next]_vars => RInv'
  <1> SUFFICES ASSUME RInv, [Next]_vars
               PROVE  OvertakenInv'
    BY StepIInv DEF RInv
  <1>0. ProcType /\ StoreType /\ ClockType /\ ClocksUnique /\ OvertakenInv
    BY DEF RInv, IInv, Typed
  <1>1. ASSUME NEW w \in Proc, NEW p \in Path, NEW v \in Val, NEW x \in Deadline,
               Mint(w, p, v, x)
        PROVE  OvertakenInv'
    <2>1. /\ pc'[w] = "lock" /\ job'[w].path = p /\ job'[w].atom.clock = clock + 1
          /\ \A u \in Proc \ {w} : pc'[u] = pc[u] /\ job'[u] = job[u]
          /\ overtaken' = overtaken /\ entries' = entries
      BY <1>0, <1>1, Zenon DEF Mint, ProcType, store
    <2>2. entries[p] # Absent => /\ entries[p].clock <= clock
                                 /\ entries[p].clock \in Int
      BY <1>0, ShapeAssumption DEF ClocksUnique, Resident, StoreType, Atom
    <2>3. clock \in Int
      BY <1>0, ShapeAssumption DEF ClockType
    <2>4. entries'[job'[w].path] # Absent => ~(entries'[job'[w].path].clock > job'[w].atom.clock)
      BY <2>1, <2>2, <2>3
    <2> QED
      BY <1>0, <2>1, <2>4 DEF OvertakenInv
  <1>2. ASSUME NEW w \in Proc, Discard(w)
        PROVE  OvertakenInv'
    BY <1>0, <1>2, ReturnOvertaken, QuietOvertaken, ZenonT(30) DEF Discard, OvertakenInv, store
  <1>3. ASSUME NEW w \in Proc, Dedup(w)
        PROVE  OvertakenInv'
    <2>1. /\ pc'[w] = "idle" /\ entries' = entries
          /\ \A u \in Proc \ {w} : pc'[u] = pc[u] /\ job'[u] = job[u]
      BY <1>0, <1>3, Zenon DEF Dedup, ProcType
    <2>2. Overtake(w)
      BY <1>3 DEF Dedup
    <2> QED
      BY <1>0, <2>1, <2>2, OvertakeMarks, Zenon DEF OvertakenInv
  <1>4. ASSUME NEW w \in Proc, Install(w)
        PROVE  OvertakenInv'
    <2>1. /\ pc'[w] = "check" /\ job[w].path \in Path
          /\ \A u \in Proc \ {w} : pc'[u] = pc[u] /\ job'[u] = job[u]
      BY <1>0, <1>4, JobTyped, Zenon DEF Install, ProcType
    <2>2. Overtake(w)
      BY <1>4, Zenon DEF Install
    <2>3. \A q \in Path \ {job[w].path} : entries'[q] = entries[q]
      BY <1>4, <2>1, <1>0, Zenon DEF Install, StoreType
    <2>4. \A u \in Proc : pc[u] = "lock" => job[u].path \in Path
      BY <1>0, JobTyped
    <2>5. ASSUME NEW u \in Proc, pc'[u] # "lock"
          PROVE  overtaken'[u] = FALSE
      BY <1>0, <2>1, <2>2, <2>5, OvertakeMarks, Zenon DEF OvertakenInv, ProcType
    <2>6. ASSUME NEW u \in Proc, pc'[u] = "lock",
                 entries'[job'[u].path] # Absent,
                 entries'[job'[u].path].clock > job'[u].atom.clock
          PROVE  overtaken'[u]
      <3>1. u # w /\ pc[u] = "lock" /\ job'[u] = job[u] /\ job[u].path \in Path
        BY <2>1, <2>4, <2>6, Zenon
      <3>2. CASE job[u].path = job[w].path
        BY <1>0, <2>2, <3>1, <3>2, OvertakeMarks, Zenon
      <3>3. CASE job[u].path # job[w].path
        <4>1. overtaken[u]
          BY <1>0, <2>3, <2>6, <3>1, <3>3, Zenon DEF OvertakenInv
        <4> QED
          BY <1>0, <2>2, <3>1, <4>1, OvertakeMarks, Zenon
      <3> QED
        BY <3>2, <3>3, Zenon
    <2> QED
      BY <2>5, <2>6, Zenon DEF OvertakenInv
  <1>5. ASSUME NEW w \in Proc, CheckCeiling(w) \/ EvictLoop(w) \/ EvictRecheck(w)
        PROVE  OvertakenInv'
    <2>1. entries' = entries
      BY <1>5 DEF CheckCeiling, EvictLoop, EvictRecheck, store
    <2>2. CASE Return(w)
      BY <1>0, <2>1, <2>2, ReturnOvertaken, QuietOvertaken, ZenonT(30) DEF OvertakenInv
    <2>3. CASE ~Return(w)
      <3>1. /\ pc[w] # "lock" /\ pc'[w] # "lock"
            /\ job' = job /\ overtaken' = overtaken
            /\ \A u \in Proc \ {w} : pc'[u] = pc[u]
        BY <1>0, <1>5, <2>3, Zenon DEF CheckCeiling, EvictLoop, EvictRecheck, ProcType
      <3> QED
        BY <1>0, <2>1, <3>1, QuietOvertaken, Zenon DEF OvertakenInv
    <2> QED
      BY <2>2, <2>3, Zenon
  <1>6. ASSUME NEW w \in Proc, EvictVictim(w)
        PROVE  OvertakenInv'
    <2>1. \A q \in Path : entries'[q] \in {entries[q], Absent}
      BY <1>0, <1>6, DropEntries, Zenon DEF EvictVictim, store
    <2>2. CASE Return(w)
      BY <1>0, <2>1, <2>2, ReturnOvertaken, QuietOvertaken, ZenonT(30) DEF OvertakenInv
    <2>3. CASE ~Return(w)
      <3>1. /\ pc[w] # "lock" /\ pc'[w] # "lock"
            /\ job' = job /\ overtaken' = overtaken
            /\ \A u \in Proc \ {w} : pc'[u] = pc[u]
        BY <1>0, <1>6, <2>3, Zenon DEF EvictVictim, ProcType
      <3> QED
        BY <1>0, <2>1, <3>1, QuietOvertaken, Zenon DEF OvertakenInv
    <2> QED
      BY <2>2, <2>3
  <1>7. ASSUME NEW p \in Path, SweepEntry(p)
        PROVE  OvertakenInv'
    <2>1. \A q \in Path : entries'[q] \in {entries[q], Absent}
      BY <1>0, <1>7, DropEntries, Zenon DEF SweepEntry
    <2> QED
      BY <1>0, <1>7, <2>1, QuietOvertaken, Zenon DEF SweepEntry, OvertakenInv
  <1>8. ASSUME UNCHANGED <<entries, pc, job, overtaken>>
        PROVE  OvertakenInv'
    BY <1>0, <1>8 DEF OvertakenInv
  <1> QED
    BY <1>1, <1>2, <1>3, <1>4, <1>5, <1>6, <1>7, <1>8, Zenon
    DEF Next, AppendStep, EvictScan, GetCurrent, SweepStart, SweepNext, Tick, vars, store

(* Guard 1 of AppendAtom (sharded_frontier.go:103): while a path stays     *)
(* resident it never returns to an atom issued earlier.                    *)
THEOREM ClocksMonotone == Spec => ClockNeverGoesBack
  <1> DEFINE Mono == \A p \in Path : entries[p] # Absent /\ entries'[p] # Absent
                       => entries'[p].clock >= entries[p].clock
  <1>1. IInv /\ [Next]_vars => [Mono]_vars
    <2> SUFFICES ASSUME IInv, [Next]_vars, NEW p \in Path,
                        entries[p] # Absent, entries'[p] # Absent
                 PROVE  entries'[p].clock >= entries[p].clock
      BY DEF Mono
    <2>0. ProcType /\ StoreType /\ entries[p].clock \in Int
      BY ShapeAssumption DEF IInv, Typed, StoreType, Atom
    <2>1. ASSUME NEW w \in Proc, Install(w)
          PROVE  entries'[p].clock >= entries[p].clock
      <3>1. job[w].path \in Path /\ job[w].atom.clock \in Int
        <4>1. pc[w] = "lock"
          BY <2>1, Zenon DEF Install
        <4> QED
          BY <2>0, <4>1, JobTyped, ShapeAssumption DEF Atom
      <3>2. CASE p = job[w].path
        <4>1. ~(entries[p].clock > job[w].atom.clock)
          BY <2>1, <3>2, Zenon DEF Install, IssuedLater
        <4>2. entries'[p] = job[w].atom
          BY <2>0, <2>1, <3>2, Zenon DEF Install, StoreType
        <4> QED
          BY <2>0, <3>1, <4>1, <4>2
      <3>3. CASE p # job[w].path
        <4>1. entries'[p] = entries[p]
          BY <2>0, <2>1, <3>3 DEF Install, StoreType
        <4> QED
          BY <2>0, <4>1
      <3> QED
        BY <3>2, <3>3, Zenon
    <2>2. ASSUME entries'[p] = entries[p]
          PROVE  entries'[p].clock >= entries[p].clock
      BY <2>0, <2>2
    <2>3. ASSUME NEW w \in Proc, EvictVictim(w)
          PROVE  entries'[p] = entries[p]
      BY <2>0, <2>3, DropEntries, Zenon DEF EvictVictim, store
    <2>4. ASSUME NEW q \in Path, SweepEntry(q)
          PROVE  entries'[p] = entries[p]
      BY <2>0, <2>4, DropEntries DEF SweepEntry
    <2> QED
      BY <2>1, <2>2, <2>3, <2>4, Zenon
      DEF Next, AppendStep, Mint, Discard, Dedup, CheckCeiling, EvictLoop, EvictScan,
          EvictRecheck, GetCurrent, SweepStart, SweepNext, Tick, vars, store
  <1> QED
    BY <1>1, InitIInv, StepIInv, PTL DEF Spec, ClockNeverGoesBack

-----------------------------------------------------------------------------
(* The refinement.  What a path shows depends on its entry and the time.   *)
Shown(e, t) == IF e = Absent \/ Expired(e, t) THEN Absent ELSE ContentOf(e)

LEMMA ShownValue ==
  /\ shownValue = [p \in Path |-> Shown(entries[p], now)]
  /\ shownValue' = [p \in Path |-> Shown(entries'[p], now')]
  BY DEF shownValue, Shown, Visible

LEMMA InitRefines == Init => Map!Init
  BY DEF Init, Map!Init, shownValue, pendingWrite, Visible

(* Entries that are kept or dropped while time does not go back: nothing   *)
(* is shown that was not shown before.                                     *)
LEMMA LoseStep ==
  ASSUME RInv, UNCHANGED <<pendingWrite, overtaken>>,
         \A p \in Path : entries'[p] \in {entries[p], Absent},
         now' \in {now, now + 1}
  PROVE  Map!Next
  <1> DEFINE S == {p \in Path : shownValue'[p] = Absent}
  <1>1. ASSUME NEW p \in Path, shownValue'[p] # Absent
        PROVE  shownValue'[p] = shownValue[p]
    <2>1. entries'[p] = entries[p] /\ entries[p] # Absent /\ ~Expired(entries[p], now')
      BY <1>1, ShownValue, Zenon DEF Shown
    <2>2. entries[p].exp \in Int /\ now \in Int
      <3>1. entries[p] \in Atom /\ now \in 1..MaxTime
        BY <2>1 DEF RInv, IInv, Typed, StoreType, ClockType
      <3>2. entries[p].exp \in 0..MaxTime
        BY <3>1, ShapeAssumption, Zenon DEF Atom
      <3> QED
        BY <3>1, <3>2, ShapeAssumption
    <2>3. ~Expired(entries[p], now)
      BY <2>1, <2>2 DEF Expired
    <2> QED
      BY <2>1, <2>3, ShownValue, Zenon DEF Shown
  <1>2. shownValue' = [p \in Path |-> IF p \in S THEN Absent ELSE shownValue[p]]
    <2>1. shownValue' = [p \in Path |-> shownValue'[p]]
      BY ShownValue
    <2> QED
      BY <1>1, <2>1
  <1>3. Map!Lose(S)
    BY <1>2 DEF Map!Lose
  <1> HIDE DEF S
  <1>4. S \subseteq Path
    BY DEF S
  <1> QED
    BY <1>3, <1>4 DEF Map!Next

LEMMA PendingIsWrite ==
  ASSUME RInv
  PROVE  \A w \in Proc : pendingWrite[w] # Absent <=> pc[w] = "lock"
  <1>1. ASSUME NEW w \in Proc, pc[w] = "lock"
        PROVE  pendingWrite[w] \in [path : Path, content : Content]
    <2>1. job[w].path \in Path /\ job[w].atom \in Atom
      BY <1>1, JobTyped DEF RInv, IInv, Typed
    <2>2. ContentOf(job[w].atom) \in Content
      BY <2>1 DEF Atom, Content, ContentOf
    <2> QED
      BY <1>1, <2>1, <2>2 DEF pendingWrite
  <1>2. \A w \in Proc : pc[w] # "lock" => pendingWrite[w] = Absent
    BY Zenon DEF pendingWrite
  <1> QED
    BY <1>1, <1>2, ShapeAssumption, Zenon

(* The locked section of an append that writes or deduplicates.            *)
LEMMA ApplyStep ==
  ASSUME RInv, NEW w \in Proc, pc[w] = "lock", pc'[w] # "lock", Overtake(w),
         \A v \in Proc \ {w} : pc'[v] = pc[v] /\ job'[v] = job[v],
         now' = now,
         entries'[job[w].path] # Absent,
         \/ entries'[job[w].path] = job[w].atom
         \/ /\ entries'[job[w].path] = entries[job[w].path]
            /\ <<ContentOf(entries[job[w].path]), ContentOf(job[w].atom)>> \in Alike,
         \A p \in Path \ {job[w].path} : entries'[p] = entries[p]
  PROVE  Map!Apply(w)
  <1>1. job[w].path \in Path
    BY JobTyped, Zenon DEF RInv, IInv, Typed
  <1>2. pendingWrite[w] = [path |-> job[w].path, content |-> ContentOf(job[w].atom)]
    BY DEF pendingWrite
  <1>3. \A v \in Proc : pendingWrite[v] # Absent <=> pc[v] = "lock"
    BY PendingIsWrite
  <1>4. shownValue' = [shownValue EXCEPT ![job[w].path] = shownValue'[job[w].path]]
    BY <1>1, ShownValue, Zenon
  <1>5. \/ shownValue'[job[w].path] \in {ContentOf(job[w].atom), Absent}
        \/ /\ shownValue'[job[w].path] = shownValue[job[w].path]
           /\ <<shownValue'[job[w].path], ContentOf(job[w].atom)>> \in Alike
    <2>1. CASE entries'[job[w].path] = job[w].atom
      BY <1>1, <2>1, ShownValue, Zenon DEF Shown
    <2>2. CASE entries'[job[w].path] # job[w].atom
      BY <1>1, <2>2, ShownValue, Zenon DEF Shown
    <2> QED
      BY <2>1, <2>2, Zenon
  <1>6. pendingWrite' = [pendingWrite EXCEPT ![w] = Absent]
    BY ZenonT(30) DEF pendingWrite
  <1>7. overtaken' = [x \in Proc |->
                        /\ x # w
                        /\ \/ overtaken[x]
                           \/ /\ pendingWrite[x] # Absent
                              /\ pendingWrite[x].path = pendingWrite[w].path]
    <2>1. \A x \in Proc : pc[x] = "lock" => pendingWrite[x].path = job[x].path
      BY Zenon DEF pendingWrite
    <2>2. overtaken \in [Proc -> BOOLEAN]
      BY DEF RInv, IInv, Typed, ProcType
    <2> QED
      BY <1>3, <2>1, <2>2 DEF Overtake
  <1>8. /\ pendingWrite[w].path = job[w].path
        /\ pendingWrite[w].content = ContentOf(job[w].atom)
    BY <1>2
  <1> QED
    BY <1>3, <1>4, <1>5, <1>6, <1>7, <1>8, Zenon DEF Map!Apply

(* Guard 1: the discarded append was overtaken.                            *)
LEMMA SkipStep ==
  ASSUME RInv, NEW w \in Proc, Discard(w)
  PROVE  Map!Skip(w)
  <1>1. overtaken[w] /\ pendingWrite[w] # Absent
    BY PendingIsWrite, Zenon DEF RInv, OvertakenInv, Discard, IssuedLater
  <1>2. shownValue' = shownValue
    BY ShownValue DEF Discard, store
  <1>3. pendingWrite' = [pendingWrite EXCEPT ![w] = Absent]
    BY Zenon DEF Discard, Return, pendingWrite, RInv, IInv, Typed, ProcType
  <1> QED
    BY <1>1, <1>2, <1>3 DEF Map!Skip, Discard, Return

(* Nothing shown, pending or overtaken changes.                            *)
LEMMA StutterStep ==
  ASSUME UNCHANGED <<entries, now, overtaken>>, UNCHANGED pendingWrite
  PROVE  UNCHANGED Map!vars
  BY ShownValue, Zenon DEF Map!vars

(* A goroutine that is not at "lock", before or after a step that touches  *)
(* no other, has no part in what is pending.                               *)
LEMMA PendingSame ==
  ASSUME NEW w \in Proc, pc[w] # "lock", pc'[w] # "lock",
         \A v \in Proc \ {w} : pc'[v] = pc[v] /\ job'[v] = job[v]
  PROVE  pendingWrite' = pendingWrite
  BY DEF pendingWrite

(* The same, for the steps of evictToTarget.                               *)
LEMMA EvictPending ==
  ASSUME ProcType, NEW w \in Proc, pc[w] # "lock", overtaken[w] = FALSE,
         \/ Return(w)
         \/ /\ pc' = pc \/ \E l \in {"loop", "scan", "recheck"} : pc' = [pc EXCEPT ![w] = l]
            /\ UNCHANGED <<job, overtaken>>
  PROVE  pendingWrite' = pendingWrite /\ overtaken' = overtaken
  <1>1. CASE Return(w)
    <2>1. overtaken' = overtaken
      BY <1>1 DEF Return, ProcType
    <2> QED
      BY <1>1, <2>1, ReturnOvertaken, PendingSame, Zenon
  <1>2. CASE ~Return(w)
    <2>1. pc'[w] # "lock" /\ \A v \in Proc \ {w} : pc'[v] = pc[v]
      BY <1>2, Zenon DEF ProcType
    <2> QED
      BY <1>2, <2>1, PendingSame, Zenon
  <1> QED
    BY <1>1, <1>2

(* Guard 2 compares the deadline and the serialized bytes.                 *)
LEMMA DedupAlike ==
  ASSUME NEW a \in Atom, NEW b \in Atom, SameAtomContent(a, b)
  PROVE  <<ContentOf(a), ContentOf(b)>> \in Alike
  <1>1. ContentOf(a) \in Content /\ ContentOf(b) \in Content
    BY DEF Atom, Content, ContentOf
  <1> QED
    BY <1>1 DEF SameAtomContent, Alike, ContentOf

LEMMA StepRefines ==
  ASSUME RInv, [Next]_vars
  PROVE  Map!Next \/ UNCHANGED Map!vars
  <1>0. ProcType /\ StoreType
    BY DEF RInv, IInv, Typed
  <1>1. ASSUME NEW w \in Proc, NEW p \in Path, NEW v \in Val, NEW x \in Deadline,
               Mint(w, p, v, x)
        PROVE  Map!Next
    <2>1. [val |-> v, exp |-> x] \in Content
      BY DEF Content
    <2>2. pc[w] = "idle" /\ pendingWrite[w] = Absent
      BY <1>1 DEF Mint, pendingWrite
    <2>3. pendingWrite' = [pendingWrite EXCEPT ![w] =
                             [path |-> p, content |-> [val |-> v, exp |-> x]]]
      BY <1>0, <1>1, Zenon DEF Mint, pendingWrite, ContentOf, ProcType
    <2>4. shownValue' = shownValue
      BY <1>1, ShownValue, Zenon DEF Mint, store
    <2>5. overtaken' = [overtaken EXCEPT ![w] = FALSE]
      BY <1>0, <1>1, <2>2, Zenon DEF Mint, RInv, OvertakenInv, ProcType
    <2> QED
      BY <2>1, <2>2, <2>3, <2>4, <2>5, Zenon DEF Map!Begin, Map!Next
  <1>2. ASSUME NEW w \in Proc, Discard(w)
        PROVE  Map!Next
    BY <1>2, SkipStep, Zenon DEF Map!Next
  <1>3. ASSUME NEW w \in Proc, Dedup(w)
        PROVE  Map!Next
    <2> DEFINE p == job[w].path
    <2>1. p \in Path /\ job[w].atom \in Atom /\ pc[w] = "lock"
      BY <1>0, <1>3, JobTyped, ZenonT(30) DEF Dedup
    <2>2. entries' = entries /\ entries[p] # Absent /\ now' = now /\ Overtake(w)
      BY <1>3, Zenon DEF Dedup
    <2>3. <<ContentOf(entries[p]), ContentOf(job[w].atom)>> \in Alike
      <3>1. entries[p] \in Atom
        BY <1>0, <2>1, <2>2, Zenon DEF StoreType
      <3>2. SameAtomContent(entries[p], job[w].atom)
        BY <1>3, Zenon DEF Dedup
      <3> QED
        BY <2>1, <3>1, <3>2, DedupAlike, Zenon
    <2>4. pc'[w] # "lock" /\ \A v \in Proc \ {w} : pc'[v] = pc[v] /\ job'[v] = job[v]
      BY <1>0, <1>3, Zenon DEF Dedup, ProcType
    <2> QED
      BY <2>1, <2>2, <2>3, <2>4, ApplyStep, Zenon DEF Map!Next
  <1>4. ASSUME NEW w \in Proc, Install(w)
        PROVE  Map!Next
    <2> DEFINE p == job[w].path
    <2>1. p \in Path /\ job[w].atom \in Atom /\ pc[w] = "lock"
      BY <1>0, <1>4, JobTyped, Zenon DEF Install
    <2>2. entries' = [entries EXCEPT ![p] = job[w].atom] /\ now' = now /\ Overtake(w)
      BY <1>4, Zenon DEF Install
    <2>3. /\ entries'[p] = job[w].atom
          /\ \A q \in Path \ {p} : entries'[q] = entries[q]
      BY <1>0, <2>1, <2>2, Zenon DEF StoreType
    <2>4. entries'[p] # Absent
      BY <2>1, <2>3, ShapeAssumption, Zenon
    <2>5. pc'[w] # "lock" /\ \A v \in Proc \ {w} : pc'[v] = pc[v] /\ job'[v] = job[v]
      BY <1>0, <1>4 DEF Install, ProcType
    <2> QED
      BY <2>1, <2>2, <2>3, <2>4, <2>5, ApplyStep, Zenon DEF Map!Next
  <1>5. ASSUME NEW w \in Proc,
               CheckCeiling(w) \/ EvictLoop(w) \/ EvictScan(w) \/ EvictRecheck(w)
        PROVE  UNCHANGED Map!vars
    <2>1. pc[w] # "lock" /\ overtaken[w] = FALSE
      BY <1>5, Zenon DEF CheckCeiling, EvictLoop, EvictScan, EvictRecheck, RInv, OvertakenInv
    <2>2. UNCHANGED <<entries, now>>
      BY <1>5 DEF CheckCeiling, EvictLoop, EvictScan, EvictRecheck, store
    <2>3. pendingWrite' = pendingWrite /\ overtaken' = overtaken
      BY <1>0, <1>5, <2>1, EvictPending, Zenon
      DEF CheckCeiling, EvictLoop, EvictScan, EvictRecheck
    <2> QED
      BY <2>2, <2>3, StutterStep, Zenon
  <1>6. ASSUME NEW w \in Proc, EvictVictim(w)
        PROVE  Map!Next
    <2>1. pc[w] # "lock" /\ overtaken[w] = FALSE /\ now' = now
      BY <1>6 DEF EvictVictim, RInv, OvertakenInv
    <2>2. pendingWrite' = pendingWrite /\ overtaken' = overtaken
      BY <1>0, <1>6, <2>1, EvictPending, Zenon DEF EvictVictim
    <2>3. \A q \in Path : entries'[q] \in {entries[q], Absent}
      BY <1>0, <1>6, DropEntries, Zenon DEF EvictVictim, store
    <2> QED
      BY <2>1, <2>2, <2>3, LoseStep, Zenon
  <1>7. ASSUME NEW p \in Path, SweepEntry(p)
        PROVE  Map!Next
    <2>1. \A q \in Path : entries'[q] \in {entries[q], Absent}
      BY <1>0, <1>7, DropEntries DEF SweepEntry
    <2>2. pendingWrite' = pendingWrite /\ overtaken' = overtaken /\ now' = now
      BY <1>7, Zenon DEF SweepEntry, pendingWrite
    <2> QED
      BY <2>1, <2>2, LoseStep, Zenon
  <1>8. ASSUME Tick
        PROVE  Map!Next
    BY <1>8, LoseStep, Zenon DEF Tick, store, pendingWrite
  <1>9. ASSUME UNCHANGED <<entries, now, pc, job, overtaken>>
        PROVE  UNCHANGED Map!vars
    BY <1>9, StutterStep DEF pendingWrite
  <1> QED
    BY <1>1, <1>2, <1>3, <1>4, <1>5, <1>6, <1>7, <1>8, <1>9, Zenon
    DEF Next, AppendStep, GetCurrent, SweepStart, SweepNext, vars, store

(* sharded_frontier.go, AppendAtom, GetCurrent, evictToTarget and          *)
(* sweepExpired together implement the linearizable lossy map, whatever    *)
(* bytes Serialize gives to a value: the only write that takes effect      *)
(* without being shown is one Guard 2 (:111) merges into a resident with   *)
(* its deadline and its bytes.                                             *)
THEOREM FrontierRefinesLossyMap == Spec => RefinesLossyMap
  <1>1. RInv /\ [Next]_vars => [Map!Next]_(Map!vars)
    BY StepRefines
  <1> QED
    BY <1>1, InitRefines, InitRInv, StepRInv, PTL DEF Spec, RefinesLossyMap, Map!Spec
=============================================================================
