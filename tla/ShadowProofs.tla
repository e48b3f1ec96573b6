---------------------------- MODULE ShadowProofs ----------------------------
(***************************************************************************)
(* Proofs about Shadow, for any number of comparers, sweeps and keys.      *)
(***************************************************************************)
EXTENDS Shadow, FiniteSets, TLAPS

LockFile == [pid : Pid, hb : 0..MaxTime \cup {Blank}]

(* Before any takeover the lock file names its owner.                      *)
LockNamesOwner ==
  ~took =>
    \A p \in Proc :
      /\ pc[p] \notin {"take", "install"}
      /\ Owns(p) => lock # None /\ lock.pid = p
      /\ pc[p] = "publish" => tmp # None /\ tmp.pid = p

LockInv == LockTypeOK /\ LockNamesOwner

LEMMA FileFacts ==
  /\ None \notin LockFile
  /\ File \subseteq LockFile
  /\ \A p \in Proc : [pid |-> p, hb |-> Blank] \in LockFile
  /\ \A p \in Proc, t \in 0..MaxTime : [pid |-> p, hb |-> t] \in File
BY LockAssumption DEF LockFile, File, Pid

LEMMA LockInitially == Init => LockInv
<1> SUFFICES ASSUME Init PROVE LockInv
  OBVIOUS
<1> USE LockAssumption DEF Init, LockInit
<1>1. LockTypeOK
  <2>1. lock \in [pid : Pid, hb : 0..MaxTime \cup {Blank}] \cup {None} /\ now \in 0..MaxTime
    BY DEF Pid
  <2>2. tmp = None /\ pc \in [Proc -> {"off"}] /\ seen \in [Proc -> File \cup {None}]
    OBVIOUS
  <2>3. born \in [Proc -> 0..MaxTime]
    OBVIOUS
  <2>4. took \in BOOLEAN
    BY Zenon
  <2> QED BY <2>1, <2>2, <2>3, <2>4 DEF LockTypeOK
<1>2. LockNamesOwner
  BY Zenon DEF LockNamesOwner, Owns, Working
<1> QED BY <1>1, <1>2 DEF LockInv

(* A step that only moves a comparer on preserves the invariant, unless it *)
(* makes an owner or a taker of it.                                        *)
LEMMA MovePreserves ==
  ASSUME LockInv, NEW p \in Proc, NEW l \in Acquiring \cup Working \cup {"off", "refused", "gone"},
         Goto(p, l), UNCHANGED <<lock, tmp, now, born, seen, took>>,
         l \notin {"take", "install", "publish"},
         l \in Working \cup {"fill"} => Owns(p)
  PROVE  LockInv'
<1>1. LockTypeOK'
  BY DEF LockInv, LockTypeOK, Goto
<1>2. LockNamesOwner'
  BY DEF LockInv, LockTypeOK, LockNamesOwner, Owns, Goto
<1> QED BY <1>1, <1>2 DEF LockInv

(* The steps of acquireLock, of the heartbeat and of the release.          *)
LEMMA LockStepPreserves ==
  ASSUME LockInv, NEW p \in Proc,
         \/ Start(p) \/ AcquireStep(p) \/ BeatWrite(p) \/ BeatRename(p) \/ BeatFails(p)
         \/ Release(p) \/ Die(p)
  PROVE  LockInv'
<1> USE FileFacts
<1>1. CASE Start(p)
  <2>1. LockTypeOK'
    BY <1>1 DEF Start, Goto, LockInv, LockTypeOK, Acquiring
  <2>2. LockNamesOwner'
    BY <1>1 DEF Start, Goto, LockInv, LockTypeOK, LockNamesOwner, Owns, Working
  <2> QED BY <2>1, <2>2 DEF LockInv
<1>2. CASE Create(p)
  <2>1. LockTypeOK'
    BY <1>2 DEF Create, Goto, LockInv, LockTypeOK, Acquiring, LockFile
  <2>2. LockNamesOwner'
    BY <1>2 DEF Create, Goto, LockInv, LockTypeOK, LockNamesOwner, Owns, Working, LockFile
  <2> QED BY <2>1, <2>2 DEF LockInv
<1>3. CASE Fill(p)
  <2>1. lock' = lock \/ (lock' = [pid |-> p, hb |-> born[p]] /\ born[p] \in 0..MaxTime)
    BY <1>3 DEF Fill, LockInv, LockTypeOK
  <2>2. lock' \in LockFile \cup {None} /\ (lock # None /\ lock.pid = p => lock' # None /\ lock'.pid = p)
    BY <2>1 DEF LockInv, LockTypeOK, LockFile
  <2>3. LockTypeOK'
    BY <1>3, <2>2 DEF Fill, Goto, LockInv, LockTypeOK, Working, LockFile
  <2>4. LockNamesOwner'
    BY <1>3, <2>2 DEF Fill, Goto, LockInv, LockTypeOK, LockNamesOwner, Owns, Working
  <2> QED BY <2>3, <2>4 DEF LockInv
<1>4. CASE OpenFails(p)
  BY <1>4, MovePreserves DEF OpenFails, Acquiring, Working
<1>5. CASE ReadLock(p)
  <2>1. lock \in File
    BY <1>5 DEF ReadLock, Readable, LockInv, LockTypeOK, File
  <2>2. LockTypeOK'
    BY <1>5, <2>1 DEF ReadLock, Goto, LockInv, LockTypeOK, Acquiring
  <2>3. LockNamesOwner'
    BY <1>5 DEF ReadLock, Goto, LockInv, LockTypeOK, LockNamesOwner, Owns, Working
  <2> QED BY <2>2, <2>3 DEF LockInv
<1>6. CASE GiveUp(p)
  BY <1>6, MovePreserves DEF GiveUp, Acquiring, Working
<1>7. CASE Decide(p)
  <2>1. LockTypeOK'
    BY <1>7, Zenon DEF Decide, Goto, LockInv, LockTypeOK, Acquiring
  <2>2. LockNamesOwner'
    BY <1>7 DEF Decide, Goto, LockInv, LockTypeOK, LockNamesOwner, Owns, Working
  <2> QED BY <2>1, <2>2 DEF LockInv
<1>8. CASE TakeWrite(p)
  <2>1. LockTypeOK'
    BY <1>8 DEF TakeWrite, Goto, LockInv, LockTypeOK, Acquiring
  <2>2. LockNamesOwner'
    BY <1>8 DEF TakeWrite, LockInv, LockNamesOwner
  <2> QED BY <2>1, <2>2 DEF LockInv
<1>9. CASE TakeRename(p)
  <2>1. LockTypeOK'
    BY <1>9 DEF TakeRename, Rename, Goto, LockInv, LockTypeOK, Working, LockFile
  <2>2. LockNamesOwner'
    BY <1>9 DEF TakeRename, LockInv, LockNamesOwner
  <2> QED BY <2>1, <2>2 DEF LockInv
<1>10. CASE TakeFails(p)
  BY <1>10, MovePreserves DEF TakeFails, Acquiring, Working
<1>11. CASE BeatWrite(p)
  <2>1. LockTypeOK'
    BY <1>11 DEF BeatWrite, Goto, LockInv, LockTypeOK, Working
  <2>2. tmp' # None /\ tmp'.pid = p
    BY <1>11 DEF BeatWrite, LockInv, LockTypeOK, LockFile
  <2>3. LockNamesOwner'
    BY <1>11, <2>2 DEF BeatWrite, Goto, LockInv, LockTypeOK, LockNamesOwner, Owns, Working
  <2> QED BY <2>1, <2>3 DEF LockInv
<1>12. CASE BeatRename(p)
  <2>1. LockTypeOK'
    BY <1>12 DEF BeatRename, Rename, Goto, LockInv, LockTypeOK, Working, LockFile
  <2>2. ~took => lock' # None /\ lock'.pid = p /\ lock # None /\ lock.pid = p
    BY <1>12 DEF BeatRename, Rename, LockInv, LockNamesOwner, Owns, Working
  <2>3. LockNamesOwner'
    BY <1>12, <2>2 DEF BeatRename, Goto, LockInv, LockTypeOK, LockNamesOwner, Owns, Working
  <2> QED BY <2>1, <2>3 DEF LockInv
<1>13. CASE BeatFails(p)
  BY <1>13, MovePreserves DEF BeatFails, Owns, Acquiring, Working
<1>14. CASE Release(p)
  <2>1. LockTypeOK'
    BY <1>14 DEF Release, Goto, LockInv, LockTypeOK
  <2>2. LockNamesOwner'
    BY <1>14 DEF Release, Goto, LockInv, LockTypeOK, LockNamesOwner, Owns, Working
  <2> QED BY <2>1, <2>2 DEF LockInv
<1>15. CASE Die(p)
  BY <1>15, MovePreserves DEF Die, Acquiring, Working
<1> QED
  BY <1>1, <1>2, <1>3, <1>4, <1>5, <1>6, <1>7, <1>8, <1>9, <1>10, <1>11, <1>12, <1>13, <1>14, <1>15
     DEF AcquireStep

LEMMA LockNextPreserves == LockInv /\ [Next]_vars => LockInv'
<1> SUFFICES ASSUME LockInv, [Next]_vars PROVE LockInv'
  OBVIOUS
<1>1. ASSUME NEW p \in Proc,
             \/ Start(p) \/ Acquire(p) \/ Heartbeat(p) \/ Release(p) \/ Die(p)
      PROVE  LockInv'
  BY <1>1, LockStepPreserves DEF Acquire, Heartbeat
<1>2. ASSUME NEW p \in Proc,
             \/ SweepStart(p) \/ SweepDone(p) \/ SweepTimeout(p) \/ CheckDeadline(p)
             \/ Again(p) \/ TakeSignal(p) \/ LoadCompared(p) \/ WriteReport(p)
      PROVE  LockInv'
  BY <1>2, MovePreserves
     DEF SweepStart, SweepDone, SweepTimeout, CheckDeadline, Again, TakeSignal, LoadCompared,
         WriteReport, MoveTo, Owns, Working
<1>3. CASE UNCHANGED lockVars
  BY <1>3 DEF LockInv, LockTypeOK, LockNamesOwner, Owns, lockVars
<1>4. ASSUME NEW p \in Proc, Worker(p) \/ Signal(p)
      PROVE  LockInv'
  BY <1>3, <1>4, Zenon DEF Worker, ListKeys, Compare, CountMismatch, Signal
<1>5. CASE Tick
  <2>1. LockTypeOK'
    BY <1>5, LockAssumption DEF Tick, LockInv, LockTypeOK
  <2>2. LockNamesOwner'
    BY <1>5 DEF Tick, LockInv, LockNamesOwner, Owns
  <2> QED BY <2>1, <2>2 DEF LockInv
<1>6. CASE UNCHANGED vars
  BY <1>3, <1>6 DEF vars
<1> QED BY <1>1, <1>2, <1>4, <1>5, <1>6 DEF Next, Loop

LEMMA LockInvariant == Spec => []LockInv
BY LockInitially, LockNextPreserves, PTL DEF Spec

(* Until a lock is taken over, at most one comparer believes that it owns  *)
(* the report (acquireLock's exclusive create), whoever crashes and        *)
(* whatever is left behind: the lock file names its owner, so it is there  *)
(* as long as the owner works, and nobody can create it a second time.     *)
THEOREM ExclusiveUntilTakeover == Spec => []OneOwnerUntilTakeover
<1>1. LockInv => OneOwnerUntilTakeover
  BY DEF LockInv, LockNamesOwner, OneOwnerUntilTakeover, OneOwner
<1> QED BY <1>1, LockInvariant, PTL

-----------------------------------------------------------------------------
(* The report.                                                             *)

Label == Acquiring \cup Working \cup {"off", "refused", "gone"}

Job == [pc : {"none", "keys", "get", "differ", "done"}, left : Int]

Memory(p) ==
  [sweeps : Nat, compared : Nat, mismatches : Nat, sweepTimeouts : Nat, loaded : Nat,
   sig : BOOLEAN, differed : Nat,
   work : [1..MaxSweeps[p] -> Job]]

(* Without a timeout a goroutine is at work only while its sweep waits for *)
(* it, and a difference is counted but for the one it is about to count.   *)
Counted(p, m, l) ==
  m.sweepTimeouts = 0 =>
    /\ \A s \in 1..MaxSweeps[p] :
         m.work[s].pc \in {"keys", "get", "differ"} => s = m.sweeps /\ l = "sweep"
    /\ (\E s \in 1..MaxSweeps[p] : m.work[s].pc = "differ") => m.differed = m.mismatches + 1
    /\ (\A s \in 1..MaxSweeps[p] : m.work[s].pc # "differ") => m.differed = m.mismatches
    /\ m.differed <= m.compared
    /\ l = "report" => m.loaded = m.compared

ReportInv ==
  /\ pc \in [Proc -> Label]
  /\ mem = [p \in Proc |-> mem[p]]
  /\ \A p \in Proc : mem[p] \in Memory(p) /\ Counted(p, mem[p], pc[p])

LEMMA FreshMemory ==
  ASSUME NEW p \in Proc, NEW l \in Label \ {"report"}
  PROVE  Fresh0(p) \in Memory(p) /\ Counted(p, Fresh0(p), l)
<1>1. MaxSweeps[p] \in Nat
  BY ShadowAssumption
<1>2. Fresh0(p) \in Memory(p)
  BY <1>1 DEF Fresh0, Memory, Job
<1>3. Counted(p, Fresh0(p), l)
  BY <1>1 DEF Fresh0, Counted
<1> QED BY <1>2, <1>3

(* Every difference is counted.                                            *)
LEMMA AllCounted ==
  ASSUME NEW p \in Proc, NEW m, NEW l,
         \A s \in 1..MaxSweeps[p] : /\ m.work[s].pc # "differ"
                                    /\ m.work[s].pc \in {"keys", "get"} => s = m.sweeps /\ l = "sweep",
         m.differed = m.mismatches, m.differed <= m.compared,
         l = "report" => m.loaded = m.compared
  PROVE  Counted(p, m, l)
BY DEF Counted

(* Counted depends on the counters and on which goroutines are at work.    *)
LEMMA SameCounts ==
  ASSUME NEW p \in Proc, NEW m, NEW m2, NEW l, Counted(p, m, l),
         m2.sweepTimeouts = m.sweepTimeouts, m2.sweeps = m.sweeps, m2.differed = m.differed,
         m2.mismatches = m.mismatches, m2.compared = m.compared, m2.loaded = m.loaded,
         \A s \in 1..MaxSweeps[p] :
           /\ m2.work[s].pc = "differ" <=> m.work[s].pc = "differ"
           /\ m2.work[s].pc \in {"keys", "get", "differ"} => m.work[s].pc \in {"keys", "get", "differ"}
  PROVE  Counted(p, m2, l)
BY DEF Counted

(* What a step of p does to p is all it does.                              *)
LEMMA OneProcess ==
  ASSUME ReportInv, NEW p \in Proc, NEW m \in Memory(p), NEW l \in Label,
         mem' = [mem EXCEPT ![p] = m], pc' = [pc EXCEPT ![p] = l], Counted(p, m, l)
  PROVE  ReportInv'
<1>1. pc' \in [Proc -> Label] /\ mem' = [q \in Proc |-> mem'[q]]
  BY DEF ReportInv
<1>2. ASSUME NEW q \in Proc
      PROVE  mem'[q] \in Memory(q) /\ Counted(q, mem'[q], pc'[q])
  <2>1. CASE q = p
    BY <2>1 DEF ReportInv
  <2>2. CASE q # p
    BY <2>2 DEF ReportInv
  <2> QED BY <2>1, <2>2
<1> QED BY <1>1, <1>2 DEF ReportInv

LEMMA MoveCounted ==
  ASSUME ReportInv, NEW p \in Proc, NEW l \in Label \ {"report"},
         UNCHANGED mem, Goto(p, l),
         pc[p] = "sweep" /\ mem[p].sweepTimeouts = 0 =>
           mem[p].work[mem[p].sweeps].pc \notin {"keys", "get", "differ"}
  PROVE  ReportInv'
<1>1. mem[p] \in Memory(p) /\ Counted(p, mem[p], l)
  BY DEF ReportInv, Counted
<1>2. mem' = [mem EXCEPT ![p] = mem[p]] /\ pc' = [pc EXCEPT ![p] = l]
  BY DEF ReportInv, Goto
<1> QED BY <1>1, <1>2, OneProcess, Zenon

LEMMA ForgetCounted ==
  ASSUME ReportInv, NEW p \in Proc, NEW l \in Label \ {"report"}, Forget(p), Goto(p, l)
  PROVE  ReportInv'
BY FreshMemory, OneProcess, Zenon DEF Forget, Goto

LEMMA NextKeyType ==
  ASSUME NEW w \in Job
  PROVE  NextKey(w) \in Job /\ NextKey(w).pc \in {"done", "get"} /\ [w EXCEPT !.pc = "differ"] \in Job
BY DEF Job, NextKey

LEMMA MemoryUpdates ==
  ASSUME NEW p \in Proc, NEW m \in Memory(p)
  PROVE  /\ [m EXCEPT !.compared = @ + 1] \in Memory(p)
         /\ [m EXCEPT !.mismatches = @ + 1] \in Memory(p)
         /\ [m EXCEPT !.differed = @ + 1] \in Memory(p)
         /\ \A s \in 1..MaxSweeps[p], w \in Job : [m EXCEPT !.work[s] = w] \in Memory(p)
<1>1. [m EXCEPT !.compared = @ + 1] \in Memory(p)
  BY DEF Memory
<1>2. [m EXCEPT !.mismatches = @ + 1] \in Memory(p)
  BY DEF Memory
<1>3. [m EXCEPT !.differed = @ + 1] \in Memory(p)
  BY DEF Memory
<1>4. ASSUME NEW s \in 1..MaxSweeps[p], NEW w \in Job
      PROVE  [m EXCEPT !.work[s] = w] \in Memory(p)
  BY Zenon DEF Memory
<1> QED BY <1>1, <1>2, <1>3, <1>4

LEMMA MemoryType ==
  ASSUME NEW p \in Proc, NEW m \in Memory(p), NEW s \in 1..MaxSweeps[p], NEW w \in Job
  PROVE  /\ [m EXCEPT !.compared = @ + 1, !.work[s] = w] \in Memory(p)
         /\ [m EXCEPT !.mismatches = @ + 1, !.work[s] = w] \in Memory(p)
         /\ [m EXCEPT !.compared = @ + 1, !.work[s] = w, !.differed = @ + 1] \in Memory(p)
<1> DEFINE c == [m EXCEPT !.compared = @ + 1]
           d == [m EXCEPT !.mismatches = @ + 1]
           e == [c EXCEPT !.work[s] = w]
<1>1. c \in Memory(p) /\ d \in Memory(p)
  BY MemoryUpdates, Zenon
<1>2. e \in Memory(p) /\ [d EXCEPT !.work[s] = w] \in Memory(p)
  BY <1>1, MemoryUpdates, Zenon
<1>3. [e EXCEPT !.differed = @ + 1] \in Memory(p)
  BY <1>2, MemoryUpdates, Zenon
<1> QED BY <1>2, <1>3

(* The goroutine of a sweep.                                               *)
LEMMA WorkerCounted ==
  ASSUME ReportInv, NEW p \in Proc, Worker(p)
  PROVE  ReportInv'
<1> DEFINE S == 1..MaxSweeps[p]
           m == mem[p]
<1>1. PICK s \in S : ListKeys(p, s) \/ Compare(p, s) \/ CountMismatch(p, s)
  BY DEF Worker
<1>2. m \in Memory(p) /\ Counted(p, m, pc[p]) /\ pc[p] \in Label
  BY DEF ReportInv
<1>3. pc' = [pc EXCEPT ![p] = pc[p]]
  BY <1>1 DEF ListKeys, Compare, CountMismatch, lockVars, ReportInv
<1>4. MaxKeys[p] \in Nat
  BY ShadowAssumption
<1>5. CASE ListKeys(p, s)
  <2>1. PICK n \in 0..MaxKeys[p] :
          mem' = [mem EXCEPT ![p] = [m EXCEPT !.work[s] =
                    [pc |-> IF n = 0 THEN "done" ELSE "get", left |-> n]]]
    BY <1>5, Zenon DEF ListKeys
  <2> DEFINE m2 == [m EXCEPT !.work[s] = [pc |-> IF n = 0 THEN "done" ELSE "get", left |-> n]]
  <2>2. m.work[s].pc = "keys"
    BY <1>5 DEF ListKeys, At
  <2>3. m2 \in Memory(p)
    <3>1. [pc |-> IF n = 0 THEN "done" ELSE "get", left |-> n] \in Job
      BY <1>4 DEF Job
    <3> QED BY <1>2, <3>1, Zenon DEF Memory
  <2>4. /\ \A f \in S : m2.work[f].pc = IF f = s THEN IF n = 0 THEN "done" ELSE "get"
                                                  ELSE m.work[f].pc
        /\ m2.sweepTimeouts = m.sweepTimeouts /\ m2.sweeps = m.sweeps
        /\ m2.differed = m.differed /\ m2.mismatches = m.mismatches
        /\ m2.compared = m.compared /\ m2.loaded = m.loaded
    BY <1>2, Zenon DEF Memory
  <2>5. Counted(p, m2, pc[p])
    <3> HIDE DEF m, m2
    <3>1. \A f \in S :
            /\ m2.work[f].pc = "differ" <=> m.work[f].pc = "differ"
            /\ m2.work[f].pc \in {"keys", "get", "differ"} => m.work[f].pc \in {"keys", "get", "differ"}
      BY <2>2, <2>4
    <3> QED BY <1>2, <2>4, <3>1, SameCounts
  <2> QED BY <2>1, <2>3, <2>5, <1>2, <1>3, OneProcess, Zenon
<1>6. CASE Compare(p, s)
  <2> DEFINE m2 == [m EXCEPT !.compared = @ + 1, !.work[s] = NextKey(@)]
             m3 == [m EXCEPT !.compared = @ + 1, !.work[s].pc = "differ", !.differed = @ + 1]
  <2>1. mem' = [mem EXCEPT ![p] = m2] \/ mem' = [mem EXCEPT ![p] = m3]
    BY <1>6, Zenon DEF Compare, ReportInv
  <2>2. m.work[s].pc = "get"
    BY <1>6 DEF Compare, At
  <2>3. m2 \in Memory(p) /\ m3 \in Memory(p)
    <3>1. m.work[s] \in Job
      BY <1>2, Zenon DEF Memory
    <3>2. NextKey(m.work[s]) \in Job /\ [m.work[s] EXCEPT !.pc = "differ"] \in Job
      BY <3>1, NextKeyType
    <3>3. m3 = [m EXCEPT !.compared = @ + 1, !.work[s] = [m.work[s] EXCEPT !.pc = "differ"],
                         !.differed = @ + 1]
      BY <1>2 DEF Memory
    <3> QED BY <1>2, <3>2, <3>3, MemoryType, Zenon
  <2>4. Counted(p, m2, pc[p])
    <3>1. /\ \A f \in S : m2.work[f].pc = IF f = s THEN NextKey(m.work[s]).pc ELSE m.work[f].pc
          /\ m2.sweepTimeouts = m.sweepTimeouts /\ m2.sweeps = m.sweeps
          /\ m2.differed = m.differed /\ m2.mismatches = m.mismatches
          /\ m2.compared = m.compared + 1 /\ m2.loaded = m.loaded
      BY <1>2, Zenon DEF Memory
    <3>2. NextKey(m.work[s]).pc \in {"done", "get"} /\ m.differed \in Nat /\ m.compared \in Nat
      BY <1>2, NextKeyType, Zenon DEF Memory
    <3> HIDE DEF m, m2
    <3> SUFFICES ASSUME m.sweepTimeouts = 0 PROVE Counted(p, m2, pc[p])
      BY <3>1 DEF Counted
    <3>3. pc[p] = "sweep" /\ s = m.sweeps /\ \A f \in S : m.work[f].pc # "differ"
      BY <1>2, <2>2 DEF Counted
    <3>4. m.differed = m.mismatches /\ m.differed <= m.compared
      BY <1>2, <3>3 DEF Counted
    <3>5. \A f \in S : m2.work[f].pc \in {"keys", "get", "differ"} => f = m2.sweeps
      BY <1>2, <3>1, <3>3 DEF Counted
    <3>6. \A f \in S : m2.work[f].pc # "differ"
      BY <3>1, <3>2, <3>3
    <3>7. m2.differed = m2.mismatches /\ m2.differed <= m2.compared
      BY <3>1, <3>2, <3>4
    <3> QED BY <3>3, <3>5, <3>6, <3>7, AllCounted
  <2>5. /\ \A f \in S : m3.work[f].pc = IF f = s THEN "differ" ELSE m.work[f].pc
        /\ m3.sweepTimeouts = m.sweepTimeouts /\ m3.sweeps = m.sweeps
        /\ m3.differed = m.differed + 1 /\ m3.mismatches = m.mismatches
        /\ m3.compared = m.compared + 1 /\ m3.loaded = m.loaded
    <3>1. m.work[s] \in Job /\ m.work = [f \in S |-> m.work[f]]
      BY <1>2, Zenon DEF Memory
    <3>2. m3.work = [m.work EXCEPT ![s] = [@ EXCEPT !.pc = "differ"]]
      BY <1>2 DEF Memory
    <3>3. \A f \in S : m3.work[f].pc = IF f = s THEN "differ" ELSE m.work[f].pc
      <4> HIDE DEF m, m3
      <4> QED BY <3>1, <3>2 DEF Job
    <3>4. /\ m3.sweepTimeouts = m.sweepTimeouts /\ m3.sweeps = m.sweeps
          /\ m3.differed = m.differed + 1 /\ m3.mismatches = m.mismatches
          /\ m3.compared = m.compared + 1 /\ m3.loaded = m.loaded
      BY <1>2 DEF Memory
    <3> QED BY <3>3, <3>4
  <2>6. Counted(p, m3, pc[p])
    <3> HIDE DEF m, m3
    <3> SUFFICES ASSUME m.sweepTimeouts = 0 PROVE Counted(p, m3, pc[p])
      BY <2>5 DEF Counted
    <3>1. pc[p] = "sweep" /\ s = m.sweeps /\ \A f \in S : m.work[f].pc # "differ"
      BY <1>2, <2>2 DEF Counted
    <3>2. m.differed = m.mismatches /\ m.differed <= m.compared
      BY <1>2, <3>1 DEF Counted
    <3>3. m.differed \in Nat /\ m.compared \in Nat /\ m3.work[s].pc = "differ"
      BY <1>2, <2>5 DEF Memory
    <3>4. \A f \in S : m3.work[f].pc \in {"keys", "get", "differ"} => f = m3.sweeps
      BY <1>2, <2>5, <3>1 DEF Counted
    <3>5. m3.differed = m3.mismatches + 1 /\ m3.differed <= m3.compared
      BY <2>5, <3>2, <3>3
    <3> QED BY <3>1, <3>3, <3>4, <3>5 DEF Counted
  <2> QED BY <2>1, <2>3, <2>4, <2>6, <1>2, <1>3, OneProcess, Zenon
<1>7. CASE CountMismatch(p, s)
  <2> DEFINE m2 == [m EXCEPT !.mismatches = @ + 1, !.work[s] = NextKey(@)]
  <2>1. mem' = [mem EXCEPT ![p] = m2]
    BY <1>7, Zenon DEF CountMismatch, ReportInv
  <2>2. m.work[s].pc = "differ"
    BY <1>7 DEF CountMismatch, At
  <2>3. m2 \in Memory(p)
    <3>1. m.work[s] \in Job
      BY <1>2, Zenon DEF Memory
    <3>2. NextKey(m.work[s]) \in Job
      BY <3>1, NextKeyType, Zenon
    <3> QED BY <1>2, <3>2, MemoryType, Zenon
  <2>4. Counted(p, m2, pc[p])
    <3>1. /\ \A f \in S : m2.work[f].pc = IF f = s THEN NextKey(m.work[s]).pc ELSE m.work[f].pc
          /\ m2.sweepTimeouts = m.sweepTimeouts /\ m2.sweeps = m.sweeps
          /\ m2.differed = m.differed /\ m2.mismatches = m.mismatches + 1
          /\ m2.compared = m.compared /\ m2.loaded = m.loaded
      BY <1>2, Zenon DEF Memory
    <3>2. NextKey(m.work[s]).pc \in {"done", "get"}
      BY <1>2, NextKeyType, Zenon DEF Memory
    <3> HIDE DEF m, m2
    <3> SUFFICES ASSUME m.sweepTimeouts = 0 PROVE Counted(p, m2, pc[p])
      BY <3>1 DEF Counted
    <3>3. pc[p] = "sweep" /\ s = m.sweeps /\ m.differed = m.mismatches + 1 /\ m.differed <= m.compared
      BY <1>2, <2>2 DEF Counted
    <3>4. \A f \in S : f # s => m.work[f].pc \notin {"keys", "get", "differ"}
      BY <1>2, <3>3 DEF Counted
    <3>5. \A f \in S : m2.work[f].pc # "differ" /\ (m2.work[f].pc = "get" => f = m2.sweeps)
                        /\ m2.work[f].pc # "keys"
      BY <3>1, <3>2, <3>3, <3>4
    <3>6. m2.differed = m2.mismatches /\ m2.differed <= m2.compared
      BY <3>1, <3>3
    <3> QED BY <3>3, <3>5, <3>6, AllCounted
  <2> QED BY <2>1, <2>3, <2>4, <1>2, <1>3, OneProcess, Zenon
<1> QED BY <1>1, <1>5, <1>6, <1>7

(* The loop.                                                               *)
LEMMA LoopCounted ==
  ASSUME ReportInv, NEW p \in Proc, Loop(p)
  PROVE  ReportInv'
<1> DEFINE m == mem[p]
<1>1. m \in Memory(p) /\ Counted(p, m, pc[p])
  BY DEF ReportInv
<1>2. CASE SweepStart(p)
  <2> DEFINE w == [pc |-> "keys", left |-> 0]
             c == [m EXCEPT !.sweeps = @ + 1]
             m2 == [m EXCEPT !.sweeps = @ + 1, !.work[m.sweeps + 1] = w]
  <2>1. mem' = [mem EXCEPT ![p] = m2] /\ pc' = [pc EXCEPT ![p] = "sweep"]
    BY <1>2, Zenon DEF SweepStart, MoveTo, Goto, ReportInv
  <2>2. m2 \in Memory(p)
    <3>0. w \in Job
      BY DEF Job
    <3>1. c \in Memory(p)
      BY <1>1, SMTT(20) DEF Memory
    <3>2. [c EXCEPT !.work[m.sweeps + 1] = w] \in Memory(p)
      <4> HIDE DEF c, w
      <4> QED BY <3>0, <3>1, Zenon DEF Memory
    <3> QED BY <3>2
  <2>3. /\ \A s \in 1..MaxSweeps[p] :
             m2.work[s].pc = IF s = m.sweeps + 1 THEN "keys" ELSE m.work[s].pc
        /\ m2.sweepTimeouts = m.sweepTimeouts /\ m2.sweeps = m.sweeps + 1
        /\ m2.differed = m.differed /\ m2.mismatches = m.mismatches
        /\ m2.compared = m.compared
    BY <1>1, Zenon DEF Memory
  <2>4. Counted(p, m2, "sweep")
    <3> SUFFICES ASSUME m.sweepTimeouts = 0 PROVE Counted(p, m2, "sweep")
      BY <2>3 DEF Counted
    <3>1. \A s \in 1..MaxSweeps[p] : m.work[s].pc \notin {"keys", "get", "differ"}
      BY <1>1, <1>2 DEF Counted, SweepStart
    <3>2. m.differed = m.mismatches /\ m.differed <= m.compared
      BY <1>1, <3>1 DEF Counted
    <3> HIDE DEF m, m2
    <3>3. \A s \in 1..MaxSweeps[p] :
            m2.work[s].pc # "differ" /\ (m2.work[s].pc \in {"keys", "get"} => s = m2.sweeps)
      BY <2>3, <3>1
    <3>4. m2.differed = m2.mismatches /\ m2.differed <= m2.compared
      BY <2>3, <3>2
    <3> QED BY <3>3, <3>4, AllCounted
  <2> QED BY <2>1, <2>2, <2>4, OneProcess, Zenon DEF Label, Working
<1>3. CASE SweepDone(p)
  BY <1>3, MoveCounted DEF SweepDone, MoveTo, Label, Working
<1>4. CASE SweepTimeout(p)
  <2> DEFINE m2 == [m EXCEPT !.sweepTimeouts = @ + 1]
  <2>1. mem' = [mem EXCEPT ![p] = m2] /\ pc' = [pc EXCEPT ![p] = "beat"]
    BY <1>4 DEF SweepTimeout, MoveTo, Goto
  <2>2. m2 \in Memory(p)
    BY <1>1, SMTT(20) DEF Memory
  <2>3. Counted(p, m2, "beat")
    <3>1. m2.sweepTimeouts = m.sweepTimeouts + 1 /\ m.sweepTimeouts \in Nat
      BY <1>1 DEF Memory
    <3> HIDE DEF m, m2
    <3> QED BY <3>1 DEF Counted
  <2> QED BY <2>1, <2>2, <2>3, OneProcess, Zenon DEF Label, Working
<1>5. CASE Heartbeat(p) \/ CheckDeadline(p) \/ Again(p) \/ TakeSignal(p)
  BY <1>5, MoveCounted
     DEF Heartbeat, BeatWrite, BeatRename, BeatFails, CheckDeadline, Again, TakeSignal, MoveTo,
         Label, Working
<1>6. CASE LoadCompared(p)
  <2> DEFINE m2 == [m EXCEPT !.loaded = m.compared]
  <2>1. mem' = [mem EXCEPT ![p] = m2] /\ pc' = [pc EXCEPT ![p] = "report"]
    BY <1>6 DEF LoadCompared, MoveTo, Goto
  <2>2. m2 \in Memory(p)
    BY <1>1 DEF Memory
  <2>3. Counted(p, m2, "report")
    BY <1>1, <1>6 DEF Memory, Counted, LoadCompared
  <2> QED BY <2>1, <2>2, <2>3, OneProcess, Zenon DEF Label, Working
<1>7. CASE WriteReport(p)
  BY <1>7, MoveCounted, ForgetCounted DEF WriteReport, MoveTo, Label, Working
<1>8. CASE Release(p) /\ Forget(p)
  BY <1>8, ForgetCounted DEF Release, Label
<1> QED BY <1>2, <1>3, <1>4, <1>5, <1>6, <1>7, <1>8 DEF Loop

LEMMA ReportInitially == Init => ReportInv
BY FreshMemory DEF Init, LockInit, ReportInv, Label

LEMMA ReportNextPreserves == ReportInv /\ [Next]_vars => ReportInv'
<1> SUFFICES ASSUME ReportInv, [Next]_vars PROVE ReportInv'
  OBVIOUS
<1>1. ASSUME NEW p \in Proc, (Start(p) /\ UNCHANGED mem) \/ Acquire(p) PROVE ReportInv'
  BY <1>1, MoveCounted
     DEF Start, Acquire, AcquireStep, Create, Fill, OpenFails, ReadLock, GiveUp, Decide,
         TakeWrite, TakeRename, TakeFails, Label, Acquiring, Working
<1>2. ASSUME NEW p \in Proc, Signal(p) PROVE ReportInv'
  <2> DEFINE m2 == [mem[p] EXCEPT !.sig = TRUE]
  <2>1. mem' = [mem EXCEPT ![p] = m2] /\ pc' = [pc EXCEPT ![p] = pc[p]]
    BY <1>2 DEF Signal, lockVars, ReportInv
  <2>2. m2 \in Memory(p) /\ pc[p] \in Label
    BY Zenon DEF ReportInv, Memory
  <2>3. Counted(p, m2, pc[p])
    <3> DEFINE m == mem[p]
    <3>1. m \in Memory(p) /\ Counted(p, m, pc[p])
      BY DEF ReportInv
    <3>2. /\ m2.sweepTimeouts = m.sweepTimeouts /\ m2.sweeps = m.sweeps /\ m2.work = m.work
          /\ m2.differed = m.differed /\ m2.mismatches = m.mismatches
          /\ m2.compared = m.compared /\ m2.loaded = m.loaded
      BY <3>1 DEF Memory
    <3> HIDE DEF m, m2
    <3> QED BY <3>1, <3>2, SameCounts
  <2> QED BY <2>1, <2>2, <2>3, OneProcess, Zenon
<1>3. ASSUME NEW p \in Proc, Die(p) /\ Forget(p) PROVE ReportInv'
  BY <1>3, ForgetCounted DEF Die, Label
<1>4. CASE UNCHANGED <<pc, mem>>
  BY <1>4 DEF ReportInv
<1>5. CASE Tick /\ UNCHANGED mem
  BY <1>4, <1>5 DEF Tick
<1>6. CASE UNCHANGED vars
  BY <1>4, <1>6 DEF vars, lockVars
<1> QED BY <1>1, <1>2, <1>3, <1>5, <1>6, LoopCounted, WorkerCounted, Zenon DEF Next

(* The report of a run without sweep timeouts is complete (runContinuous): *)
(* it counts every comparison and every difference, because without a      *)
(* timeout no goroutine is left that could still be counting.              *)
THEOREM ReportComplete == Spec => []ReportTellsAll
<1>1. ReportInv => ReportTellsAll
  <2> SUFFICES ASSUME ReportInv, NEW p \in Proc, pc[p] = "report", mem[p].sweepTimeouts = 0
               PROVE  /\ Report(p).mismatches = mem[p].differed
                      /\ Report(p).compared = mem[p].compared
                      /\ Report(p).mismatches <= Report(p).compared
    BY DEF ReportTellsAll
  <2>1. /\ \A s \in 1..MaxSweeps[p] : mem[p].work[s].pc # "differ"
        /\ mem[p].loaded = mem[p].compared
        /\ mem[p].differed <= mem[p].compared
    BY DEF ReportInv, Counted
  <2>2. mem[p].differed = mem[p].mismatches
    BY <2>1 DEF ReportInv, Counted
  <2> QED BY <2>1, <2>2 DEF Report
<1> QED BY <1>1, ReportInitially, ReportNextPreserves, PTL DEF Spec

-----------------------------------------------------------------------------
(* The types of the counters: no comparer counts more comparisons than the *)
(* sweeps it has started have keys, timeouts or not.  The keys a goroutine *)
(* has dealt with are the ones above those it has left.                    *)
INSTANCE FiniteSetTheorems

Past(w, k) ==
  \/ w.pc = "done"
  \/ w.pc = "get" /\ k > w.left
  \/ w.pc = "differ" /\ k >= w.left

Handled(p, work) ==
  {x \in (1..MaxSweeps[p]) \X (1..MaxKeys[p]) : Past(work[x[1]], x[2])}

Differing(p, work) == {s \in 1..MaxSweeps[p] : work[s].pc = "differ"}

WorkOK(p, m) ==
  \A s \in 1..MaxSweeps[p] :
    /\ m.work[s].left \in 0..MaxKeys[p]
    /\ m.work[s].pc \in {"get", "differ"} => m.work[s].left > 0
    /\ s > m.sweeps => m.work[s].pc = "none"

CountsOK(p, m) ==
  /\ m.differed = m.mismatches + Cardinality(Differing(p, m.work))
  /\ m.differed <= m.compared
  /\ m.compared <= Cardinality(Handled(p, m.work))
  /\ m.loaded <= m.compared

LoopOK(p, m, l) ==
  /\ l \in Acquiring \cup {"off"} => m = Fresh0(p)
  /\ m.sweeps <= MaxSweeps[p] /\ (l = "ready" => m.sweeps < MaxSweeps[p])
  /\ m.sweepTimeouts <= m.sweeps /\ (l = "sweep" => m.sweepTimeouts < m.sweeps)

Bounded(p, m, l) == WorkOK(p, m) /\ CountsOK(p, m) /\ LoopOK(p, m, l)

BoundInv == \A p \in Proc : Bounded(p, mem[p], pc[p])

LEMMA Sizes ==
  ASSUME NEW p \in Proc
  PROVE  MaxSweeps[p] \in Nat \ {0} /\ MaxKeys[p] \in Nat
BY ShadowAssumption

LEMMA KeySpace ==
  ASSUME NEW p \in Proc, NEW work
  PROVE  /\ IsFiniteSet(Handled(p, work))
         /\ Cardinality(Handled(p, work)) <= MaxSweeps[p] * MaxKeys[p]
         /\ Cardinality(Handled(p, work)) \in Nat
         /\ IsFiniteSet(Differing(p, work)) /\ Cardinality(Differing(p, work)) \in Nat
<1> DEFINE S == 1..MaxSweeps[p]
           K == 1..MaxKeys[p]
<1>1. MaxSweeps[p] \in Nat /\ MaxKeys[p] \in Nat
  BY Sizes
<1>2. /\ IsFiniteSet(S) /\ Cardinality(S) = MaxSweeps[p]
      /\ IsFiniteSet(K) /\ Cardinality(K) = MaxKeys[p]
  <2>1. ASSUME NEW n \in Nat PROVE IsFiniteSet(1..n) /\ Cardinality(1..n) = n
    <3>1. IsFiniteSet(1..n) /\ Cardinality(1..n) = IF 1 > n THEN 0 ELSE n - 1 + 1
      BY FS_Interval
    <3> QED BY <3>1
  <2> QED BY <1>1, <2>1, Zenon
<1>3. IsFiniteSet(S \X K) /\ Cardinality(S \X K) = MaxSweeps[p] * MaxKeys[p]
  <2> HIDE DEF S, K
  <2>1. IsFiniteSet(S \X K) /\ Cardinality(S \X K) = Cardinality(S) * Cardinality(K)
    BY <1>2, FS_Product
  <2> QED BY <1>2, <2>1, Zenon
<1>4. Handled(p, work) \subseteq S \X K /\ Differing(p, work) \subseteq S
  BY DEF Handled, Differing
<1> HIDE DEF S, K
<1>5. /\ IsFiniteSet(Handled(p, work)) /\ IsFiniteSet(Differing(p, work))
      /\ Cardinality(Handled(p, work)) <= Cardinality(S \X K)
  BY <1>2, <1>3, <1>4, FS_Subset, Zenon
<1> QED BY <1>3, <1>5, FS_CardinalityType

(* A step of one goroutine: its keys may only become fewer.                *)
LEMMA HandledGrows ==
  ASSUME NEW p \in Proc, NEW u, NEW v,
         \A s \in 1..MaxSweeps[p], k \in 1..MaxKeys[p] : Past(u[s], k) => Past(v[s], k)
  PROVE  /\ Cardinality(Handled(p, u)) <= Cardinality(Handled(p, v))
         /\ \A s \in 1..MaxSweeps[p], k \in 1..MaxKeys[p] :
              ~Past(u[s], k) /\ Past(v[s], k) =>
                Cardinality(Handled(p, u)) + 1 <= Cardinality(Handled(p, v))
<1>1. Handled(p, u) \subseteq Handled(p, v)
  BY DEF Handled
<1>2. IsFiniteSet(Handled(p, u)) /\ IsFiniteSet(Handled(p, v))
  BY KeySpace
<1>3. Cardinality(Handled(p, u)) <= Cardinality(Handled(p, v))
  BY <1>1, <1>2, FS_Subset
<1>4. ASSUME NEW s \in 1..MaxSweeps[p], NEW k \in 1..MaxKeys[p], ~Past(u[s], k), Past(v[s], k)
      PROVE  Cardinality(Handled(p, u)) + 1 <= Cardinality(Handled(p, v))
  <2> DEFINE x == <<s, k>>
             H == Handled(p, u) \cup {x}
  <2>1. x \notin Handled(p, u) /\ x \in Handled(p, v)
    BY <1>4 DEF Handled
  <2>2. IsFiniteSet(H) /\ Cardinality(H) = Cardinality(Handled(p, u)) + 1
    BY <1>2, <2>1, FS_AddElement, Zenon
  <2>3. Cardinality(H) <= Cardinality(Handled(p, v))
    BY <1>1, <1>2, <2>1, FS_Subset
  <2> QED BY <2>2, <2>3
<1> QED BY <1>3, <1>4

LEMMA DifferingMoves ==
  ASSUME NEW p \in Proc, NEW u, NEW v, NEW s \in 1..MaxSweeps[p],
         \A f \in 1..MaxSweeps[p] : f # s => v[f] = u[f]
  PROVE  /\ u[s].pc # "differ" /\ v[s].pc # "differ" =>
              Cardinality(Differing(p, v)) = Cardinality(Differing(p, u))
         /\ u[s].pc # "differ" /\ v[s].pc = "differ" =>
              Cardinality(Differing(p, v)) = Cardinality(Differing(p, u)) + 1
         /\ u[s].pc = "differ" /\ v[s].pc # "differ" =>
              Cardinality(Differing(p, v)) = Cardinality(Differing(p, u)) - 1
<1>1. /\ IsFiniteSet(Differing(p, u)) /\ Cardinality(Differing(p, u)) \in Nat
      /\ IsFiniteSet(Differing(p, v)) /\ Cardinality(Differing(p, v)) \in Nat
  BY KeySpace
<1>2. u[s].pc # "differ" /\ v[s].pc # "differ" => Differing(p, v) = Differing(p, u)
  BY DEF Differing
<1>3. ASSUME u[s].pc # "differ", v[s].pc = "differ"
      PROVE  Cardinality(Differing(p, v)) = Cardinality(Differing(p, u)) + 1
  <2>1. Differing(p, v) = Differing(p, u) \cup {s} /\ s \notin Differing(p, u)
    BY <1>3 DEF Differing
  <2> QED BY <1>1, <2>1, FS_AddElement
<1>4. ASSUME u[s].pc = "differ", v[s].pc # "differ"
      PROVE  Cardinality(Differing(p, v)) = Cardinality(Differing(p, u)) - 1
  <2>1. Differing(p, u) = Differing(p, v) \cup {s} /\ s \notin Differing(p, v)
    BY <1>4 DEF Differing
  <2>2. Cardinality(Differing(p, u)) = Cardinality(Differing(p, v)) + 1
    BY <1>1, <2>1, FS_AddElement, Zenon
  <2> QED BY <1>1, <2>2
<1> QED BY <1>2, <1>3, <1>4

(* One goroutine moves on from w to w2, and the counters with it.          *)
LEMMA JobBounds ==
  ASSUME NEW p \in Proc, NEW l, NEW m \in Memory(p), NEW m2 \in Memory(p), Bounded(p, m, l),
         NEW s \in 1..MaxSweeps[p],
         m.work[s].pc \in {"keys", "get", "differ"},
         \A f \in 1..MaxSweeps[p] : f # s => m2.work[f] = m.work[f],
         m2.work[s].left \in 0..MaxKeys[p],
         m2.work[s].pc \in {"get", "differ"} => m2.work[s].left > 0,
         \A k \in 1..MaxKeys[p] : Past(m.work[s], k) => Past(m2.work[s], k),
         m2.sweeps = m.sweeps, m2.sweepTimeouts = m.sweepTimeouts, m2.loaded = m.loaded,
         \/ m2.compared = m.compared
         \/ /\ m2.compared = m.compared + 1
            /\ \E k \in 1..MaxKeys[p] : ~Past(m.work[s], k) /\ Past(m2.work[s], k),
         m2.differed = m2.mismatches + Cardinality(Differing(p, m2.work)),
         m2.differed <= m2.compared
  PROVE  Bounded(p, m2, l)
<1>1. WorkOK(p, m) /\ CountsOK(p, m) /\ LoopOK(p, m, l)
  BY DEF Bounded
<1>2. /\ m.compared \in Nat /\ m.loaded \in Nat /\ m.sweeps \in Nat
      /\ MaxSweeps[p] \in Nat /\ MaxKeys[p] \in Nat
  BY Sizes, Zenon DEF Memory
<1>3. s <= m.sweeps
  BY <1>1, <1>2 DEF WorkOK
<1>4. WorkOK(p, m2)
  BY <1>1, <1>2, <1>3, Zenon DEF WorkOK
<1>5. \A f \in 1..MaxSweeps[p], k \in 1..MaxKeys[p] : Past(m.work[f], k) => Past(m2.work[f], k)
  <2> TAKE f \in 1..MaxSweeps[p], k \in 1..MaxKeys[p]
  <2>1. CASE f = s
    BY <2>1
  <2>2. CASE f # s
    BY <2>2, Zenon
  <2> QED BY <2>1, <2>2
<1>6. /\ Cardinality(Handled(p, m.work)) \in Nat /\ Cardinality(Handled(p, m2.work)) \in Nat
      /\ Cardinality(Handled(p, m.work)) <= Cardinality(Handled(p, m2.work))
  BY <1>5, KeySpace, HandledGrows, Zenon
<1>7. m2.compared <= Cardinality(Handled(p, m2.work)) /\ m2.loaded <= m2.compared
  <2>1. m.compared <= Cardinality(Handled(p, m.work)) /\ m.loaded <= m.compared
    BY <1>1, Zenon DEF CountsOK
  <2>2. CASE m2.compared = m.compared
    BY <1>2, <1>6, <2>1, <2>2
  <2>3. ASSUME m2.compared = m.compared + 1,
               NEW k \in 1..MaxKeys[p], ~Past(m.work[s], k), Past(m2.work[s], k)
        PROVE  m2.compared <= Cardinality(Handled(p, m2.work)) /\ m2.loaded <= m2.compared
    <3>1. Cardinality(Handled(p, m.work)) + 1 <= Cardinality(Handled(p, m2.work))
      BY <1>5, <2>3, HandledGrows, Zenon
    <3> QED BY <1>2, <1>6, <2>1, <2>3, <3>1
  <2> QED BY <2>2, <2>3, Zenon
<1>8. CountsOK(p, m2)
  BY <1>7, Zenon DEF CountsOK
<1>9. l \notin Acquiring \cup {"off"}
  <2>1. Fresh0(p).work[s].pc = "none"
    BY Zenon DEF Fresh0
  <2>2. m # Fresh0(p)
    BY <2>1, Zenon
  <2> QED BY <1>1, <2>2, Zenon DEF LoopOK
<1>10. LoopOK(p, m2, l)
  BY <1>1, <1>9 DEF LoopOK
<1> QED BY <1>4, <1>8, <1>10, Zenon DEF Bounded

LEMMA OneBounded ==
  ASSUME BoundInv, NEW p \in Proc, NEW m, NEW l, Bounded(p, m, l),
         mem' = [mem EXCEPT ![p] = m], pc' = [pc EXCEPT ![p] = l], ReportInv
  PROVE  BoundInv'
<1> SUFFICES ASSUME NEW q \in Proc PROVE Bounded(q, mem'[q], pc'[q])
  BY Zenon DEF BoundInv, Bounded, WorkOK, CountsOK, LoopOK, Differing, Handled, Past, Fresh0
<1>1. /\ mem'[q] = (IF q = p THEN m ELSE mem[q]) /\ pc'[q] = IF q = p THEN l ELSE pc[q]
  BY DEF ReportInv
<1>2. CASE q = p
  BY <1>1, <1>2, Zenon
<1>3. CASE q # p
  <2>1. mem'[q] = mem[q] /\ pc'[q] = pc[q]
    BY <1>1, <1>3
  <2> QED BY <2>1, Zenon DEF BoundInv
<1> QED BY <1>2, <1>3

LEMMA WorkerBounded ==
  ASSUME BoundInv, ReportInv, NEW p \in Proc, Worker(p)
  PROVE  BoundInv'
<1> DEFINE S == 1..MaxSweeps[p]
<1>1. PICK s \in S : ListKeys(p, s) \/ Compare(p, s) \/ CountMismatch(p, s)
  BY DEF Worker
<1>2. PICK m : m = mem[p]
  OBVIOUS
<1>3. /\ m \in Memory(p) /\ pc[p] \in Label /\ Bounded(p, m, pc[p])
      /\ pc' = [pc EXCEPT ![p] = pc[p]]
  BY <1>1, <1>2 DEF ReportInv, BoundInv, ListKeys, Compare, CountMismatch, lockVars
<1>4. /\ m.compared \in Nat /\ m.differed \in Nat /\ m.mismatches \in Nat
      /\ m.work \in [S -> Job] /\ m.work[s] \in Job
  BY <1>3, Zenon DEF Memory
<1>5. /\ MaxKeys[p] \in Nat /\ m.work[s].left \in 0..MaxKeys[p]
      /\ m.work[s].pc \in {"get", "differ"} => m.work[s].left > 0
      /\ m.differed = m.mismatches + Cardinality(Differing(p, m.work))
      /\ m.differed <= m.compared
      /\ Cardinality(Differing(p, m.work)) \in Nat
  BY <1>3, Sizes, KeySpace DEF Bounded, WorkOK, CountsOK
<1>6. PICK w : w = m.work[s]
  OBVIOUS
<1>7. CASE ListKeys(p, s)
  <2>1. PICK n \in 0..MaxKeys[p] :
          mem' = [mem EXCEPT ![p] = [m EXCEPT !.work[s] =
                    [pc |-> IF n = 0 THEN "done" ELSE "get", left |-> n]]]
    BY <1>2, <1>7, Zenon DEF ListKeys
  <2>2. PICK w2 : w2 = [pc |-> IF n = 0 THEN "done" ELSE "get", left |-> n]
    BY Zenon
  <2>3. PICK m2 : m2 = [m EXCEPT !.work[s] = w2]
    BY Zenon
  <2>4. m.work[s].pc = "keys" /\ w2 \in Job
    BY <1>2, <1>5, <1>7, <2>2 DEF ListKeys, At, Job
  <2>5. m2 \in Memory(p) /\ mem' = [mem EXCEPT ![p] = m2]
    BY <1>3, <2>1, <2>2, <2>3, <2>4, MemoryUpdates, Zenon
  <2>6. /\ m2.work[s] = w2 /\ \A f \in S : f # s => m2.work[f] = m.work[f]
        /\ m2.sweepTimeouts = m.sweepTimeouts /\ m2.sweeps = m.sweeps /\ m2.loaded = m.loaded
        /\ m2.differed = m.differed /\ m2.mismatches = m.mismatches /\ m2.compared = m.compared
    BY <1>3, <2>3, Zenon DEF Memory
  <2>7. /\ w2.pc \in {"done", "get"} /\ w2.left \in 0..MaxKeys[p] /\ (w2.pc = "get" => w2.left > 0)
        /\ \A k \in 1..MaxKeys[p] : ~Past(m.work[s], k)
    BY <1>5, <2>2, <2>4 DEF Past
  <2>8. Cardinality(Differing(p, m2.work)) = Cardinality(Differing(p, m.work))
    BY <2>4, <2>6, <2>7, DifferingMoves, Zenon
  <2>9. Bounded(p, m2, pc[p])
    BY <1>3, <1>5, <2>4, <2>5, <2>6, <2>7, <2>8, JobBounds
  <2> QED BY <1>3, <2>5, <2>9, OneBounded, Zenon
<1>8. CASE Compare(p, s)
  <2>1. w.pc = "get" /\ w.left \in 1..MaxKeys[p] /\ w \in Job
    BY <1>2, <1>4, <1>5, <1>6, <1>8 DEF Compare, At
  <2>2. PICK w2 : w2 = NextKey(w)
    OBVIOUS
  <2>3. PICK w3 : w3 = [w EXCEPT !.pc = "differ"]
    BY Zenon
  <2>4. PICK m2 : m2 = [m EXCEPT !.compared = @ + 1, !.work[s] = w2]
    OBVIOUS
  <2>5. PICK m3 : m3 = [m EXCEPT !.compared = @ + 1, !.work[s] = w3, !.differed = @ + 1]
    OBVIOUS
  <2>6. w2 \in Job /\ w3 \in Job
    BY <2>1, <2>2, <2>3, NextKeyType
  <2>7. m2 \in Memory(p) /\ m3 \in Memory(p)
    BY <1>3, <2>4, <2>5, <2>6, MemoryType, Zenon
  <2>8. mem' = [mem EXCEPT ![p] = m2] \/ mem' = [mem EXCEPT ![p] = m3]
    <3>1. \/ mem' = [mem EXCEPT ![p] = [m EXCEPT !.compared = @ + 1, !.work[s] = NextKey(@)]]
          \/ mem' = [mem EXCEPT ![p] = [m EXCEPT !.compared = @ + 1, !.work[s].pc = "differ",
                                                 !.differed = @ + 1]]
      BY <1>2, <1>8, Zenon DEF Compare, ReportInv
    <3>2. m2 = [m EXCEPT !.compared = @ + 1, !.work[s] = NextKey(@)]
      BY <1>3, <1>6, <2>2, <2>4, Zenon DEF Memory
    <3>3. m3 = [m EXCEPT !.compared = @ + 1, !.work[s].pc = "differ", !.differed = @ + 1]
      BY <1>3, <1>6, <2>3, <2>5 DEF Memory
    <3> QED BY <3>1, <3>2, <3>3, Zenon
  <2>9. /\ m2.work[s] = w2 /\ \A f \in S : f # s => m2.work[f] = m.work[f]
        /\ m2.sweepTimeouts = m.sweepTimeouts /\ m2.sweeps = m.sweeps /\ m2.loaded = m.loaded
        /\ m2.differed = m.differed /\ m2.mismatches = m.mismatches
        /\ m2.compared = m.compared + 1
    BY <1>3, <2>4, Zenon DEF Memory
  <2>10. /\ m3.work[s] = w3 /\ \A f \in S : f # s => m3.work[f] = m.work[f]
         /\ m3.sweepTimeouts = m.sweepTimeouts /\ m3.sweeps = m.sweeps /\ m3.loaded = m.loaded
         /\ m3.differed = m.differed + 1 /\ m3.mismatches = m.mismatches
         /\ m3.compared = m.compared + 1
    BY <1>3, <2>5, Zenon DEF Memory
  <2>11. Bounded(p, m2, pc[p])
    <3>1. /\ w2.pc \in {"done", "get"} /\ w2.left \in 0..MaxKeys[p] /\ (w2.pc = "get" => w2.left > 0)
          /\ \A k \in 1..MaxKeys[p] : Past(w, k) => Past(w2, k)
          /\ ~Past(w, w.left) /\ Past(w2, w.left)
      BY <1>5, <2>1, <2>2 DEF NextKey, Past
    <3>2. Cardinality(Differing(p, m2.work)) = Cardinality(Differing(p, m.work))
      <4>1. m.work[s].pc # "differ" /\ m2.work[s].pc # "differ"
        BY <1>6, <2>1, <2>9, <3>1
      <4> QED BY <2>9, <4>1, DifferingMoves, Zenon
    <3>3. /\ m2.differed = m2.mismatches + Cardinality(Differing(p, m2.work))
          /\ m2.differed <= m2.compared
      BY <1>4, <1>5, <2>9, <3>2
    <3>4. \E k \in 1..MaxKeys[p] : ~Past(m.work[s], k) /\ Past(m2.work[s], k)
      BY <1>6, <2>1, <2>9, <3>1, Zenon
    <3> QED BY <1>3, <1>6, <2>1, <2>7, <2>9, <3>1, <3>3, <3>4, JobBounds, Zenon
  <2>12. Bounded(p, m3, pc[p])
    <3>1. /\ w3.pc = "differ" /\ w3.left \in 0..MaxKeys[p] /\ w3.left > 0
          /\ \A k \in 1..MaxKeys[p] : Past(w, k) => Past(w3, k)
          /\ ~Past(w, w.left) /\ Past(w3, w.left)
      <4>1. w3.pc = "differ" /\ w3.left = w.left
        BY <2>1, <2>3, Zenon DEF Job
      <4> QED BY <1>5, <2>1, <4>1 DEF Past
    <3>2. Cardinality(Differing(p, m3.work)) = Cardinality(Differing(p, m.work)) + 1
      BY <1>6, <2>1, <2>10, <3>1, DifferingMoves, Zenon
    <3>3. /\ m3.differed = m3.mismatches + Cardinality(Differing(p, m3.work))
          /\ m3.differed <= m3.compared
      BY <1>4, <1>5, <2>10, <3>2
    <3>4. \E k \in 1..MaxKeys[p] : ~Past(m.work[s], k) /\ Past(m3.work[s], k)
      BY <1>6, <2>1, <2>10, <3>1
    <3> QED BY <1>3, <1>6, <2>1, <2>7, <2>10, <3>1, <3>3, <3>4, JobBounds, Zenon
  <2> QED BY <1>3, <2>8, <2>11, <2>12, OneBounded, Zenon
<1>9. CASE CountMismatch(p, s)
  <2>1. w.pc = "differ" /\ w.left \in 1..MaxKeys[p] /\ w \in Job
    BY <1>2, <1>4, <1>5, <1>6, <1>9 DEF CountMismatch, At
  <2>2. PICK w2 : w2 = NextKey(w)
    OBVIOUS
  <2>3. PICK m2 : m2 = [m EXCEPT !.mismatches = @ + 1, !.work[s] = w2]
    OBVIOUS
  <2>4. m2 \in Memory(p)
    BY <1>3, <2>1, <2>2, <2>3, NextKeyType, MemoryType, Zenon
  <2>5. mem' = [mem EXCEPT ![p] = m2]
    <3>1. mem' = [mem EXCEPT ![p] = [m EXCEPT !.mismatches = @ + 1, !.work[s] = NextKey(@)]]
      BY <1>2, <1>9, Zenon DEF CountMismatch, ReportInv
    <3>2. m2 = [m EXCEPT !.mismatches = @ + 1, !.work[s] = NextKey(@)]
      BY <1>3, <1>6, <2>2, <2>3, Zenon DEF Memory
    <3> QED BY <3>1, <3>2, Zenon
  <2>6. /\ m2.work[s] = w2 /\ \A f \in S : f # s => m2.work[f] = m.work[f]
        /\ m2.sweepTimeouts = m.sweepTimeouts /\ m2.sweeps = m.sweeps /\ m2.loaded = m.loaded
        /\ m2.differed = m.differed /\ m2.mismatches = m.mismatches + 1
        /\ m2.compared = m.compared
    BY <1>3, <2>3, Zenon DEF Memory
  <2>7. /\ w2.pc \in {"done", "get"} /\ w2.left \in 0..MaxKeys[p] /\ (w2.pc = "get" => w2.left > 0)
        /\ \A k \in 1..MaxKeys[p] : Past(w, k) => Past(w2, k)
    BY <1>5, <2>1, <2>2 DEF NextKey, Past
  <2>8. Cardinality(Differing(p, m2.work)) = Cardinality(Differing(p, m.work)) - 1
    BY <1>6, <2>1, <2>6, <2>7, DifferingMoves, Zenon
  <2>9. /\ m2.differed = m2.mismatches + Cardinality(Differing(p, m2.work))
        /\ m2.differed <= m2.compared
    BY <1>4, <1>5, <2>6, <2>8
  <2>10. Bounded(p, m2, pc[p])
    BY <1>3, <1>6, <2>1, <2>4, <2>6, <2>7, <2>9, JobBounds, Zenon
  <2> QED BY <1>3, <2>5, <2>10, OneBounded, Zenon
<1> QED BY <1>1, <1>7, <1>8, <1>9

(* A step that leaves the goroutines and what they count alone.            *)
LEMMA LoopBounds ==
  ASSUME NEW p \in Proc, NEW l, NEW l2, NEW m, NEW m2, Bounded(p, m, l),
         m2.work = m.work, m2.sweeps = m.sweeps, m2.compared = m.compared,
         m2.mismatches = m.mismatches, m2.differed = m.differed, m2.loaded <= m2.compared,
         LoopOK(p, m2, l2)
  PROVE  Bounded(p, m2, l2)
BY DEF Bounded, WorkOK, CountsOK

LEMMA FreshBounded ==
  ASSUME NEW p \in Proc, NEW l, l \notin {"sweep"}
  PROVE  Bounded(p, Fresh0(p), l)
<1>1. MaxSweeps[p] \in Nat \ {0} /\ MaxKeys[p] \in Nat
  BY Sizes
<1>2. PICK m : m = Fresh0(p)
  OBVIOUS
<1>3. /\ m.sweeps = 0 /\ m.compared = 0 /\ m.mismatches = 0 /\ m.sweepTimeouts = 0
      /\ m.loaded = 0 /\ m.differed = 0
      /\ \A s \in 1..MaxSweeps[p] : m.work[s].pc = "none" /\ m.work[s].left = 0
  BY <1>2 DEF Fresh0
<1>4. WorkOK(p, m)
  BY <1>1, <1>3 DEF WorkOK
<1>5. Differing(p, m.work) = {} /\ Cardinality({}) = 0
  BY <1>3, FS_EmptySet, Zenon DEF Differing
<1>6. CountsOK(p, m)
  BY <1>3, <1>5, KeySpace DEF CountsOK
<1>7. LoopOK(p, m, l)
  BY <1>1, <1>2, <1>3 DEF LoopOK
<1> QED BY <1>2, <1>4, <1>6, <1>7 DEF Bounded

LEMMA MoveBounded ==
  ASSUME BoundInv, ReportInv, NEW p \in Proc, NEW l, UNCHANGED mem,
         pc' = [pc EXCEPT ![p] = l], LoopOK(p, mem[p], l)
  PROVE  BoundInv'
<1>1. Bounded(p, mem[p], l)
  BY DEF BoundInv, Bounded
<1>2. mem' = [mem EXCEPT ![p] = mem[p]]
  BY DEF ReportInv
<1> QED BY <1>1, <1>2, OneBounded, Zenon

LEMMA ForgetBounded ==
  ASSUME BoundInv, ReportInv, NEW p \in Proc, Forget(p), Goto(p, "gone")
  PROVE  BoundInv'
BY FreshBounded, OneBounded, Zenon DEF Forget, Goto

LEMMA LoopBounded ==
  ASSUME BoundInv, ReportInv, NEW p \in Proc, Loop(p)
  PROVE  BoundInv'
<1>1. PICK m : m = mem[p]
  OBVIOUS
<1>2. /\ m \in Memory(p) /\ Bounded(p, m, pc[p])
      /\ WorkOK(p, m) /\ CountsOK(p, m) /\ LoopOK(p, m, pc[p])
  BY <1>1, Zenon DEF ReportInv, BoundInv, Bounded
<1>3. /\ m.sweeps \in Nat /\ m.sweepTimeouts \in Nat /\ m.compared \in Nat
      /\ MaxSweeps[p] \in Nat /\ MaxKeys[p] \in Nat
  BY <1>2, Sizes DEF Memory
<1>4. CASE SweepStart(p)
  <2> DEFINE w == [pc |-> "keys", left |-> 0]
  <2>1. PICK m2 : m2 = [m EXCEPT !.sweeps = @ + 1, !.work[m.sweeps + 1] = w]
    OBVIOUS
  <2>2. mem' = [mem EXCEPT ![p] = m2] /\ pc' = [pc EXCEPT ![p] = "sweep"] /\ pc[p] = "ready"
    BY <1>1, <1>4, <2>1, Zenon DEF SweepStart, MoveTo, Goto, ReportInv
  <2>3. /\ \A s \in 1..MaxSweeps[p] :
             m2.work[s] = IF s = m.sweeps + 1 THEN w ELSE m.work[s]
        /\ m2.sweepTimeouts = m.sweepTimeouts /\ m2.sweeps = m.sweeps + 1
        /\ m2.differed = m.differed /\ m2.mismatches = m.mismatches
        /\ m2.compared = m.compared /\ m2.loaded = m.loaded
    BY <1>2, <2>1, Zenon DEF Memory
  <2>4. w.pc = "keys" /\ w.left = 0
    OBVIOUS
  <2> HIDE DEF w
  <2>5. m.sweeps < MaxSweeps[p] /\ m.sweepTimeouts <= m.sweeps
    BY <1>2, <2>2, Zenon DEF LoopOK
  <2>6. m.sweeps + 1 \in 1..MaxSweeps[p] /\ m.work[m.sweeps + 1].pc = "none"
    BY <1>2, <1>3, <2>5 DEF WorkOK
  <2>7. WorkOK(p, m2)
    BY <1>2, <1>3, <2>3, <2>4 DEF WorkOK
  <2>8. Differing(p, m2.work) = Differing(p, m.work)
    BY <2>3, <2>4, <2>6, Zenon DEF Differing
  <2>9. Handled(p, m2.work) = Handled(p, m.work)
    BY <2>3, <2>4, <2>6 DEF Handled, Past
  <2>10. CountsOK(p, m2)
    BY <1>2, <2>3, <2>8, <2>9, Zenon DEF CountsOK
  <2>11. LoopOK(p, m2, "sweep")
    BY <1>3, <2>3, <2>5 DEF LoopOK, Acquiring
  <2> QED BY <2>2, <2>7, <2>10, <2>11, OneBounded, Zenon DEF Bounded
<1>5. CASE SweepDone(p)
  BY <1>1, <1>2, <1>5, MoveBounded, Zenon DEF SweepDone, MoveTo, Goto, LoopOK, Acquiring
<1>6. CASE SweepTimeout(p)
  <2>1. PICK m2 : m2 = [m EXCEPT !.sweepTimeouts = @ + 1]
    BY Zenon
  <2>2. mem' = [mem EXCEPT ![p] = m2] /\ pc' = [pc EXCEPT ![p] = "beat"] /\ pc[p] = "sweep"
    BY <1>1, <1>6, <2>1 DEF SweepTimeout, MoveTo, Goto
  <2>3. /\ m2.work = m.work /\ m2.sweepTimeouts = m.sweepTimeouts + 1 /\ m2.sweeps = m.sweeps
        /\ m2.differed = m.differed /\ m2.mismatches = m.mismatches
        /\ m2.compared = m.compared /\ m2.loaded = m.loaded
    BY <1>2, <2>1, Zenon DEF Memory
  <2>4. LoopOK(p, m2, "beat")
    BY <1>2, <1>3, <2>2, <2>3 DEF LoopOK, Acquiring
  <2>5. m2.loaded <= m2.compared
    BY <1>2, <2>3 DEF CountsOK
  <2>6. Bounded(p, m2, "beat")
    BY <1>2, <2>3, <2>4, <2>5, LoopBounds, Zenon
  <2> QED BY <2>2, <2>6, OneBounded, Zenon
<1>7. CASE Heartbeat(p) \/ CheckDeadline(p) \/ TakeSignal(p)
  <2>1. PICK l \in {"publish", "next", "wait", "load"} :
          UNCHANGED mem /\ pc' = [pc EXCEPT ![p] = l]
    BY <1>7 DEF Heartbeat, BeatWrite, BeatRename, BeatFails, CheckDeadline, TakeSignal, MoveTo,
                Goto
  <2> QED BY <1>1, <1>2, <2>1, MoveBounded, Zenon DEF LoopOK, Acquiring
<1>8. CASE Again(p)
  BY <1>1, <1>2, <1>8, MoveBounded, Zenon DEF Again, MoveTo, Goto, LoopOK, Acquiring
<1>9. CASE LoadCompared(p)
  <2>1. PICK m2 : m2 = [m EXCEPT !.loaded = m.compared]
    BY Zenon
  <2>2. mem' = [mem EXCEPT ![p] = m2] /\ pc' = [pc EXCEPT ![p] = "report"]
    BY <1>1, <1>9, <2>1 DEF LoadCompared, MoveTo, Goto
  <2>3. /\ m2.work = m.work /\ m2.sweepTimeouts = m.sweepTimeouts /\ m2.sweeps = m.sweeps
        /\ m2.differed = m.differed /\ m2.mismatches = m.mismatches
        /\ m2.compared = m.compared /\ m2.loaded = m.compared
    BY <1>2, <2>1, Zenon DEF Memory
  <2>4. LoopOK(p, m2, "report") /\ m2.loaded <= m2.compared
    BY <1>2, <1>3, <2>3 DEF LoopOK, Acquiring
  <2>5. Bounded(p, m2, "report")
    BY <1>2, <2>3, <2>4, LoopBounds
  <2> QED BY <2>2, <2>5, OneBounded, Zenon
<1>10. CASE WriteReport(p)
  <2>1. CASE MoveTo(p, "gone") /\ Forget(p)
    BY <2>1, ForgetBounded, Zenon DEF MoveTo
  <2>2. CASE MoveTo(p, "exit") /\ UNCHANGED mem
    BY <1>1, <1>2, <2>2, MoveBounded, Zenon DEF MoveTo, Goto, LoopOK, Acquiring
  <2> QED BY <1>10, <2>1, <2>2 DEF WriteReport
<1>11. CASE Release(p) /\ Forget(p)
  BY <1>11, ForgetBounded DEF Release
<1> QED BY <1>4, <1>5, <1>6, <1>7, <1>8, <1>9, <1>10, <1>11 DEF Loop

LEMMA BoundInitially == Init => BoundInv
BY FreshBounded, Zenon DEF Init, LockInit, BoundInv

LEMMA BoundNextPreserves == BoundInv /\ ReportInv /\ [Next]_vars => BoundInv'
<1> SUFFICES ASSUME BoundInv, ReportInv, [Next]_vars PROVE BoundInv'
  OBVIOUS
<1>1. ASSUME NEW p \in Proc, (Start(p) /\ UNCHANGED mem) \/ Acquire(p) PROVE BoundInv'
  <2>1. PICK l : /\ l \in Acquiring \cup {"ready", "refused"} /\ UNCHANGED mem
                 /\ pc' = [pc EXCEPT ![p] = l]
                 /\ pc[p] \in Acquiring \cup {"off"}
    BY <1>1, Zenon
       DEF Start, Acquire, AcquireStep, Create, Fill, OpenFails, ReadLock, GiveUp, Decide,
           TakeWrite, TakeRename, TakeFails, Goto, Acquiring
  <2>2. mem[p] = Fresh0(p)
    BY <2>1, Zenon DEF BoundInv, Bounded, LoopOK
  <2>3. LoopOK(p, mem[p], l)
    BY <2>1, <2>2, FreshBounded DEF Bounded, Acquiring
  <2> QED BY <2>1, <2>3, MoveBounded, Zenon
<1>2. ASSUME NEW p \in Proc, Signal(p) PROVE BoundInv'
  <2>1. PICK m : m = mem[p]
    OBVIOUS
  <2>2. PICK m2 : m2 = [m EXCEPT !.sig = TRUE]
    BY Zenon
  <2>3. /\ mem' = [mem EXCEPT ![p] = m2] /\ pc' = [pc EXCEPT ![p] = pc[p]]
        /\ pc[p] \notin Acquiring \cup {"off"}
    BY <1>2, <2>1, <2>2 DEF Signal, lockVars, ReportInv, Working, Acquiring
  <2>4. m \in Memory(p) /\ Bounded(p, m, pc[p])
    BY <2>1 DEF ReportInv, BoundInv
  <2>5. /\ m2.work = m.work /\ m2.sweepTimeouts = m.sweepTimeouts /\ m2.sweeps = m.sweeps
        /\ m2.differed = m.differed /\ m2.mismatches = m.mismatches
        /\ m2.compared = m.compared /\ m2.loaded = m.loaded
    BY <2>2, <2>4, Zenon DEF Memory
  <2>6. LoopOK(p, m2, pc[p]) /\ m2.loaded <= m2.compared
    BY <2>3, <2>4, <2>5 DEF Bounded, LoopOK, CountsOK
  <2>7. Bounded(p, m2, pc[p])
    BY <2>4, <2>5, <2>6, LoopBounds
  <2> QED BY <2>3, <2>7, OneBounded, Zenon
<1>3. ASSUME NEW p \in Proc, Die(p) /\ Forget(p) PROVE BoundInv'
  BY <1>3, ForgetBounded, Zenon DEF Die
<1>4. CASE UNCHANGED <<pc, mem>>
  BY <1>4 DEF BoundInv
<1>5. CASE Tick /\ UNCHANGED mem
  BY <1>4, <1>5 DEF Tick
<1>6. CASE UNCHANGED vars
  BY <1>4, <1>6 DEF vars, lockVars
<1> QED BY <1>1, <1>2, <1>3, <1>5, <1>6, LoopBounded, WorkerBounded, SMTT(20) DEF Next

(* Every variable of the comparers keeps its type: whatever times out,     *)
(* dies or goes on after its sweep was abandoned, a comparer never counts  *)
(* more comparisons, differences or timeouts than its sweeps can make.     *)
THEOREM ShadowTypeCorrect == Spec => []TypeOK
<1>1. LockInv /\ ReportInv /\ BoundInv => TypeOK
  <2> SUFFICES ASSUME LockInv, ReportInv, BoundInv PROVE TypeOK
    OBVIOUS
  <2>1. LockTypeOK
    BY DEF LockInv
  <2>2. ASSUME NEW p \in Proc
        PROVE  mem[p] \in [sweeps : 0..MaxSweeps[p], sweepTimeouts : 0..MaxSweeps[p],
                   compared : Count(p), mismatches : Count(p), loaded : Count(p),
                   differed : Count(p), sig : BOOLEAN,
                   work : [1..MaxSweeps[p] -> [pc : {"none", "keys", "get", "differ", "done"},
                                               left : 0..MaxKeys[p]]]]
    <3>1. PICK m : m = mem[p]
      OBVIOUS
    <3>2. m \in Memory(p) /\ WorkOK(p, m) /\ CountsOK(p, m) /\ LoopOK(p, m, pc[p])
      BY <3>1 DEF ReportInv, BoundInv, Bounded
    <3>3. /\ m.sweeps \in Nat /\ m.sweepTimeouts \in Nat /\ m.compared \in Nat
          /\ m.mismatches \in Nat /\ m.loaded \in Nat /\ m.differed \in Nat
          /\ MaxSweeps[p] \in Nat /\ MaxKeys[p] \in Nat
      BY <3>2, Sizes, Zenon DEF Memory
    <3>4. m.sweeps \in 0..MaxSweeps[p] /\ m.sweepTimeouts \in 0..MaxSweeps[p]
      BY <3>2, <3>3 DEF LoopOK
    <3>5. PICK n : n = MaxSweeps[p] * MaxKeys[p]
      BY Zenon
    <3>6. /\ n \in Int /\ m.compared <= n /\ m.loaded <= n /\ m.differed <= n
          /\ m.mismatches <= n
      <4>1. n \in Int /\ Cardinality(Handled(p, m.work)) <= n
        BY <3>3, <3>5, KeySpace
      <4>2. Cardinality(Handled(p, m.work)) \in Nat /\ Cardinality(Differing(p, m.work)) \in Nat
        BY KeySpace
      <4> QED BY <3>2, <3>3, <4>1, <4>2 DEF CountsOK
    <3>7. /\ m.compared \in Count(p) /\ m.mismatches \in Count(p)
          /\ m.loaded \in Count(p) /\ m.differed \in Count(p)
      <4>1. Count(p) = 0..n
        BY <3>5, Zenon DEF Count
      <4> QED BY <3>3, <3>6, <4>1
    <3>8. m.work \in [1..MaxSweeps[p] -> [pc : {"none", "keys", "get", "differ", "done"},
                                         left : 0..MaxKeys[p]]]
      <4>1. m.work \in [1..MaxSweeps[p] -> Job]
        BY <3>2, Zenon DEF Memory
      <4> QED BY <3>2, <4>1, Zenon DEF WorkOK, Job
    <3>9. m.sig \in BOOLEAN
      BY <3>2, Zenon DEF Memory
    <3>10. m \in [sweeps : 0..MaxSweeps[p], sweepTimeouts : 0..MaxSweeps[p],
                   compared : Count(p), mismatches : Count(p), loaded : Count(p),
                   differed : Count(p), sig : BOOLEAN,
                   work : [1..MaxSweeps[p] -> [pc : {"none", "keys", "get", "differ", "done"},
                                               left : 0..MaxKeys[p]]]]
      BY <3>2, <3>4, <3>7, <3>8, <3>9, Zenon DEF Memory
    <3> QED BY <3>1, <3>10, Zenon
  <2> QED BY <2>1, <2>2, Zenon DEF TypeOK
<1>2. Spec => []ReportInv
  BY ReportInitially, ReportNextPreserves, PTL DEF Spec
<1> QED BY <1>1, <1>2, LockInvariant, BoundInitially, BoundNextPreserves, PTL DEF Spec
=============================================================================
