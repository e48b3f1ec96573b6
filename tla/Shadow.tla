------------------------------- MODULE Shadow -------------------------------
(***************************************************************************)
(* The continuous mode of cmd/wavicle-migrate: sweeps that read every key  *)
(* from the source and from Wavicle and count the differences, each in a   *)
(* goroutine of its own that is abandoned at a deadline; a heartbeat per   *)
(* sweep; and a report from the counters at the end.  ReportLock is the    *)
(* lock on the report.                                                     *)
(*                                                                         *)
(* The source and the target are external: a comparison has any outcome.   *)
(* What is written to the mismatch log is counted, not kept.               *)
(***************************************************************************)
EXTENDS ReportLock

CONSTANTS
  Timed,      \* comparers started with -duration; the others end by a signal
  MaxSweeps,  \* bound: sweeps of each comparer, which then waits at select
  MaxKeys     \* bound: keys that KEYS returns to each

ASSUME ShadowAssumption ==
  /\ Timed \subseteq Proc
  /\ MaxSweeps \in [Proc -> Nat \ {0}]
  /\ MaxKeys \in [Proc -> Nat]

VARIABLE
  mem  \* the memory of each comparer

vars == <<lockVars, mem>>

(* differed counts the comparisons with a difference or an error, whether  *)
(* they have been counted in mismatches yet or not; it is a history.       *)
Fresh0(p) ==
  [sweeps |-> 0, compared |-> 0, mismatches |-> 0, sweepTimeouts |-> 0, loaded |-> 0,
   sig |-> FALSE, work |-> [s \in 1..MaxSweeps[p] |-> [pc |-> "none", left |-> 0]],
   differed |-> 0]

Init == LockInit /\ mem = [p \in Proc |-> Fresh0(p)]

Forget(p) == mem' = [mem EXCEPT ![p] = Fresh0(p)]

MoveTo(p, l) == Goto(p, l) /\ UNCHANGED <<lock, tmp, now, born, seen, took>>

-----------------------------------------------------------------------------
(* The goroutine of a sweep.  It goes on after the sweep is abandoned, as  *)
(* long as the process lives.                                              *)
At(p, s, l) == Running(p) /\ mem[p].work[s].pc = l

(* KEYS: an error, like an empty answer, ends the sweep.                   *)
ListKeys(p, s) ==
  /\ At(p, s, "keys")
  /\ \E n \in 0..MaxKeys[p] :
       mem' = [mem EXCEPT ![p].work[s] = [pc |-> IF n = 0 THEN "done" ELSE "get", left |-> n]]
  /\ UNCHANGED lockVars

NextKey(w) == [pc |-> IF w.left = 1 THEN "done" ELSE "get", left |-> w.left - 1]

(* Both GETs, and compared.Add.  A value that differs, and an error of     *)
(* either side, is a mismatch.                                             *)
Compare(p, s) ==
  /\ At(p, s, "get")
  /\ \/ mem' = [mem EXCEPT ![p].compared = @ + 1, ![p].work[s] = NextKey(@)]
     \/ mem' = [mem EXCEPT ![p].compared = @ + 1, ![p].work[s].pc = "differ",
                           ![p].differed = @ + 1]
  /\ UNCHANGED lockVars

(* A mutant of CountMismatch: the key is tried once more.                  *)
CountAndRetry(p, s) ==
  /\ At(p, s, "differ")
  /\ mem' = [mem EXCEPT ![p].mismatches = @ + 1, ![p].work[s].pc = "get"]
  /\ UNCHANGED lockVars

(* mismatches.Add and the line of the mismatch log.                        *)
CountMismatch(p, s) ==
  /\ At(p, s, "differ")
  /\ mem' = [mem EXCEPT ![p].mismatches = @ + 1, ![p].work[s] = NextKey(@)]
  /\ UNCHANGED lockVars

-----------------------------------------------------------------------------
(* The loop of runContinuous.                                              *)

SweepStart(p) ==
  /\ pc[p] = "ready"
  /\ mem' = [mem EXCEPT ![p].sweeps = @ + 1,
                        ![p].work[mem[p].sweeps + 1] = [pc |-> "keys", left |-> 0]]
  /\ MoveTo(p, "sweep")

(* A mutant of SweepDone: the sweep does not wait for its goroutine.       *)
SweepReturns(p) == pc[p] = "sweep" /\ MoveTo(p, "beat") /\ UNCHANGED mem

SweepDone(p) ==
  /\ pc[p] = "sweep"
  /\ mem[p].work[mem[p].sweeps].pc = "done"
  /\ MoveTo(p, "beat")
  /\ UNCHANGED mem

(* -sweep-timeout: the goroutine is abandoned, the counters stand.         *)
SweepTimeout(p) ==
  /\ pc[p] = "sweep"
  /\ mem' = [mem EXCEPT ![p].sweepTimeouts = @ + 1]
  /\ MoveTo(p, "beat")

(* The heartbeat, on the screen and in the lock file.                      *)
Heartbeat(p) ==
  /\ BeatWrite(p) \/ BeatRename(p) \/ BeatFails(p)
  /\ UNCHANGED mem

(* The end of -duration is looked at after a sweep, and only then.         *)
CheckDeadline(p) ==
  /\ pc[p] = "next"
  /\ MoveTo(p, "wait") \/ (p \in Timed /\ MoveTo(p, "load"))
  /\ UNCHANGED mem

(* select: the ticker, for another sweep ...                               *)
Again(p) ==
  /\ pc[p] = "wait"
  /\ mem[p].sweeps < MaxSweeps[p]
  /\ MoveTo(p, "ready")
  /\ UNCHANGED mem

(* A mutant of TakeSignal: it breaks off the select and not the loop.      *)
BreakSelect(p) ==
  /\ pc[p] = "wait"
  /\ mem[p].sig
  /\ mem[p].sweeps < MaxSweeps[p]
  /\ mem' = [mem EXCEPT ![p].sig = FALSE]
  /\ MoveTo(p, "ready")

(* ... or the signal, which ends the loop.                                 *)
TakeSignal(p) ==
  /\ pc[p] = "wait"
  /\ mem[p].sig
  /\ MoveTo(p, "load")
  /\ UNCHANGED mem

LoadCompared(p) ==
  /\ pc[p] = "load"
  /\ mem' = [mem EXCEPT ![p].loaded = mem[p].compared]
  /\ MoveTo(p, "report")

(* pct: the match rate, in per cent.                                       *)
Pct(checked, mismatch) ==
  IF checked = 0 THEN 100 ELSE ((checked - mismatch) * 100) \div checked

(* What WriteReport writes.                                                *)
Report(p) ==
  [compared |-> mem[p].loaded, mismatches |-> mem[p].mismatches,
   rate |-> Pct(mem[p].loaded, mem[p].mismatches)]

(* mismatches.Load and WriteFile; os.Exit(2) follows if there are any, and *)
(* the deferred release if there are none.                                 *)
WriteReport(p) ==
  /\ pc[p] = "report"
  /\ IF Report(p).mismatches > 0
       THEN MoveTo(p, "gone") /\ Forget(p)
       ELSE MoveTo(p, "exit") /\ UNCHANGED mem

(* Before it asks for signals, one of them kills it.                       *)
Signal(p) ==
  /\ pc[p] \in Working
  /\ ~mem[p].sig
  /\ mem' = [mem EXCEPT ![p].sig = TRUE]
  /\ UNCHANGED lockVars

-----------------------------------------------------------------------------
Worker(p) ==
  \E s \in 1..MaxSweeps[p] : ListKeys(p, s) \/ Compare(p, s) \/ CountMismatch(p, s)

Loop(p) ==
  \/ SweepStart(p) \/ SweepDone(p) \/ SweepTimeout(p) \/ Heartbeat(p)
  \/ CheckDeadline(p) \/ Again(p) \/ TakeSignal(p) \/ LoadCompared(p) \/ WriteReport(p)
  \/ (Release(p) /\ Forget(p))

Acquire(p) == AcquireStep(p) /\ UNCHANGED mem

Next ==
  \/ \E p \in Proc :
       \/ Start(p) /\ UNCHANGED mem
       \/ Acquire(p) \/ Loop(p) \/ Worker(p) \/ Signal(p)
       \/ Die(p) /\ Forget(p)
  \/ Tick /\ UNCHANGED mem

Spec == Init /\ [][Next]_vars

(* The main goroutine runs on, and select, which chooses at random, does   *)
(* not take the ticker for ever while a signal waits; nothing is assumed   *)
(* of the goroutines that talk to the servers.                             *)
Fairness ==
  \A p \in Proc :
    /\ WF_vars(Acquire(p))
    /\ WF_vars(Loop(p))
    /\ SF_vars(TakeSignal(p))

FairSpec == Spec /\ Fairness

-----------------------------------------------------------------------------
Count(p) == 0..(MaxSweeps[p] * MaxKeys[p])

(* Every variable has its type.                                            *)
TypeOK ==
  /\ LockTypeOK
  /\ \A p \in Proc :
       mem[p] \in [sweeps : 0..MaxSweeps[p], sweepTimeouts : 0..MaxSweeps[p],
                   compared : Count(p), mismatches : Count(p), loaded : Count(p),
                   differed : Count(p), sig : BOOLEAN,
                   work : [1..MaxSweeps[p] -> [pc : {"none", "keys", "get", "differ", "done"},
                                               left : 0..MaxKeys[p]]]]

(* The report of a run without sweep timeouts tells all that was compared: *)
(* every difference found, and no more differences than comparisons,       *)
(* although goroutines count and the report loads one counter after the    *)
(* other (runContinuous).                                                  *)
ReportTellsAll ==
  \A p \in Proc :
    pc[p] = "report" /\ mem[p].sweepTimeouts = 0 =>
      /\ Report(p).mismatches = mem[p].differed
      /\ Report(p).compared = mem[p].compared
      /\ Report(p).mismatches <= Report(p).compared

(* No failure mode stalls it: a comparer that is told to stop writes its   *)
(* report and ends, even if the source never answers a KEYS.  Nothing but  *)
(* the signal ends one without -duration.                                  *)
StopsWhenTold == \A p \in Proc : mem[p].sig ~> ~Running(p)
=============================================================================
