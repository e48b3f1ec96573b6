----------------------------- MODULE ReportLock -----------------------------
(***************************************************************************)
(* The lock file of the shadow comparer (acquireLock in                    *)
(* cmd/wavicle-migrate/main.go): one comparer at a time is to write a      *)
(* report.  The file is created exclusively by its first owner, refreshed  *)
(* with a heartbeat through .tmp and a rename, taken over when it is       *)
(* stale, and removed at the end.                                          *)
(*                                                                         *)
(* Each element of Proc is one run of the program, and its own pid.  One   *)
(* step is one system call on the file.  A file is the pid and heartbeat   *)
(* it records; one that was created and not yet written has heartbeat      *)
(* Blank.                                                                  *)
(***************************************************************************)
EXTENDS Integers

CONSTANTS
  Proc,        \* comparers started with the same -report
  Earlier,     \* the pid of a comparer that died before they start
  PidProbe,    \* signal 0 tells live processes (not on Windows)
  StaleAfter,  \* staleLockAfter
  MaxTime,     \* bound: the clock
  None         \* no file

Blank == -1

Pid == Proc \cup {Earlier}

File == [pid : Pid, hb : 0..MaxTime]

ASSUME LockAssumption ==
  /\ Earlier \notin Proc
  /\ PidProbe \in BOOLEAN
  /\ MaxTime \in Nat
  /\ StaleAfter \in 1..MaxTime
  /\ None \notin [pid : Pid, hb : 0..MaxTime \cup {Blank}]

VARIABLES
  lock,    \* the file at path
  tmp,     \* the file at path.tmp
  now,     \* time
  pc,      \* where each comparer is
  born,    \* the time acquireLock read when it was called
  seen,    \* the record it read, or None
  took     \* history: a comparer has decided to take a lock over

lockVars == <<lock, tmp, now, pc, born, seen, took>>

Acquiring == {"open", "fill", "judge", "decide", "take", "install"}

Working == {"ready", "sweep", "beat", "publish", "next", "wait", "load", "report", "exit"}

(* The comparer believes that it owns the report.                          *)
Owns(p) == pc[p] \in Working \cup {"fill"}

Running(p) == pc[p] \in Acquiring \cup Working

LockInit ==
  /\ lock \in {None, [pid |-> Earlier, hb |-> 0]}
  /\ tmp = None
  /\ now \in {0, StaleAfter}
  /\ pc = [p \in Proc |-> "off"]
  /\ born = [p \in Proc |-> 0]
  /\ seen = [p \in Proc |-> None]
  /\ took = FALSE

Goto(p, l) == pc' = [pc EXCEPT ![p] = l]

-----------------------------------------------------------------------------
(* acquireLock is called.                                                  *)
Start(p) ==
  /\ pc[p] = "off"
  /\ Goto(p, "open")
  /\ born' = [born EXCEPT ![p] = now]
  /\ UNCHANGED <<lock, tmp, now, seen, took>>

(* A mutant of Create: the file is opened without O_EXCL.                  *)
CreateShared(p) ==
  /\ pc[p] = "open"
  /\ lock' = [pid |-> p, hb |-> Blank]
  /\ Goto(p, "fill")
  /\ UNCHANGED <<tmp, now, born, seen, took>>

(* OpenFile with O_CREATE and O_EXCL.                                      *)
Create(p) ==
  /\ pc[p] = "open"
  /\ lock = None
  /\ lock' = [pid |-> p, hb |-> Blank]
  /\ Goto(p, "fill")
  /\ UNCHANGED <<tmp, now, born, seen, took>>

(* The winner's Write, into the file it created, wherever that is now; its *)
(* error is ignored.                                                       *)
Fill(p) ==
  /\ pc[p] = "fill"
  /\ \/ /\ lock = [pid |-> p, hb |-> Blank]
        /\ lock' = [pid |-> p, hb |-> born[p]]
     \/ UNCHANGED lock
  /\ Goto(p, "ready")
  /\ UNCHANGED <<tmp, now, born, seen, took>>

(* The file is there, or cannot be opened: read and judge.                 *)
OpenFails(p) ==
  /\ pc[p] = "open"
  /\ Goto(p, "judge")
  /\ UNCHANGED <<lock, tmp, now, born, seen, took>>

Readable == lock # None /\ lock.hb # Blank

ReadLock(p) ==
  /\ pc[p] = "judge"
  /\ Readable
  /\ seen' = [seen EXCEPT ![p] = lock]
  /\ Goto(p, "decide")
  /\ UNCHANGED <<lock, tmp, now, born, took>>

(* Six attempts have failed: unreadable counts as fresh.                   *)
GiveUp(p) ==
  /\ pc[p] = "judge"
  /\ ~Readable
  /\ Goto(p, "refused")
  /\ UNCHANGED <<lock, tmp, now, born, seen, took>>

Fresh(p) == born[p] - seen[p].hb < StaleAfter

(* What pidAlive may say of a pid; the number of a dead process may have   *)
(* been given to another.                                                  *)
AliveAnswers(q) ==
  IF ~PidProbe THEN {FALSE}
  ELSE IF q \in Proc /\ Running(q) THEN {TRUE}
  ELSE {FALSE, TRUE}

Decide(p) ==
  /\ pc[p] = "decide"
  /\ \E alive \in AliveAnswers(seen[p].pid) :
       IF Fresh(p) \/ alive
         THEN Goto(p, "refused") /\ UNCHANGED took
         ELSE Goto(p, "take") /\ took' = TRUE
  /\ seen' = [seen EXCEPT ![p] = None]
  /\ UNCHANGED <<lock, tmp, now, born>>

-----------------------------------------------------------------------------
(* writeLock, of the takeover and of a heartbeat: WriteFile to .tmp ...    *)
TakeWrite(p) ==
  /\ pc[p] = "take"
  /\ tmp' = [pid |-> p, hb |-> born[p]]
  /\ Goto(p, "install")
  /\ UNCHANGED <<lock, now, born, seen, took>>

BeatWrite(p) ==
  /\ pc[p] = "beat"
  /\ tmp' = [pid |-> p, hb |-> now]
  /\ Goto(p, "publish")
  /\ UNCHANGED <<lock, now, born, seen, took>>

(* ... and Rename, which fails when another comparer has renamed it.  Only *)
(* the takeover looks at the error of either.                              *)
Rename ==
  /\ lock' = IF tmp = None THEN lock ELSE tmp
  /\ tmp' = None

TakeFails(p) ==
  /\ pc[p] = "take"
  /\ Goto(p, "refused")
  /\ UNCHANGED <<lock, tmp, now, born, seen, took>>

BeatFails(p) ==
  /\ pc[p] = "beat"
  /\ Goto(p, "next")
  /\ UNCHANGED <<lock, tmp, now, born, seen, took>>

TakeRename(p) ==
  /\ pc[p] = "install"
  /\ Rename
  /\ Goto(p, IF tmp = None THEN "refused" ELSE "ready")
  /\ UNCHANGED <<now, born, seen, took>>

BeatRename(p) ==
  /\ pc[p] = "publish"
  /\ Rename
  /\ Goto(p, "next")
  /\ UNCHANGED <<now, born, seen, took>>

-----------------------------------------------------------------------------
(* The deferred release: Remove, whoever the file belongs to by now.       *)
Release(p) ==
  /\ pc[p] = "exit"
  /\ lock' = None
  /\ Goto(p, "gone")
  /\ UNCHANGED <<tmp, now, born, seen, took>>

(* os.Exit, log.Fatal and kills: no deferred call runs.                    *)
Die(p) ==
  /\ Running(p)
  /\ Goto(p, "gone")
  /\ UNCHANGED <<lock, tmp, now, born, seen, took>>

Tick ==
  /\ now < MaxTime
  /\ now' = now + 1
  /\ UNCHANGED <<lock, tmp, pc, born, seen, took>>

AcquireStep(p) ==
  \/ Create(p) \/ Fill(p) \/ OpenFails(p) \/ ReadLock(p) \/ GiveUp(p) \/ Decide(p)
  \/ TakeWrite(p) \/ TakeRename(p) \/ TakeFails(p)

-----------------------------------------------------------------------------
LockTypeOK ==
  /\ lock \in [pid : Pid, hb : 0..MaxTime \cup {Blank}] \cup {None}
  /\ tmp \in File \cup {None}
  /\ now \in 0..MaxTime
  /\ pc \in [Proc -> Acquiring \cup Working \cup {"off", "refused", "gone"}]
  /\ born \in [Proc -> 0..MaxTime]
  /\ seen \in [Proc -> File \cup {None}]
  /\ took \in BOOLEAN

(* Two comparers never own one report: simultaneous starters are           *)
(* serialized by the exclusive create, and a live owner is never taken     *)
(* over (the comments on acquireLock and in runContinuous).                *)
OneOwner == \A p, q \in Proc : Owns(p) /\ Owns(q) => p = q

(* The same until the first takeover: the exclusive create alone keeps     *)
(* owners apart, whatever crashes and whoever releases, as a lock file     *)
(* that is left behind is only ever removed by its owner.                  *)
OneOwnerUntilTakeover == ~took => OneOwner
=============================================================================
