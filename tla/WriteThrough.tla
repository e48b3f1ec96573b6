---------------------------- MODULE WriteThrough ----------------------------
(***************************************************************************)
(* Production mode: WriteThroughStore (internal/storage/adapter.go) over   *)
(* PostgreSQL and the local frontier cache, with the CDC applier and the   *)
(* snapshots of main.go, and PGListener feeding the applier.               *)
(*                                                                         *)
(* One step is one round trip to the database or one call of the local     *)
(* cache.  The local cache is the map that LossyMap specifies: AppendAtom  *)
(* is one step, and an entry may vanish at any time (eviction, expiry).    *)
(* An atom is its value.  Its PhysicalTime only matters to the applier,    *)
(* which compares it with the time an event was sent: AppendAtom marks the *)
(* events under way to its path as late.                                   *)
(***************************************************************************)
EXTENDS Listener

CONSTANTS
  Written,  \* what transactions write: texts, Null, Absent (DELETE)
  Client,   \* goroutines serving connections
  Applier,  \* the goroutine of runCDCApplier
  NilText   \* the text "<nil>", which fmt.Sprint prints for SQL NULL

ASSUME WriteThroughAssumption ==
  /\ Written \subseteq Val \cup {Null, Absent}
  /\ Applier \notin Client
  /\ NilText \notin Val \cup {Null, Absent}
  /\ Absent \notin Event

VARIABLES
  local,  \* the local cache: the value of each path, or Absent
  job,    \* where each goroutine is
  evt,    \* the event the applier is working on, or Absent
  held,   \* the atom the applier has just appended is still the current one
  snap,   \* the snapshot file: a value per path, or Absent
  done,   \* history: the transactions worked through
  reborn  \* history: the process has been restarted

cacheVars == <<local, job, evt, held, snap, done, reborn>>
vars == <<listenerVars, cacheVars>>

Proc == Client \cup {Applier}

Atom == Val \cup {Null, NilText, Absent}

Job == [pc : {"idle", "local", "look", "select", "seed", "fetch", "decide", "tomb"},
        path : Path \cup {Absent},
        val : Val \cup {Null, Absent},
        cached : Atom,
        late : BOOLEAN]

Idle == [pc |-> "idle", path |-> Absent, val |-> Absent, cached |-> Absent,
         late |-> FALSE]

Init ==
  /\ ListenerInit
  /\ local = [p \in Path |-> Absent]
  /\ job = [w \in Proc |-> Idle]
  /\ evt = Absent
  /\ held = FALSE
  /\ snap = [p \in Path |-> Absent]
  /\ done = {}
  /\ reborn = FALSE

(* An event under way when v is appended to p is older than the new atom.  *)
(* By Guard 2 of the local AppendAtom an equal value keeps the old atom,   *)
(* and its PhysicalTime.                                                   *)
Touched(e, p, v) ==
  IF e # Absent /\ e.path = p /\ local[p] # v THEN [e EXCEPT !.late = TRUE] ELSE e

(* local.AppendAtom, as far as the cache and the channel go ...            *)
Put(p, v) ==
  /\ local' = [local EXCEPT ![p] = v]
  /\ events' = [i \in DOMAIN events |-> Touched(events[i], p, v)]

(* ... and the applier's event and atom, when a client calls it.           *)
PutByClient(p, v) ==
  /\ Put(p, v)
  /\ evt' = Touched(evt, p, v)
  /\ held' = (held /\ (local[p] = v \/ job[Applier].path # p))

-----------------------------------------------------------------------------
(* Writers.                                                                *)

(* A transaction of another program.                                       *)
External(p, v) ==
  /\ Transact(p, v)
  /\ UNCHANGED <<acked, conn, pos, mid, lastLSN, events, stopped, faults>>
  /\ UNCHANGED cacheVars

(* WriteThroughStore.AppendAtom, the upsert.  The commit may go through    *)
(* and its answer be lost: the caller then returns an error.               *)
WritePrimary(c, p, v) ==
  /\ job[c].pc = "idle"
  /\ v # Absent
  /\ Transact(p, v)
  /\ \/ job' = [job EXCEPT ![c] = [Idle EXCEPT !.pc = "local", !.path = p, !.val = v]]
     \/ UNCHANGED job
  /\ UNCHANGED <<acked, conn, pos, mid, lastLSN, events, stopped, faults>>
  /\ UNCHANGED <<local, evt, held, snap, done, reborn>>

(* A mutant of WriteRefused: every primary error falls back to the local   *)
(* append.                                                                 *)
FallBackOnAnyError(c, p, v) ==
  /\ job[c].pc = "idle"
  /\ v # Absent
  /\ job' = [job EXCEPT ![c] = [Idle EXCEPT !.pc = "local", !.path = p, !.val = v]]
  /\ UNCHANGED listenerVars
  /\ UNCHANGED <<local, evt, held, snap, done, reborn>>

(* The upsert fails for good: the error is returned, nothing is appended.  *)
(* (A path outside the table:id:column schema falls back to the local      *)
(* append; it has no row and no events, and is not a path of this module.) *)
WriteRefused(c, p, v) ==
  /\ job[c].pc = "idle"
  /\ v # Absent
  /\ UNCHANGED vars

(* ... and its local append.                                               *)
WriteLocal(c) ==
  /\ job[c].pc = "local"
  /\ PutByClient(job[c].path, job[c].val)
  /\ job' = [job EXCEPT ![c] = Idle]
  /\ UNCHANGED <<wal, acked, conn, pos, mid, lastLSN, stopped, faults>>
  /\ UNCHANGED <<snap, done, reborn>>

-----------------------------------------------------------------------------
(* WriteThroughStore.GetCurrent, by a client or by the applier.  A hit     *)
(* younger than 30 seconds changes nothing and is a step only of the       *)
(* applier, which goes on to use it.                                       *)

(* Where GetCurrent returns to; its result is the field cached, and late   *)
(* says whether that atom is younger than the applier's event.             *)
Returned(w) ==
  IF w = Applier THEN [job[w] EXCEPT !.pc = "decide", !.val = Absent] ELSE Idle

(* A miss, or a hit that is older than 30 seconds: ask the database.       *)
Look(w, p) ==
  /\ \/ w = Applier /\ job[w].pc = "look" /\ job[w].path = p
     \/ w # Applier /\ job[w].pc = "idle"
  /\ job' = [job EXCEPT ![w] = [Idle EXCEPT !.pc = "select", !.path = p,
                                            !.cached = local[p],
                                            !.late = w = Applier /\ evt.late]]
  /\ UNCHANGED <<listenerVars, local, evt, held, snap, done, reborn>>

(* The applier's fresh hit.                                                *)
LookHit ==
  /\ job[Applier].pc = "look"
  /\ local[job[Applier].path] # Absent
  /\ job' = [job EXCEPT ![Applier].pc = "decide", ![Applier].late = evt.late,
                        ![Applier].cached = local[job[Applier].path]]
  /\ UNCHANGED <<listenerVars, local, evt, held, snap, done, reborn>>

(* What a SELECT and Scan into a string find: NULL and no row are errors.  *)
Found(p) == Row(p) \notin {Null, Absent}

(* A mutant of Stale: a hit is returned as it is.                          *)
OnlyMisses(w, p) == job[w].cached = Absent

(* The row is to be appended: on a miss, or when the hit differs from it.  *)
Stale(w, p) == job[w].cached # Row(p)

(* PostgresStore.GetCurrent.  The query may fail, which is also "not ok".  *)
Select(w) ==
  /\ job[w].pc = "select"
  /\ LET p == job[w].path
     IN  \/ /\ Found(p) /\ Stale(w, p)
            /\ job' = [job EXCEPT ![w].pc = "seed", ![w].val = Row(p)]
            /\ UNCHANGED faults
         \/ /\ ~(Found(p) /\ Stale(w, p))
            /\ job' = [job EXCEPT ![w] = Returned(w)]
            /\ UNCHANGED faults
         \/ /\ Fault
            /\ job' = [job EXCEPT ![w] = Returned(w)]
  /\ UNCHANGED <<wal, acked, conn, pos, mid, lastLSN, events, stopped>>
  /\ UNCHANGED <<local, evt, held, snap, done, reborn>>

(* Append the row that was read to the local cache.                        *)
Seed(w) ==
  /\ job[w].pc = "seed"
  /\ \/ /\ w = Applier
        /\ Put(evt.path, job[w].val)
        /\ evt' = Touched(evt, evt.path, job[w].val)
        /\ held' = TRUE
        /\ job' = [job EXCEPT ![w].pc = "fetch"]
     \/ /\ w # Applier
        /\ PutByClient(job[w].path, job[w].val)
        /\ job' = [job EXCEPT ![w] = Idle]
  /\ UNCHANGED <<wal, acked, conn, pos, mid, lastLSN, stopped, faults>>
  /\ UNCHANGED <<snap, done, reborn>>

(* Local.GetAtom of the hash just appended: gone if it has been replaced.  *)
(* A miss then reports no atom, a hit the atom it had before.              *)
Fetch ==
  /\ job[Applier].pc = "fetch"
  /\ job' = [job EXCEPT
       ![Applier] = IF held THEN [Returned(Applier) EXCEPT !.cached = local[evt.path],
                                                           !.late = evt.late]
                    ELSE Returned(Applier)]
  /\ held' = FALSE
  /\ UNCHANGED <<listenerVars, local, evt, snap, done, reborn>>

-----------------------------------------------------------------------------
(* runCDCApplier.                                                          *)

Take ==
  /\ job[Applier].pc = "idle"
  /\ events # <<>>
  /\ evt' = Head(events)
  /\ events' = Tail(events)
  /\ job' = [job EXCEPT ![Applier] =
               [Idle EXCEPT !.pc = IF evt'.val = Absent THEN "tomb" ELSE "look",
                            !.path = evt'.path]]
  /\ UNCHANGED <<wal, acked, conn, pos, mid, lastLSN, stopped, faults>>
  /\ UNCHANGED <<local, held, snap, done, reborn>>

(* The event is worked through.                                            *)
Finish ==
  /\ job' = [job EXCEPT ![Applier] = Idle]
  /\ evt' = Absent
  /\ done' = done \cup {evt.lsn}
  /\ UNCHANGED <<wal, acked, conn, pos, mid, lastLSN, stopped, faults>>
  /\ UNCHANGED <<held, snap, reborn>>

(* A DELETE: a tombstone, whatever the cache holds.                        *)
Bury ==
  /\ job[Applier].pc = "tomb"
  /\ Put(evt.path, Null)
  /\ Finish

(* fmt.Sprint of the new column value.                                     *)
Text(v) == IF v = Null THEN NilText ELSE v

(* The atom GetCurrent returned is younger than the event, or shows it.    *)
Suppressed == LET j == job[Applier]
              IN  j.cached # Absent /\ (j.late \/ j.cached = Text(evt.val))

(* An INSERT or UPDATE, once GetCurrent has returned.                      *)
Decide ==
  /\ job[Applier].pc = "decide"
  /\ IF Suppressed THEN UNCHANGED <<local, events>>
                   ELSE Put(evt.path, Text(evt.val))
  /\ Finish

-----------------------------------------------------------------------------
(* The environment: eviction and expiry, snapshots, crashes, restarts.     *)

Lose(p) ==
  /\ local[p] # Absent
  /\ local' = [local EXCEPT ![p] = Absent]
  /\ held' = (held /\ job[Applier].path # p)
  /\ UNCHANGED <<listenerVars, job, evt, snap, done, reborn>>

(* SaveSnapshot leaves out tombstones.                                     *)
Saved == [p \in Path |-> IF local[p] = Null THEN Absent ELSE local[p]]

SaveSnapshot ==
  /\ snap' = Saved
  /\ UNCHANGED <<listenerVars, local, job, evt, held, done, reborn>>

(* A new process: LoadSnapshot appends what the file holds.                *)
Restart(file) ==
  /\ LoseListener
  /\ local' = file
  /\ job' = [w \in Proc |-> Idle]
  /\ evt' = Absent
  /\ held' = FALSE
  /\ reborn' = TRUE
  /\ UNCHANGED done

Crash ==
  /\ Fault
  /\ Restart(snap)
  /\ UNCHANGED snap

(* The end of a graceful shutdown: the applier has had two seconds, drained*)
(* or not, and the deferred SaveSnapshot runs.                             *)
Exit ==
  /\ stopped
  /\ snap' = Saved
  /\ Restart(Saved)
  /\ UNCHANGED faults

Listen == ListenerNext /\ UNCHANGED cacheVars

Apply == LookHit \/ Fetch \/ Take \/ Bury \/ Decide

Next ==
  \/ Listen
  \/ Apply
  \/ \E p \in Path, v \in Written :
       \/ External(p, v)
       \/ \E c \in Client : WritePrimary(c, p, v) \/ WriteRefused(c, p, v)
  \/ \E c \in Client : WriteLocal(c)
  \/ \E w \in Proc : Select(w) \/ Seed(w) \/ (\E p \in Path : Look(w, p))
  \/ \E p \in Path : Lose(p)
  \/ SaveSnapshot
  \/ Crash
  \/ Exit

Spec == Init /\ [][Next]_vars

(* The goroutines run on, the listener reconnects, the server streams and  *)
(* a shutdown ends.                                                        *)
Fairness ==
  /\ WF_vars(Connect /\ UNCHANGED cacheVars)
  /\ WF_vars((Receive \/ ReceiveCommit) /\ UNCHANGED cacheVars)
  /\ WF_vars(Apply \/ Select(Applier) \/ Seed(Applier) \/ (\E p \in Path : Look(Applier, p)))
  /\ WF_vars(Exit)
  /\ \A c \in Client : WF_vars(WriteLocal(c) \/ Select(c) \/ Seed(c))

FairSpec == Spec /\ Fairness

-----------------------------------------------------------------------------
(* Every variable has its type.                                            *)
TypeOK ==
  /\ ListenerTypeOK
  /\ local \in [Path -> Atom]
  /\ job \in [Proc -> Job]
  /\ evt \in Event \cup {Absent}
  /\ held \in BOOLEAN
  /\ snap \in [Path -> Val \cup {NilText, Absent}]
  /\ done \subseteq 1..MaxWal
  /\ reborn \in BOOLEAN

(* The local cache shows only what was committed in PostgreSQL at some     *)
(* time: a write whose upsert failed, an echo, a stale read-through or a   *)
(* snapshot never makes up a value (AppendAtom writes the primary first).  *)
Published ==
  \A p \in Path : local[p] # Absent =>
    \E i \in 1..Len(wal) :
      /\ wal[i].path = p
      /\ local[p] = IF wal[i].val = Absent THEN Null ELSE wal[i].val

(* Transaction i is worked through, in work, or queued for the applier.    *)
Handled(i) ==
  \/ i \in done
  \/ evt # Absent /\ evt.lsn = i
  \/ \E n \in 1..Len(events) : events[n].lsn = i

(* The sum WALStart + len(WALData) of an earlier message lies beyond the   *)
(* start of the commit record of i.                                        *)
Overshot(i) == i \in Adjoining \/ \E h \in 1..(i - 1) : Reach[h] >= i

(* While the listener streams, every change it is past has been applied or *)
(* is queued for the applier ("Track last processed LSN so reconnect       *)
(* resumes from here instead of 0", postgres.go:321).                      *)
NothingMissed == conn => \A i \in 1..pos : Handled(i)

(* As long as the process lives, whatever happens to its connections and   *)
(* wherever lastLSN and the flushed position have gone, forward or back, a *)
(* transaction the stream is past has been received, except for one whose  *)
(* commit the overshooting sum of an earlier message covers: a reconnect   *)
(* right after that message skips it.                                      *)
ReconnectMissesNothing ==
  ~reborn /\ conn => \A i \in 1..pos : Handled(i) \/ Overshot(i)

(* If keys keep being read (GetCurrent, once their atoms have aged), then, *)
(* once the writes stop, the local cache comes to agree with PostgreSQL    *)
(* and stays so: a stale read-through, a suppressed event, a value from an *)
(* old snapshot is repaired by the re-verification of aged atoms.          *)
Converges ==
  (\A c \in Client, p \in Path : SF_vars(Look(c, p)))
    => <>[](\A p \in Path : Found(p) => local[p] \in {Absent, Row(p)})
=============================================================================
