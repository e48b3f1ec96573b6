------------------------------- MODULE Crystal ------------------------------
(***************************************************************************)
(* CausalCrystal (internal/storage/crystal.go), the dev-mode store: an     *)
(* append-only log (wal.go), a frontier of current hashes, a cache of      *)
(* atoms, a compactor that rewrites the log through .tmp and .old, an      *)
(* emergency eviction, a sweeper of expired keys, and recovery by replay.  *)
(*                                                                         *)
(* There is no global lock: one step is one access to one structure under  *)
(* its own lock, or one system call of the log.  Atoms are numbered in the *)
(* order they are minted and the number stands for the hash.  A log file   *)
(* is its parsable lines and the state of its tail: "ok", "part" (bytes of *)
(* a line that does not parse) or "unended" (a whole line without newline).*)
(***************************************************************************)
EXTENDS Integers, Sequences, FiniteSets, Functions

CONSTANTS
  Path,      \* keys
  Writer,    \* goroutines that call AppendAtom
  Sweeper,   \* the goroutine of sweepExpired, which calls it too
  Feature,   \* what may happen: "crash", "tear", "short", "compact", "evict",
             \* "io", "ttl"; "overlap": compactions beside appends
  MaxAtoms,  \* maxAtomCacheEntries
  MaxHash,   \* bound: atoms minted
  MaxMortal, \* bound: atoms with a deadline
  Absent     \* no such file

Hash == 1..MaxHash

(* A log file.                                                             *)
File == [lines : Seq(Hash), tail : {"ok", "part", "unended"}]

ASSUME CrystalAssumption ==
  /\ MaxAtoms \in Nat
  /\ MaxHash \in Nat
  /\ MaxMortal \in Nat
  /\ (Writer \cup {Sweeper}) \cap {"nobody", "compactor"} = {}
  /\ Sweeper \notin Writer
  /\ Absent \notin File /\ \A S \in SUBSET Hash : S # Absent

Appender == Writer \cup {Sweeper}

VARIABLES
  minted,    \* the path of each atom minted so far
  mortal,    \* the atoms with a deadline
  frontier,  \* FrontierIndex: the current hash of each path, 0 for none
  atoms,     \* atomCache: the hashes it holds
  log,       \* the file at w.path
  tmp,       \* the file at w.path.tmp
  old,       \* the file at w.path.old
  unsynced,  \* the log before a Write that no Sync has followed yet
  handle,    \* w.file is open
  mu,        \* who holds w.mu
  job,       \* the AppendAtom of each goroutine
  sweep,     \* the paths the sweeper found expired, and whether it buries them
  cp,        \* the compactor
  acked,     \* history: atoms whose AppendAtom returned
  prior,     \* history: atoms of the same path acknowledged before each began
  buried,    \* history: the sweeper's tombstones
  damaged    \* history: the log was left without its last newline or its file

mem == <<frontier, atoms>>
disk == <<log, tmp, old, unsynced, handle, mu>>
content == <<minted, mortal, prior, buried>>
ghost == <<content, acked, damaged>>
vars == <<ghost, mem, disk, job, sweep, cp>>

Empty == [lines |-> <<>>, tail |-> "ok"]

NoJob == [pc |-> "idle", path |-> Absent, hash |-> 0, keep |-> {}]

NoCompaction == [pc |-> "idle", todo |-> {}, alive |-> <<>>, keep |-> {}, start |-> {}]

(* found: of each path found expired, what was acknowledged by then.       *)
NoSweep == [burying |-> FALSE, found |-> [p \in Path |-> Absent]]

(* Recover: replay in file order, the last line of a path wins.            *)
Replay(lines) ==
  [p \in Path |->
     LET at == {i \in DOMAIN lines : minted[lines[i]] = p}
     IN IF at = {} THEN 0 ELSE lines[CHOOSE i \in at : \A j \in at : j <= i]]

ButLast(lines) == SubSeq(lines, 1, Len(lines) - 1)

(* A line written at the end of a file whose tail is no whole line is      *)
(* glued to it: neither parses, and the next one starts afresh.            *)
WithLine(file, h) ==
  CASE file.tail = "ok" -> [file EXCEPT !.lines = Append(@, h)]
    [] file.tail = "part" -> [file EXCEPT !.tail = "ok"]
    [] file.tail = "unended" -> [lines |-> ButLast(file.lines), tail |-> "ok"]

(* Some bytes of a line at the end of a file.                              *)
WithPart(file) ==
  [lines |-> IF file.tail = "unended" THEN ButLast(file.lines) ELSE file.lines,
   tail |-> "part"]

FrontierHashes == {frontier[p] : p \in Path} \ {0}

-----------------------------------------------------------------------------
Init ==
  /\ minted = <<>>
  /\ mortal = {}
  /\ buried = {}
  /\ frontier = [p \in Path |-> 0]
  /\ atoms = {}
  /\ log = Empty
  /\ tmp = Absent
  /\ old = Absent
  /\ unsynced = Absent
  /\ handle = TRUE
  /\ mu = "nobody"
  /\ job = [w \in Appender |-> NoJob]
  /\ sweep = NoSweep
  /\ cp = NoCompaction
  /\ acked = {}
  /\ prior = <<>>
  /\ damaged = FALSE

At(w, l) == job[w].pc = l

CpAt(l) == cp.pc = l

GoTo(w, l) == job' = [job EXCEPT ![w].pc = l]

(* AppendAtom: mint the atom.                                              *)
Mint(w, p) ==
  /\ At(w, "idle")
  /\ "overlap" \in Feature \/ CpAt("idle")
  /\ Len(minted) < MaxHash
  /\ minted' = Append(minted, p)
  /\ job' = [job EXCEPT ![w] = [pc |-> "write", path |-> p, hash |-> Len(minted) + 1,
                                keep |-> {}]]
  /\ UNCHANGED <<acked, damaged, mem, disk, cp>>

AckedOf(p) == {h \in acked : minted[h] = p}

(* A client's write, with or without a deadline.                           *)
ClientWrite(w, p) ==
  /\ Mint(w, p)
  /\ \/ UNCHANGED mortal
     \/ "ttl" \in Feature /\ Cardinality(mortal) < MaxMortal /\ mortal' = mortal \cup {Len(minted) + 1}
  /\ prior' = Append(prior, AckedOf(p))
  /\ UNCHANGED <<buried, sweep>>

(* WAL.Append up to Write: under w.mu, refused when the file is closed.    *)
WalWrite(w) ==
  /\ At(w, "write")
  /\ mu = "nobody"
  /\ \/ /\ handle
        /\ mu' = w
        /\ log' = WithLine(log, job[w].hash)
        /\ unsynced' = log
        /\ GoTo(w, "sync")
     \/ /\ ~handle
        /\ job' = [job EXCEPT ![w] = NoJob]
        /\ UNCHANGED <<mu, log, unsynced>>
  /\ UNCHANGED <<ghost, mem, tmp, old, handle, cp>>

(* WAL.Append fails after some bytes of the line reached the file, or in   *)
(* Sync with all of them there; AppendAtom reports the error.              *)
WalFails(w) ==
  /\ "short" \in Feature
  /\ \/ /\ At(w, "write") /\ mu = "nobody" /\ handle
        /\ log' = WithPart(log)
        /\ damaged' = TRUE
     \/ /\ At(w, "sync")
        /\ UNCHANGED <<log, damaged>>
  /\ mu' = "nobody"
  /\ unsynced' = Absent
  /\ job' = [job EXCEPT ![w] = NoJob]
  /\ UNCHANGED <<content, acked, mem, tmp, old, handle, cp>>

(* A mutant of WalSync: w.mu is not released.                              *)
WalSyncKeepsLock(w) ==
  /\ At(w, "sync")
  /\ unsynced' = Absent
  /\ GoTo(w, "frontier")
  /\ UNCHANGED <<ghost, mem, log, tmp, old, handle, mu, cp>>

WalSync(w) ==
  /\ At(w, "sync")
  /\ unsynced' = Absent
  /\ mu' = "nobody"
  /\ GoTo(w, "frontier")
  /\ UNCHANGED <<ghost, mem, log, tmp, old, handle, cp>>

(* A mutant of SetFrontier: a path keeps its first atom.                   *)
SetFrontierOnce(w) ==
  /\ At(w, "frontier")
  /\ frontier' = [frontier EXCEPT ![job[w].path] = IF @ = 0 THEN job[w].hash ELSE @]
  /\ GoTo(w, "store")
  /\ UNCHANGED <<ghost, atoms, disk, cp>>

SetFrontier(w) ==
  /\ At(w, "frontier")
  /\ frontier' = [frontier EXCEPT ![job[w].path] = job[w].hash]
  /\ GoTo(w, "store")
  /\ UNCHANGED <<ghost, atoms, disk, cp>>

StoreAtom(w) ==
  /\ At(w, "store")
  /\ atoms' = atoms \cup {job[w].hash}
  /\ GoTo(w, "check")
  /\ UNCHANGED <<ghost, frontier, disk, cp>>

(* AppendAtom returns.                                                     *)
Ack(w) ==
  /\ \/ At(w, "check") /\ ("evict" \notin Feature \/ Cardinality(atoms) <= MaxAtoms)
     \/ At(w, "evict")
  /\ acked' = acked \cup {job[w].hash}
  /\ job' = [job EXCEPT ![w] = NoJob]
  /\ UNCHANGED <<content, damaged, mem, disk, cp>>

(* evictIfNeeded: take the set of frontier hashes.                         *)
EvictStart(w) ==
  /\ At(w, "check")
  /\ "evict" \in Feature
  /\ Cardinality(atoms) > MaxAtoms
  /\ job' = [job EXCEPT ![w].pc = "evict", ![w].keep = FrontierHashes]
  /\ UNCHANGED <<ghost, mem, disk, cp>>

(* A mutant of EvictAtom: the frontier is not read again.                  *)
EvictBySnapshot(w, h) ==
  /\ At(w, "evict")
  /\ h \in atoms \ job[w].keep
  /\ atoms' = atoms \ {h}
  /\ UNCHANGED <<ghost, frontier, disk, job, cp>>

(* evictIfNeeded: drop one atom that is not in the set and is not its      *)
(* path's current one; it stops when it has dropped a tenth.               *)
EvictAtom(w, h) ==
  /\ At(w, "evict")
  /\ h \in atoms \ job[w].keep
  /\ frontier[minted[h]] # h
  /\ atoms' = atoms \ {h}
  /\ UNCHANGED <<ghost, frontier, disk, job, cp>>

-----------------------------------------------------------------------------
(* A mutant of SweepLook: ExpiresAt.IsZero is not asked.                   *)
SweepLookAtAll(p) ==
  /\ "ttl" \in Feature
  /\ At(Sweeper, "idle") /\ ~sweep.burying /\ sweep.found[p] = Absent
  /\ frontier[p] \in atoms
  /\ sweep' = [sweep EXCEPT !.found[p] = AckedOf(p)]
  /\ UNCHANGED <<ghost, mem, disk, job, cp>>

(* The tick of sweepExpired looks at the paths one by one: the deadline of *)
(* this one has passed.  The others leave no trace.                        *)
SweepLook(p) ==
  /\ "ttl" \in Feature
  /\ At(Sweeper, "idle") /\ ~sweep.burying /\ sweep.found[p] = Absent
  /\ frontier[p] \in atoms \cap mortal
  /\ sweep' = [sweep EXCEPT !.found[p] = AckedOf(p)]
  /\ UNCHANGED <<ghost, mem, disk, job, cp>>

(* Then it appends a tombstone to each path that was found expired,        *)
(* whatever it holds by now.                                               *)
SweepBury(p) ==
  /\ sweep.found[p] # Absent
  /\ Mint(Sweeper, p)
  /\ buried' = buried \cup {Len(minted) + 1}
  /\ prior' = Append(prior, sweep.found[p])
  /\ sweep' = [burying |-> \E q \in Path \ {p} : sweep.found[q] # Absent,
               found |-> [sweep.found EXCEPT ![p] = Absent]]
  /\ UNCHANGED mortal

-----------------------------------------------------------------------------
(* Compact and WAL.Rewrite.                                                *)

(* Compact: the paths to keep.                                             *)
CpStart ==
  /\ CpAt("idle")
  /\ "compact" \in Feature
  /\ "overlap" \in Feature \/ \A w \in Appender : At(w, "idle")
  /\ cp' = [NoCompaction EXCEPT !.pc = "collect", !.todo = {p \in Path : frontier[p] # 0}]
  /\ UNCHANGED <<ghost, mem, disk, job>>

(* The current atom of one path, if the cache has it; the paths come in    *)
(* any order.                                                              *)
CpCollect(p) ==
  /\ CpAt("collect")
  /\ p \in cp.todo
  /\ cp' = [cp EXCEPT !.todo = @ \ {p},
                      !.alive = IF frontier[p] \in atoms THEN Append(@, frontier[p]) ELSE @]
  /\ UNCHANGED <<ghost, mem, disk, job>>

(* Rewrite: lock w.mu, write and sync the temporary file.                  *)
RwTmp ==
  /\ CpAt("collect")
  /\ cp.todo = {}
  /\ mu = "nobody"
  /\ \/ /\ handle
        /\ tmp' = [lines |-> cp.alive, tail |-> "ok"]
        /\ mu' = "compactor"
        /\ cp' = [cp EXCEPT !.pc = "close"]
     \/ /\ ~handle \/ "io" \in Feature   \* closed, or the write fails
        /\ cp' = NoCompaction
        /\ UNCHANGED <<tmp, mu>>
  /\ UNCHANGED <<ghost, mem, log, old, unsynced, handle, job>>

(* Steps 2 and 3: close the log, remove a left-over .old.                  *)
RwClose ==
  /\ CpAt("close")
  /\ handle' = FALSE
  /\ old' = Absent
  /\ cp' = [cp EXCEPT !.pc = "backup"]
  /\ UNCHANGED <<ghost, mem, log, tmp, unsynced, mu, job>>

(* Step 4: the log becomes .old; a failure is ignored.                     *)
RwBackup ==
  /\ CpAt("backup")
  /\ \/ old' = log /\ log' = Absent
     \/ "io" \in Feature /\ UNCHANGED <<old, log>>
  /\ cp' = [cp EXCEPT !.pc = "swap"]
  /\ UNCHANGED <<ghost, mem, tmp, unsynced, handle, mu, job>>

(* A mutant of RwSwap: .old is not moved back.                             *)
RwSwapNoRestore ==
  /\ CpAt("swap")
  /\ \/ /\ log' = tmp
        /\ tmp' = Absent
        /\ old' = Absent
        /\ cp' = [cp EXCEPT !.pc = "reopen"]
     \/ /\ "io" \in Feature
        /\ cp' = [cp EXCEPT !.pc = "abort"]
        /\ UNCHANGED <<log, tmp, old>>
  /\ UNCHANGED <<ghost, mem, unsynced, handle, mu, job>>

(* Step 5: .tmp becomes the log and .old is removed; on failure .old is    *)
(* moved back if it is there, and a failure of that is ignored.            *)
RwSwap ==
  /\ CpAt("swap")
  /\ \/ /\ log' = tmp
        /\ tmp' = Absent
        /\ old' = Absent
        /\ cp' = [cp EXCEPT !.pc = "reopen"]
        /\ UNCHANGED damaged
     \/ /\ "io" \in Feature
        /\ cp' = [cp EXCEPT !.pc = "abort"]
        /\ \/ /\ log' = IF old # Absent THEN old ELSE log
              /\ old' = Absent
              /\ UNCHANGED damaged
           \/ /\ old # Absent
              /\ damaged' = TRUE
              /\ UNCHANGED <<log, old>>
        /\ UNCHANGED tmp
  /\ UNCHANGED <<content, acked, mem, unsynced, handle, mu, job>>

(* reopenFile, which creates a missing file, and the unlock.  A failed     *)
(* rewrite or reopen ends Compact; otherwise the frontier is read again.   *)
RwReopen ==
  /\ cp.pc \in {"reopen", "abort"}
  /\ \/ /\ handle' = TRUE
        /\ log' = IF log = Absent THEN Empty ELSE log
        /\ cp' = IF CpAt("abort") THEN NoCompaction
                 ELSE [cp EXCEPT !.pc = "evict", !.keep = FrontierHashes, !.start = atoms]
     \/ /\ "io" \in Feature
        /\ cp' = NoCompaction
        /\ UNCHANGED <<handle, log>>
  /\ mu' = "nobody"
  /\ UNCHANGED <<ghost, mem, tmp, old, unsynced, job>>

(* atomCache.Range: drop an atom that is not in the set.  Range also meets *)
(* atoms stored since it began.                                            *)
CpEvict(h) ==
  /\ CpAt("evict")
  /\ h \in atoms \ cp.keep
  /\ atoms' = atoms \ {h}
  /\ UNCHANGED <<ghost, frontier, disk, job, cp>>

CpDone ==
  /\ CpAt("evict")
  /\ atoms \cap cp.start \subseteq cp.keep
  /\ cp' = NoCompaction
  /\ UNCHANGED <<ghost, mem, disk, job>>

-----------------------------------------------------------------------------
(* What a crash may leave of the log: a line that was not synced may be    *)
(* whole, lost, cut short or without its newline.                          *)
AfterCrash ==
  IF log = Absent THEN {Empty}
  ELSE IF unsynced = Absent \/ "tear" \notin Feature THEN {log}
  ELSE {log, unsynced, WithPart(unsynced)} \cup
       (IF unsynced.tail = "ok" THEN {[log EXCEPT !.tail = "unended"]} ELSE {})

(* The process dies and starts again: NewWAL removes .tmp and opens or     *)
(* creates the log, Recover replays it.  .old is not looked at.            *)
Crash ==
  /\ "crash" \in Feature
  /\ \E file \in AfterCrash :
       /\ log' = file
       /\ frontier' = Replay(file.lines)
       /\ atoms' = Range(file.lines)
       /\ damaged' = (damaged \/ log = Absent \/ file.tail # "ok")
  /\ tmp' = Absent
  /\ unsynced' = Absent
  /\ handle' = TRUE
  /\ mu' = "nobody"
  /\ job' = [w \in Appender |-> NoJob]
  /\ sweep' = NoSweep
  /\ cp' = NoCompaction
  /\ UNCHANGED <<content, acked, old>>

Append1(w) ==
  /\ \/ WalWrite(w) \/ WalSync(w) \/ WalFails(w)
     \/ SetFrontier(w) \/ StoreAtom(w) \/ Ack(w) \/ EvictStart(w)
     \/ \E h \in Hash : EvictAtom(w, h)
  /\ UNCHANGED sweep

Sweep == \E p \in Path : SweepLook(p) \/ SweepBury(p)

Compaction ==
  /\ \/ CpStart \/ RwTmp \/ RwClose \/ RwBackup \/ RwSwap \/ RwReopen \/ CpDone
     \/ \E p \in Path : CpCollect(p)
     \/ \E h \in Hash : CpEvict(h)
  /\ UNCHANGED sweep

Next ==
  \/ Compaction \/ Crash \/ Sweep
  \/ \E w \in Writer, p \in Path : ClientWrite(w, p)
  \/ \E w \in Appender : Append1(w)

Spec == Init /\ [][Next]_vars

-----------------------------------------------------------------------------
(* Every variable has its type, and w.mu is held exactly in the critical   *)
(* sections of WAL.Append and WAL.Rewrite.                                 *)
TypeOK ==
  /\ minted \in Seq(Path) /\ Len(minted) <= MaxHash
  /\ frontier \in [Path -> {0} \cup Hash]
  /\ atoms \subseteq Hash
  /\ log \in File \cup {Absent} /\ tmp \in File \cup {Absent} /\ old \in File \cup {Absent}
  /\ unsynced \in File \cup {Absent} /\ handle \in BOOLEAN
  /\ mu \in Appender \cup {"nobody", "compactor"}
  /\ mortal \subseteq Hash /\ buried \subseteq Hash
  /\ sweep \in [burying : BOOLEAN, found : [Path -> (SUBSET Hash) \cup {Absent}]]
  /\ job \in [Appender -> [pc : {"idle", "write", "sync", "frontier", "store", "check", "evict"},
                         path : Path \cup {Absent}, hash : {0} \cup Hash, keep : SUBSET Hash]]
  /\ cp \in [pc : {"idle", "collect", "close", "backup", "swap", "reopen", "abort", "evict"},
             todo : SUBSET Path, alive : Seq(Hash), keep : SUBSET Hash, start : SUBSET Hash]
  /\ acked \subseteq Hash /\ damaged \in BOOLEAN
  /\ \A w \in Appender : mu = w <=> At(w, "sync")
  /\ mu = "compactor" <=> cp.pc \in {"close", "backup", "swap", "reopen", "abort"}

(* A map from paths to hashes shows every acknowledged write or one that   *)
(* was not acknowledged before it began: none is missing, none is undone.  *)
Shows(f) ==
  \A h \in acked :
    /\ f[minted[h]] # 0
    /\ f[minted[h]] \notin prior[h]

(* Survives crashes: a crash and restart would show every acknowledged     *)
(* write, whenever the log is in place and was never left without its last *)
(* newline (a failed or torn write) or without its file (a crash or a      *)
(* failed restore between the two renames of Rewrite).                     *)
DurableUnlessDamaged == log # Absent /\ ~damaged => Shows(Replay(log.lines))

(* A live process shows every acknowledged write, of its own or replayed   *)
(* from an undamaged log, whatever is compacted and evicted meanwhile.     *)
FrontierShows == ~damaged => Shows(frontier)

(* The sweeper buries only what had a deadline: a write without one that   *)
(* was acknowledged before sweepExpired looked at its path is under the    *)
(* tombstone only if a write with a deadline had replaced it, and a crash  *)
(* and replay in between changes nothing.  (A write that comes after the   *)
(* look and before the tombstone is buried without a deadline.)            *)
BuriesOnlyExpired ==
  ~damaged =>
    \A t \in buried : \A h \in prior[t] \ mortal :
      \E e \in mortal : minted[e] = minted[h] /\ e \notin prior[h]

(* The current hash of a path always leads to its atom, except while the   *)
(* append that set it is about to store it: GetCurrent finds every key     *)
(* that was written, whatever was evicted.                                 *)
LiveResident ==
  \A p \in Path :
    frontier[p] # 0 =>
      \/ frontier[p] \in atoms
      \/ \E w \in Appender : At(w, "store") /\ job[w].hash = frontier[p]
=============================================================================
