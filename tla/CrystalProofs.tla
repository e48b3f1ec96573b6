--------------------------- MODULE CrystalProofs ----------------------------
(***************************************************************************)
(* The crystal loses no acknowledged write as long as its log is whole and *)
(* no append runs beside a compaction, for any paths, writers, limits and  *)
(* any failures the features allow.                                        *)
(***************************************************************************)
EXTENDS Crystal, TLAPS

-----------------------------------------------------------------------------
(* The inductive invariant, first what holds whatever overlaps.            *)

Minted == 1..Len(minted)

(* Prior writes were acknowledged, and none is prior to itself.            *)
ContentInv ==
  /\ minted \in Seq(Path) /\ Len(minted) <= MaxHash
  /\ prior \in Seq(SUBSET Hash) /\ Len(prior) = Len(minted)
  /\ acked \subseteq Minted /\ mortal \subseteq Minted /\ buried \subseteq Minted
  /\ \A h \in Minted : prior[h] \subseteq acked /\ h \notin prior[h]

(* The appends under way have atoms of their own, not acknowledged yet.    *)
JobInv ==
  /\ job \in [Appender -> [pc : {"idle", "write", "sync", "frontier", "store", "check", "evict"},
                           path : Path \cup {Absent}, hash : {0} \cup Hash, keep : SUBSET Hash]]
  /\ \A w \in Appender : ~At(w, "idle") =>
       /\ job[w].hash \in Minted \ acked
       /\ job[w].path = minted[job[w].hash]
       /\ \A v \in Appender : ~At(v, "idle") /\ job[v].hash = job[w].hash => v = w

(* A current hash is one of its path.                                      *)
MemInv ==
  /\ frontier \in [Path -> {0} \cup Minted]
  /\ \A p \in Path : frontier[p] # 0 => minted[frontier[p]] = p
  /\ atoms \subseteq Minted

(* The files with these lines; a whole line that lacks its newline is one. *)
FileOf(S) ==
  {f \in [lines : Seq(S), tail : {"ok", "part", "unended"}] :
     f.tail = "unended" => f.lines # <<>>}

IsFile(f) == f \in FileOf(Minted)

(* What is not synced is the line of the goroutine that holds the lock.    *)
DiskInv ==
  /\ \A f \in {log, tmp, old, unsynced} : f # Absent => IsFile(f)
  /\ handle \in BOOLEAN /\ damaged \in BOOLEAN
  /\ unsynced # Absent => /\ mu \in Appender /\ log # Absent
                          /\ log = WithLine(unsynced, job[mu].hash)

CpType ==
  /\ cp \in [pc : {"idle", "collect", "close", "backup", "swap", "reopen", "abort", "evict"},
             todo : SUBSET Path, alive : Seq(Hash), keep : SUBSET Hash, start : SUBSET Hash]
  /\ cp.alive \in Seq(Minted)

LockInv ==
  /\ mu \in Appender \cup {"nobody", "compactor"}
  /\ \A w \in Appender : mu = w <=> At(w, "sync")
  /\ mu = "compactor" <=> cp.pc \in {"close", "backup", "swap", "reopen", "abort"}
  /\ handle => log # Absent /\ cp.pc \notin {"backup", "swap", "reopen", "abort"}

(* What the sweeper found was acknowledged, to the path it was found at.   *)
SweepInv ==
  /\ sweep \in [burying : BOOLEAN, found : [Path -> (SUBSET Hash) \cup {Absent}]]
  /\ \A p \in Path : sweep.found[p] # Absent => sweep.found[p] \subseteq AckedOf(p)

TypeInv == ContentInv /\ JobInv /\ MemInv /\ DiskInv /\ CpType /\ LockInv /\ SweepInv

-----------------------------------------------------------------------------
(* ... and what holds as long as no append overlaps a compaction.          *)

(* Where an append has written its line, synced it, set the frontier.      *)
Logged == {"sync", "frontier", "store", "check", "evict"}
Synced == {"frontier", "store", "check", "evict"}
Current == {"store", "check", "evict"}

(* The atoms of the appends that are there.                                *)
InFlight(pcs) == {job[w].hash : w \in {v \in Appender : job[v].pc \in pcs}}

(* What a file shows, with the paths of the atoms as a parameter.                     *)
ReplayBy(m, lines) ==
  [p \in Path |->
     LET at == {i \in DOMAIN lines : m[lines[i]] = p}
     IN IF at = {} THEN 0 ELSE lines[CHOOSE i \in at : \A j \in at : j <= i]]

(* Shows, for a set of atoms, with their paths and prior writes.           *)
ShowsBy(m, pr, f, H) ==
  \A h \in H : f[m[h]] # 0 /\ f[m[h]] \notin pr[h]

(* What the compactor has collected and written is the frontier.           *)
CpInv ==
  /\ ~CpAt("idle") => \A w \in Appender : At(w, "idle")
  /\ CpAt("collect") =>
       /\ Range(cp.alive) \subseteq FrontierHashes
       /\ \A p \in Path \ cp.todo : frontier[p] # 0 => frontier[p] \in Range(cp.alive)
  /\ cp.pc \in {"close", "backup", "swap"} =>
       tmp # Absent /\ tmp.tail = "ok" /\ Range(tmp.lines) = FrontierHashes
  /\ CpAt("backup") => old = Absent
  /\ CpAt("evict") => cp.keep = FrontierHashes

(* The log, what a crash may leave of it and the frontier show every       *)
(* acknowledged write and those the appends under way have put there.      *)
ShowInv ==
  /\ log = Absent => CpAt("swap") /\ old # Absent
  /\ log # Absent =>
       /\ log.tail = "ok"
       /\ ShowsBy(minted, prior, ReplayBy(minted, log.lines), acked \cup InFlight(Logged))
  /\ unsynced # Absent =>
       /\ unsynced.tail = "ok"
       /\ ShowsBy(minted, prior, ReplayBy(minted, unsynced.lines), acked \cup InFlight(Synced))
  /\ CpAt("swap") /\ old # Absent =>
       /\ old.tail = "ok"
       /\ ShowsBy(minted, prior, ReplayBy(minted, old.lines), acked)
  /\ ShowsBy(minted, prior, frontier, acked \cup InFlight(Current))

(* What the sweeper found has been replaced by a write with a deadline.    *)
FoundInv ==
  \A p \in Path : sweep.found[p] # Absent =>
    \A h \in sweep.found[p] : \E e \in mortal : minted[e] = minted[h] /\ e \notin prior[h]

SafeInv ==
  /\ CpInv
  /\ LiveResident
  /\ ~damaged => ShowInv /\ FoundInv
  /\ BuriesOnlyExpired

IInv == TypeInv /\ SafeInv

-----------------------------------------------------------------------------
(* Naturals and recovery.                                                  *)

(* A set of places in a file has a last one.  It is a fact of the library, *)
(* LastExists below; what rests on it assumes it until then.               *)
LastThere ==
  \A n \in Nat : \A S \in SUBSET (1..n) : S # {} => \E i \in S : \A j \in S : j <= i

(* What Recover makes of a file: the last line of each path.               *)
LEMMA ReplayValue ==
  ASSUME LastThere, NEW m, NEW S, NEW lines \in Seq(S), NEW p \in Path
  PROVE  \/ /\ ReplayBy(m, lines)[p] = 0
            /\ \A i \in DOMAIN lines : m[lines[i]] # p
         \/ \E i \in DOMAIN lines :
              /\ ReplayBy(m, lines)[p] = lines[i]
              /\ m[lines[i]] = p
              /\ \A j \in DOMAIN lines : m[lines[j]] = p => j <= i
<1> DEFINE at == {i \in DOMAIN lines : m[lines[i]] = p}
           last == CHOOSE i \in at : \A j \in at : j <= i
<1>1. ReplayBy(m, lines)[p] = IF at = {} THEN 0 ELSE lines[last]
  BY DEF ReplayBy
<1>2. CASE at = {}
  BY <1>1, <1>2
<1>3. CASE at # {}
  <2>1. at \in SUBSET (1..Len(lines)) /\ Len(lines) \in Nat
    OBVIOUS
  <2>2. \E i \in at : \A j \in at : j <= i
    BY <1>3, <2>1, Zenon DEF LastThere
  <2>3. last \in at /\ \A j \in at : j <= last
    BY <2>2
  <2> QED BY <1>1, <1>3, <2>3, Zenon
<1> QED BY <1>2, <1>3

(* It is a frontier: every hash is one of its path, and in the file.       *)
LEMMA ReplayType ==
  ASSUME LastThere, NEW m, NEW S, NEW lines \in Seq(S)
  PROVE  /\ ReplayBy(m, lines) \in [Path -> {0} \cup S]
         /\ \A p \in Path : ReplayBy(m, lines)[p] # 0 =>
              m[ReplayBy(m, lines)[p]] = p /\ ReplayBy(m, lines)[p] \in Range(lines)
<1>1. ReplayBy(m, lines) = [p \in Path |-> ReplayBy(m, lines)[p]]
  BY DEF ReplayBy
<1>2. ASSUME NEW p \in Path
      PROVE  /\ ReplayBy(m, lines)[p] \in {0} \cup S
             /\ ReplayBy(m, lines)[p] # 0 =>
                  m[ReplayBy(m, lines)[p]] = p /\ ReplayBy(m, lines)[p] \in Range(lines)
  BY ReplayValue DEF Range
<1> QED BY <1>1, <1>2

(* A file with one more line, and a frontier with one hash replaced.       *)
Longer(more, lines, h) ==
  /\ Len(more) = Len(lines) + 1
  /\ more[Len(lines) + 1] = h
  /\ \A i \in 1..Len(lines) : more[i] = lines[i]

Replaced(g, f, q, h) == \A p \in Path : g[p] = IF p = q THEN h ELSE f[p]

(* One more line replaces the hash of its path.                            *)
LEMMA ReplayAppend ==
  ASSUME LastThere, NEW m, NEW S, NEW lines \in Seq(S), NEW h \in S, NEW more \in Seq(S),
         Longer(more, lines, h)
  PROVE  Replaced(ReplayBy(m, more), ReplayBy(m, lines), m[h], h)
<1> SUFFICES ASSUME NEW p \in Path
             PROVE  ReplayBy(m, more)[p] = IF p = m[h] THEN h ELSE ReplayBy(m, lines)[p]
  BY DEF Replaced
<1> USE DEF Longer
<1> DEFINE n == Len(lines)
<1>1. more \in Seq(S) /\ DOMAIN more = 1..n + 1 /\ DOMAIN lines = 1..n /\ n \in Nat
  OBVIOUS
<1>2. more[n + 1] = h /\ \A i \in 1..n : more[i] = lines[i]
  OBVIOUS
<1>v. \/ /\ ReplayBy(m, more)[p] = 0
         /\ \A i \in DOMAIN more : m[more[i]] # p
      \/ \E i \in DOMAIN more :
           /\ ReplayBy(m, more)[p] = more[i]
           /\ m[more[i]] = p
           /\ \A j \in DOMAIN more : m[more[j]] = p => j <= i
  BY <1>1, ReplayValue
<1>3. CASE m[h] = p
  <2>1. PICK i \in DOMAIN more : /\ ReplayBy(m, more)[p] = more[i]
                                 /\ \A j \in DOMAIN more : m[more[j]] = p => j <= i
    BY <1>1, <1>2, <1>3, <1>v
  <2>2. i = n + 1
    BY <1>1, <1>2, <1>3, <2>1
  <2> QED BY <1>2, <1>3, <2>1, <2>2
<1>4. CASE m[h] # p
  <2>1. CASE \A i \in DOMAIN lines : m[lines[i]] # p
    <3>1. \A i \in DOMAIN more : m[more[i]] # p
      BY <1>1, <1>2, <1>4, <2>1
    <3>2. ReplayBy(m, more)[p] = 0
      BY <1>v, <3>1
    <3>3. ReplayBy(m, lines)[p] = 0
      BY <2>1, ReplayValue
    <3> QED BY <1>4, <3>2, <3>3
  <2>2. CASE \E i \in DOMAIN lines : m[lines[i]] = p
    <3>1. PICK i \in DOMAIN lines : /\ ReplayBy(m, lines)[p] = lines[i]
                                    /\ m[lines[i]] = p
                                    /\ \A j \in DOMAIN lines : m[lines[j]] = p => j <= i
      BY <2>2, ReplayValue
    <3>2. m[more[i]] = p /\ i \in DOMAIN more
      BY <1>1, <1>2, <3>1
    <3>3. PICK k \in DOMAIN more : /\ ReplayBy(m, more)[p] = more[k]
                                   /\ m[more[k]] = p
                                   /\ \A j \in DOMAIN more : m[more[j]] = p => j <= k
      BY <1>v, <3>2
    <3>4. k \in 1..n /\ i \in 1..n
      BY <1>1, <1>2, <1>4, <3>3
    <3>5. i <= k /\ k <= i
      BY <1>1, <1>2, <3>1, <3>2, <3>3, <3>4
    <3>6. i = k
      BY <3>4, <3>5
    <3> QED BY <1>2, <1>4, <3>1, <3>3, <3>4, <3>6
  <2> QED BY <2>1, <2>2
<1> QED BY <1>3, <1>4

(* The compacted file gives the frontier back.                             *)
LEMMA ReplayFrontier ==
  ASSUME LastThere, NEW m, NEW S, NEW lines \in Seq(S), NEW f \in [Path -> {0} \cup S],
         \A p \in Path : f[p] # 0 => m[f[p]] = p,
         Range(lines) = {f[p] : p \in Path} \ {0}
  PROVE  ReplayBy(m, lines) = f
<1>1. ASSUME NEW p \in Path PROVE ReplayBy(m, lines)[p] = f[p]
  <2>1. \A i \in DOMAIN lines : lines[i] \in {f[q] : q \in Path} \ {0}
    BY Zenon DEF Range
  <2>2. \A i \in DOMAIN lines : m[lines[i]] = p => lines[i] = f[p]
    BY <2>1
  <2>3. ASSUME f[p] # 0 PROVE \E i \in DOMAIN lines : lines[i] = f[p] /\ m[lines[i]] = p
    <3>1. f[p] \in Range(lines)
      BY <2>3
    <3>2. PICK i \in DOMAIN lines : lines[i] = f[p]
      BY <3>1 DEF Range
    <3> QED BY <2>3, <3>2
  <2> QED BY <2>2, <2>3, ReplayValue
<1> QED BY <1>1, Zenon DEF ReplayBy

LEMMA RangeAppended ==
  ASSUME NEW S, NEW l \in Seq(S), NEW x \in S
  PROVE  Range(Append(l, x)) = Range(l) \cup {x}
<1>1. DOMAIN Append(l, x) = DOMAIN l \cup {Len(l) + 1}
  OBVIOUS
<1>2. Append(l, x)[Len(l) + 1] = x /\ \A i \in DOMAIN l : Append(l, x)[i] = l[i]
  OBVIOUS
<1> QED BY <1>1, <1>2, Zenon DEF Range

(* Atoms minted later change nothing.                                      *)
LEMMA ReplayKept ==
  ASSUME NEW m, NEW mm, NEW S, NEW lines \in Seq(S), \A h \in S : mm[h] = m[h]
  PROVE  ReplayBy(mm, lines) = ReplayBy(m, lines)
<1> DEFINE at(k, p) == {i \in DOMAIN lines : k[lines[i]] = p}
           val(T) == IF T = {} THEN 0 ELSE lines[CHOOSE i \in T : \A j \in T : j <= i]
<1>1. /\ ReplayBy(mm, lines) = [p \in Path |-> val(at(mm, p))]
      /\ ReplayBy(m, lines) = [p \in Path |-> val(at(m, p))]
  BY Zenon DEF ReplayBy
<1>2. \A p \in Path : at(mm, p) = at(m, p)
  OBVIOUS
<1> HIDE DEF val, at
<1> QED BY <1>1, <1>2

-----------------------------------------------------------------------------
(* Files.                                                                  *)

LEMMA ButLastType ==
  ASSUME NEW S, NEW l \in Seq(S), l # <<>>
  PROVE  ButLast(l) \in Seq(S)
BY DEF ButLast

LEMMA FileFields ==
  ASSUME NEW S, NEW f \in FileOf(S)
  PROVE  f.lines \in Seq(S) /\ f.tail \in {"ok", "part", "unended"}
BY DEF FileOf

LEMMA LineWritten ==
  ASSUME NEW S, NEW f \in FileOf(S), NEW h \in S
  PROVE  /\ WithLine(f, h) \in FileOf(S)
         /\ f.tail = "ok" => /\ WithLine(f, h) = [lines |-> Append(f.lines, h), tail |-> "ok"]
                             /\ WithLine(f, h).lines # <<>>
<1>1. CASE f.tail = "ok"
  <2>1. WithLine(f, h) = [f EXCEPT !.lines = Append(@, h)]
    BY <1>1 DEF WithLine
  <2>2. f \in [lines : Seq(S), tail : {"ok", "part", "unended"}]
    BY DEF FileOf
  <2>3. WithLine(f, h) = [lines |-> Append(f.lines, h), tail |-> "ok"]
    BY <1>1, <2>1, <2>2, Zenon
  <2>4. Append(f.lines, h) \in Seq(S) /\ Append(f.lines, h) # <<>>
    BY <2>2
  <2> QED BY <2>3, <2>4 DEF FileOf
<1>2. CASE f.tail = "part"
  BY <1>2 DEF WithLine, FileOf
<1>3. CASE f.tail = "unended"
  BY <1>3, ButLastType DEF WithLine, FileOf
<1> QED BY <1>1, <1>2, <1>3, FileFields

LEMMA PartWritten ==
  ASSUME NEW S, NEW f \in FileOf(S)
  PROVE  WithPart(f) \in FileOf(S)
BY ButLastType DEF WithPart, FileOf

LEMMA MoreLines ==
  ASSUME NEW S, NEW T, S \subseteq T
  PROVE  Seq(S) \subseteq Seq(T) /\ FileOf(S) \subseteq FileOf(T)
<1>1. Seq(S) \subseteq Seq(T)
  OBVIOUS
<1> QED BY <1>1 DEF FileOf

(* A file of minted atoms is a file, hence not absent.                     *)
LEMMA FilesPresent ==
  ASSUME ContentInv, NEW f \in FileOf(Minted)
  PROVE  f \in File /\ f # Absent
<1>1. Minted \subseteq Hash
  BY CrystalAssumption DEF ContentInv, Minted, Hash
<1>2. FileOf(Minted) \subseteq FileOf(Hash)
  BY <1>1, MoreLines
<1> QED BY <1>2, CrystalAssumption DEF FileOf, File

LEMMA EmptyFile ==
  ASSUME NEW S
  PROVE  Empty \in FileOf(S)
BY DEF Empty, FileOf

-----------------------------------------------------------------------------
(* The jobs.                                                               *)

LEMMA JobGoes ==
  ASSUME JobInv, NEW w \in Appender, ~At(w, "idle"), UNCHANGED <<minted, acked>>,
         NEW l \in {"write", "sync", "frontier", "store", "check", "evict"}, GoTo(w, l)
  PROVE  JobInv'
<1>1. /\ job'[w] = [job[w] EXCEPT !.pc = l]
      /\ \A v \in Appender \ {w} : job'[v] = job[v]
      /\ job' \in [Appender -> [pc : {"idle", "write", "sync", "frontier", "store", "check", "evict"},
                           path : Path \cup {Absent}, hash : {0} \cup Hash, keep : SUBSET Hash]]
  BY DEF JobInv, GoTo
<1>2. \A v \in Appender : job'[v].hash = job[v].hash /\ job'[v].path = job[v].path
  BY <1>1 DEF JobInv
<1>3. \A v \in Appender : job'[v].pc # "idle" => job[v].pc # "idle"
  BY <1>1 DEF At
<1> QED BY <1>1, <1>2, <1>3 DEF JobInv, At, Minted

LEMMA JobDropped ==
  ASSUME JobInv, NEW w \in Appender, minted' = minted,
         acked' = acked \/ (~At(w, "idle") /\ acked' = acked \cup {job[w].hash}),
         job' = [job EXCEPT ![w] = NoJob]
  PROVE  JobInv'
<1>1. /\ job'[w] = NoJob
      /\ \A v \in Appender \ {w} : job'[v] = job[v]
      /\ job' \in [Appender -> [pc : {"idle", "write", "sync", "frontier", "store", "check", "evict"},
                           path : Path \cup {Absent}, hash : {0} \cup Hash, keep : SUBSET Hash]]
  BY DEF JobInv, NoJob
<1>2. \A v \in Appender : job'[v].pc # "idle" =>
        v # w /\ job[v].pc # "idle" /\ job'[v] = job[v]
  BY <1>1 DEF NoJob
<1>3. \A v \in Appender : job'[v].pc # "idle" => job[v].hash \in Minted \ acked'
  BY <1>2 DEF JobInv, At
<1> QED BY <1>1, <1>2, <1>3 DEF JobInv, At, Minted

(* A new job, of a new atom.                                               *)
LEMMA Minting ==
  ASSUME TypeInv, NEW w \in Appender, NEW p \in Path, NEW B \in SUBSET acked,
         Mint(w, p), prior' = Append(prior, B),
         mortal' \subseteq mortal \cup {Len(minted) + 1},
         buried' \subseteq buried \cup {Len(minted) + 1}
  PROVE  /\ Minted' = Minted \cup {Len(minted) + 1} /\ Len(minted) + 1 \notin Minted
         /\ \A h \in Minted : minted'[h] = minted[h] /\ prior'[h] = prior[h]
         /\ minted'[Len(minted) + 1] = p /\ prior'[Len(minted) + 1] = B
         /\ ContentInv' /\ JobInv'
<1> DEFINE n == Len(minted) + 1
<1>1. /\ minted \in Seq(Path) /\ minted' = Append(minted, p) /\ n \in Nat \ {0} /\ n <= MaxHash
      /\ prior \in Seq(SUBSET Hash) /\ Len(prior) = Len(minted) /\ MaxHash \in Nat
      /\ acked' = acked /\ acked \subseteq Minted
  BY CrystalAssumption DEF TypeInv, ContentInv, Mint
<1>2. B \subseteq Hash /\ Minted \subseteq Hash /\ n \in Hash
  BY <1>1 DEF Minted, Hash
<1>3. Minted' = Minted \cup {n} /\ n \notin Minted
  BY <1>1 DEF Minted
<1>4. \A h \in Minted : minted'[h] = minted[h] /\ prior'[h] = prior[h]
  BY <1>1, <1>2 DEF Minted
<1>5. minted'[n] = p /\ prior'[n] = B
  BY <1>1, <1>2
<1>6. minted' \in Seq(Path) /\ Len(minted') = n /\ prior' \in Seq(SUBSET Hash) /\ Len(prior') = n
  BY <1>1, <1>2
<1>7. ContentInv'
  <2>1. \A h \in Minted' : prior'[h] \subseteq acked /\ h \notin prior'[h]
    BY <1>1, <1>3, <1>4, <1>5, Zenon DEF TypeInv, ContentInv
  <2>2. mortal' \subseteq Minted' /\ buried' \subseteq Minted' /\ acked' \subseteq Minted'
    BY <1>1, <1>3 DEF TypeInv, ContentInv
  <2> QED BY <1>1, <1>6, <2>1, <2>2, Zenon DEF ContentInv
<1>8. JobInv'
  <2>1. /\ job'[w] = [pc |-> "write", path |-> p, hash |-> n, keep |-> {}]
        /\ \A v \in Appender \ {w} : job'[v] = job[v]
        /\ job' \in [Appender -> [pc : {"idle", "write", "sync", "frontier", "store", "check", "evict"},
                           path : Path \cup {Absent}, hash : {0} \cup Hash, keep : SUBSET Hash]]
    BY <1>2 DEF TypeInv, JobInv, Mint
  <2>2. \A v \in Appender \ {w} : job[v].pc # "idle" =>
          job[v].hash \in Minted \ acked /\ job[v].path = minted'[job[v].hash] /\ job[v].hash # n
    BY <1>3, <1>4 DEF TypeInv, JobInv, At
  <2>3. n \in Minted' \ acked'
    BY <1>1, <1>3
  <2>4. \A u \in Appender, v \in Appender :
          job'[u].pc # "idle" /\ job'[v].pc # "idle" /\ job'[v].hash = job'[u].hash => v = u
    BY <2>1, <2>2 DEF TypeInv, JobInv, At
  <2>5. \A v \in Appender : job'[v].pc # "idle" =>
          job'[v].hash \in Minted' \ acked' /\ job'[v].path = minted'[job'[v].hash]
    <3> SUFFICES ASSUME NEW v \in Appender, job'[v].pc # "idle"
                 PROVE  job'[v].hash \in Minted' \ acked' /\ job'[v].path = minted'[job'[v].hash]
      OBVIOUS
    <3>1. CASE v = w
      BY <1>5, <2>1, <2>3, <3>1
    <3>2. CASE v # w
      BY <1>1, <1>3, <2>1, <2>2, <3>2, Zenon
    <3> QED BY <3>1, <3>2
  <2> QED BY <2>1, <2>4, <2>5 DEF JobInv, At
<1> QED BY <1>3, <1>4, <1>5, <1>7, <1>8, Zenon

-----------------------------------------------------------------------------
(* What holds whatever overlaps, step by step.                             *)

LEMMA NoSweepType ==
  /\ NoSweep \in [burying : BOOLEAN, found : [Path -> (SUBSET Hash) \cup {Absent}]]
  /\ \A p \in Path : NoSweep.found[p] = Absent
<1>1. NoSweep.found = [p \in Path |-> Absent] /\ NoSweep.burying = FALSE
  BY DEF NoSweep
<1>2. [p \in Path |-> Absent] \in [Path -> (SUBSET Hash) \cup {Absent}]
  OBVIOUS
<1> QED BY <1>1, <1>2 DEF NoSweep

LEMMA InitTyped == Init => TypeInv
<1> SUFFICES ASSUME Init PROVE TypeInv
  OBVIOUS
<1> USE DEF Init
<1>1. Minted = {}
  BY DEF Minted
<1>2. ContentInv
  BY <1>1, CrystalAssumption DEF ContentInv
<1>3. JobInv
  BY DEF JobInv, NoJob, At
<1>4. MemInv
  BY <1>1 DEF MemInv
<1>5. DiskInv
  BY EmptyFile, Zenon DEF DiskInv, IsFile
<1>6. CpType
  BY DEF CpType, NoCompaction
<1>7. LockInv
  <2>1. Empty # Absent
    BY <1>2, EmptyFile, FilesPresent, Zenon
  <2> QED BY <2>1, CrystalAssumption DEF LockInv, NoCompaction, NoJob, At, Appender
<1>8. SweepInv
  BY NoSweepType DEF SweepInv
<1> QED BY <1>2, <1>3, <1>4, <1>5, <1>6, <1>7, <1>8 DEF TypeInv

(* The steps that mint.                                                    *)
LEMMA MintTyped ==
  ASSUME TypeInv, NEW w \in Appender, NEW p \in Path, NEW B \in SUBSET acked,
         Mint(w, p), prior' = Append(prior, B),
         mortal' \subseteq mortal \cup {Len(minted) + 1},
         buried' \subseteq buried \cup {Len(minted) + 1},
         sweep' \in [burying : BOOLEAN, found : [Path -> (SUBSET Hash) \cup {Absent}]],
         \A q \in Path : sweep'.found[q] # Absent => sweep'.found[q] = sweep.found[q]
  PROVE  TypeInv'
<1>1. /\ Minted \subseteq Minted'
      /\ \A h \in Minted : minted'[h] = minted[h]
      /\ ContentInv' /\ JobInv'
  BY Minting
<1>2. UNCHANGED <<acked, damaged, mem, disk, cp>>
  BY DEF Mint
<1>3. MemInv'
  BY <1>1, <1>2, Zenon DEF TypeInv, MemInv, mem
<1>4. DiskInv'
  <2>1. FileOf(Minted) \subseteq FileOf(Minted')
    BY <1>1, MoreLines, Zenon
  <2>2. unsynced # Absent => mu # w
    BY DEF TypeInv, DiskInv, LockInv, Mint, At
  <2>3. \A v \in Appender \ {w} : job'[v] = job[v]
    BY DEF TypeInv, JobInv, Mint
  <2>4. \A f \in {log, tmp, old, unsynced} : f # Absent => f \in FileOf(Minted')
    BY <2>1 DEF TypeInv, DiskInv, IsFile
  <2> QED BY <1>2, <2>2, <2>3, <2>4 DEF TypeInv, DiskInv, IsFile, disk
<1>5. CpType'
  <2>1. Seq(Minted) \subseteq Seq(Minted')
    BY <1>1, MoreLines, Zenon
  <2> QED BY <1>2, <2>1 DEF TypeInv, CpType
<1>6. LockInv'
  <2>1. job'[w].pc = "write" /\ \A v \in Appender \ {w} : job'[v] = job[v]
    BY Zenon DEF TypeInv, JobInv, Mint
  <2> QED BY <1>2, <2>1 DEF TypeInv, LockInv, Mint, At, disk
<1>7. SweepInv'
  <2>1. \A q \in Path : AckedOf(q)' = AckedOf(q)
    BY <1>1, <1>2 DEF AckedOf, TypeInv, ContentInv
  <2> QED BY <2>1 DEF TypeInv, SweepInv
<1> QED BY <1>1, <1>3, <1>4, <1>5, <1>6, <1>7 DEF TypeInv

LEMMA ClientWriteTyped ==
  ASSUME TypeInv, NEW w \in Writer, NEW p \in Path, ClientWrite(w, p)
  PROVE  TypeInv'
<1>1. AckedOf(p) \in SUBSET acked /\ w \in Appender
  BY Zenon DEF AckedOf, Appender
<1> QED BY <1>1, MintTyped DEF ClientWrite, TypeInv, SweepInv

LEMMA SweepBuryTyped ==
  ASSUME TypeInv, NEW p \in Path, SweepBury(p)
  PROVE  TypeInv'
<1>1. sweep.found[p] \in SUBSET acked /\ Sweeper \in Appender
  BY DEF AckedOf, Appender, TypeInv, SweepInv, SweepBury
<1>2. sweep' \in [burying : BOOLEAN, found : [Path -> (SUBSET Hash) \cup {Absent}]]
  <2> DEFINE b == \E q \in Path \ {p} : sweep.found[q] # Absent
             f == [sweep.found EXCEPT ![p] = Absent]
  <2>1. f \in [Path -> (SUBSET Hash) \cup {Absent}]
    BY DEF TypeInv, SweepInv
  <2>2. b \in BOOLEAN
    OBVIOUS
  <2>3. sweep' = [burying |-> b, found |-> f]
    BY DEF SweepBury
  <2> HIDE DEF b, f
  <2> QED BY <2>1, <2>2, <2>3
<1>3. \A q \in Path : sweep'.found[q] # Absent => sweep'.found[q] = sweep.found[q]
  BY DEF TypeInv, SweepInv, SweepBury
<1> QED BY <1>1, <1>2, <1>3, MintTyped DEF SweepBury

(* What depends on the atoms alone, when none is minted.                   *)
LEMMA NoMint ==
  ASSUME TypeInv, UNCHANGED content, acked \subseteq acked', acked' \subseteq Minted
  PROVE  /\ ContentInv' /\ Minted' = Minted
         /\ UNCHANGED sweep => SweepInv'
         /\ UNCHANGED cp => CpType'
         /\ UNCHANGED mem => MemInv'
         /\ FileOf(Minted') = FileOf(Minted)
<1>1. UNCHANGED <<minted, mortal, prior, buried>> /\ Minted' = Minted
  BY DEF content, Minted
<1>2. ContentInv'
  BY <1>1 DEF TypeInv, ContentInv
<1>3. UNCHANGED sweep => SweepInv'
  <2>1. \A p \in Path : AckedOf(p) \subseteq AckedOf(p)'
    BY <1>1 DEF AckedOf
  <2> QED BY <2>1 DEF TypeInv, SweepInv
<1>4. UNCHANGED cp => CpType'
  BY <1>1 DEF TypeInv, CpType
<1>5. UNCHANGED mem => MemInv'
  BY <1>1 DEF TypeInv, MemInv, mem
<1> QED BY <1>1, <1>2, <1>3, <1>4, <1>5

(* A job that moves outside w.mu, or ends there, leaves files and lock.    *)
LEMMA OutsideLock ==
  ASSUME TypeInv, NEW w \in Appender, UNCHANGED <<content, disk, cp, damaged>>,
         ~At(w, "sync"), job'[w].pc # "sync",
         \A v \in Appender \ {w} : job'[v] = job[v]
  PROVE  DiskInv' /\ LockInv'
<1>1. UNCHANGED <<log, tmp, old, unsynced, handle, mu>> /\ Minted' = Minted
  BY DEF disk, content, Minted
<1>2. mu \in Appender => mu # w
  BY DEF TypeInv, LockInv
<1>3. DiskInv'
  BY <1>1, <1>2 DEF TypeInv, DiskInv, IsFile
<1>4. LockInv'
  BY <1>1 DEF TypeInv, LockInv, At
<1> QED BY <1>3, <1>4

LEMMA JobStep ==
  ASSUME TypeInv, NEW w \in Appender, NEW j, job' = [job EXCEPT ![w] = j]
  PROVE  job'[w] = j /\ \A v \in Appender \ {w} : job'[v] = job[v]
BY Zenon DEF TypeInv, JobInv

LEMMA AppendTyped ==
  ASSUME TypeInv, NEW w \in Appender, Append1(w)
  PROVE  TypeInv'
<1> USE DEF TypeInv
<1>s. UNCHANGED sweep
  BY DEF Append1
<1>h. ASSUME ~At(w, "idle") PROVE job[w].hash \in Minted \ acked /\ job[w].path = minted[job[w].hash]
  BY <1>h DEF JobInv
<1>g. ASSUME NEW l, GoTo(w, l)
      PROVE  /\ job'[w] = [job[w] EXCEPT !.pc = l] /\ job'[w].pc = l
             /\ job'[w].hash = job[w].hash
             /\ \A v \in Appender \ {w} : job'[v] = job[v]
  BY <1>g DEF GoTo, JobInv
<1>1. CASE WalWrite(w) /\ handle
  <2>1. /\ UNCHANGED content /\ UNCHANGED mem /\ UNCHANGED cp /\ UNCHANGED <<acked, tmp, old, handle, damaged>>
        /\ mu' = w /\ unsynced' = log /\ log' = WithLine(log, job[w].hash) /\ GoTo(w, "sync")
        /\ At(w, "write") /\ mu = "nobody"
    BY <1>1, Zenon DEF WalWrite, ghost
  <2>2. /\ ContentInv' /\ Minted' = Minted /\ CpType' /\ MemInv' /\ SweepInv'
    BY <1>s, <2>1, NoMint DEF ContentInv
  <2>3. JobInv'
    BY <2>1, JobGoes, Zenon DEF content, At
  <2>4. log \in FileOf(Minted) /\ job[w].hash \in Minted /\ log # Absent
    BY <1>1, <1>h, <2>1 DEF DiskInv, IsFile, LockInv, At
  <2>5. log' \in FileOf(Minted) /\ log' # Absent
    BY <2>1, <2>4, LineWritten, FilesPresent
  <2>6. DiskInv'
    BY <1>g, <2>1, <2>2, <2>4, <2>5, Zenon DEF DiskInv, IsFile
  <2>7. LockInv'
    BY <1>g, <2>1, <2>5, CrystalAssumption, ZenonT(30) DEF LockInv, At, Appender
  <2> QED BY <2>2, <2>3, <2>6, <2>7
<1>2. CASE WalWrite(w) /\ ~handle
  <2>1. /\ UNCHANGED content /\ UNCHANGED mem /\ UNCHANGED cp /\ UNCHANGED disk /\ UNCHANGED <<acked, damaged>>
        /\ job' = [job EXCEPT ![w] = NoJob] /\ At(w, "write")
    BY <1>2 DEF WalWrite, ghost, disk
  <2>2. /\ ContentInv' /\ CpType' /\ MemInv' /\ SweepInv'
    BY <1>s, <2>1, NoMint DEF ContentInv
  <2>3. JobInv'
    BY <2>1, JobDropped, Zenon DEF content
  <2>4. DiskInv' /\ LockInv'
    BY <2>1, JobStep, OutsideLock DEF At, NoJob
  <2> QED BY <2>2, <2>3, <2>4
<1>3. CASE WalSync(w)
  <2>1. /\ UNCHANGED content /\ UNCHANGED mem /\ UNCHANGED cp /\ UNCHANGED <<acked, log, tmp, old, handle, damaged>>
        /\ mu' = "nobody" /\ unsynced' = Absent /\ GoTo(w, "frontier") /\ At(w, "sync")
    BY <1>3, Zenon DEF WalSync, ghost
  <2>2. /\ ContentInv' /\ Minted' = Minted /\ CpType' /\ MemInv' /\ SweepInv'
    BY <1>s, <2>1, NoMint DEF ContentInv
  <2>3. JobInv'
    BY <2>1, JobGoes, Zenon DEF content, At
  <2>4. DiskInv'
    BY <2>1, <2>2, Zenon DEF DiskInv, IsFile
  <2>5. LockInv'
    <3>1. job'[w].pc = "frontier" /\ \A v \in Appender \ {w} : job'[v] = job[v]
      BY <1>g, <2>1, Zenon
    <3>2. mu = w /\ \A v \in Appender \ {w} : ~At(v, "sync")
      BY <2>1 DEF LockInv
    <3>3. "nobody" \notin Appender /\ "compactor" \notin Appender
      BY CrystalAssumption DEF Appender
    <3> QED BY <2>1, <3>1, <3>2, <3>3 DEF LockInv, At
  <2> QED BY <2>2, <2>3, <2>4, <2>5
<1>4. CASE WalFails(w)
  <2>1. /\ UNCHANGED content /\ UNCHANGED mem /\ UNCHANGED cp /\ UNCHANGED <<acked, tmp, old, handle>>
        /\ mu' = "nobody" /\ unsynced' = Absent /\ job' = [job EXCEPT ![w] = NoJob]
        /\ (At(w, "write") /\ mu = "nobody") \/ At(w, "sync")
        /\ log' = log \/ (handle /\ log' = WithPart(log))
        /\ damaged' \in BOOLEAN
    BY <1>4, Zenon DEF WalFails, DiskInv
  <2>2. /\ ContentInv' /\ Minted' = Minted /\ CpType' /\ MemInv' /\ SweepInv'
    BY <1>s, <2>1, NoMint, Zenon DEF ContentInv
  <2>3. JobInv'
    BY <2>1, JobDropped, ZenonT(30) DEF content
  <2>4. /\ log' # Absent => log' \in FileOf(Minted)
        /\ handle => log' # Absent
    <3>1. handle => log \in FileOf(Minted) /\ log # Absent
      BY DEF LockInv, DiskInv, IsFile
    <3>2. handle => WithPart(log) \in FileOf(Minted) /\ WithPart(log) # Absent
      BY <3>1, PartWritten, FilesPresent
    <3> QED BY <2>1, <3>1, <3>2 DEF DiskInv, IsFile
  <2>5. DiskInv'
    BY <2>1, <2>2, <2>4, Zenon DEF DiskInv, IsFile
  <2>6. LockInv'
    <3>1. job'[w] = NoJob /\ \A v \in Appender \ {w} : job'[v] = job[v]
      BY <2>1, JobStep, Zenon
    <3> QED BY <2>1, <2>4, <3>1, CrystalAssumption DEF LockInv, At, Appender, NoJob
  <2> QED BY <2>2, <2>3, <2>5, <2>6
<1>5. CASE SetFrontier(w)
  <2>1. /\ UNCHANGED content /\ UNCHANGED disk /\ UNCHANGED cp /\ UNCHANGED <<acked, atoms, damaged>>
        /\ frontier' = [frontier EXCEPT ![job[w].path] = job[w].hash]
        /\ GoTo(w, "store") /\ At(w, "frontier")
    BY <1>5, Zenon DEF SetFrontier, ghost
  <2>2. /\ ContentInv' /\ Minted' = Minted /\ CpType' /\ SweepInv'
    BY <1>s, <2>1, NoMint DEF ContentInv
  <2>3. JobInv'
    BY <2>1, JobGoes, Zenon DEF content, At
  <2>4. DiskInv' /\ LockInv'
    <3>1. job'[w].pc = "store" /\ \A v \in Appender \ {w} : job'[v] = job[v]
      BY <1>g, <2>1, Zenon
    <3> QED BY <2>1, <3>1, OutsideLock DEF At
  <2>5. MemInv'
    <3>1. job[w].hash \in Minted /\ job[w].path = minted[job[w].hash]
      BY <1>h, <2>1 DEF At
    <3> QED BY <2>1, <2>2, <3>1, Zenon DEF MemInv, content
  <2> QED BY <2>2, <2>3, <2>4, <2>5
<1>6. CASE StoreAtom(w)
  <2>1. /\ UNCHANGED content /\ UNCHANGED disk /\ UNCHANGED cp /\ UNCHANGED <<acked, frontier, damaged>>
        /\ atoms' = atoms \cup {job[w].hash} /\ GoTo(w, "check") /\ At(w, "store")
    BY <1>6, Zenon DEF StoreAtom, ghost
  <2>2. /\ ContentInv' /\ Minted' = Minted /\ CpType' /\ SweepInv'
    BY <1>s, <2>1, NoMint, Zenon DEF ContentInv
  <2>3. JobInv'
    BY <2>1, JobGoes, Zenon DEF content, At
  <2>4. DiskInv' /\ LockInv'
    <3>1. job'[w].pc = "check" /\ \A v \in Appender \ {w} : job'[v] = job[v]
      BY <1>g, <2>1, Zenon
    <3> QED BY <2>1, <3>1, OutsideLock DEF At
  <2>5. MemInv'
    BY <1>h, <2>1, <2>2, Zenon DEF MemInv, content, At
  <2> QED BY <2>2, <2>3, <2>4, <2>5
<1>7. CASE Ack(w)
  <2>1. /\ UNCHANGED content /\ UNCHANGED disk /\ UNCHANGED cp /\ UNCHANGED mem /\ UNCHANGED damaged
        /\ acked' = acked \cup {job[w].hash} /\ job' = [job EXCEPT ![w] = NoJob]
        /\ At(w, "check") \/ At(w, "evict")
    BY <1>7 DEF Ack
  <2>2. job[w].hash \in Minted
    BY <1>h, <2>1, Zenon DEF At
  <2>3. /\ ContentInv' /\ CpType' /\ MemInv' /\ SweepInv'
    BY <1>s, <2>1, <2>2, NoMint DEF ContentInv
  <2>4. JobInv'
    BY <2>1, JobDropped, Zenon DEF content, At
  <2>5. DiskInv' /\ LockInv'
    BY <2>1, JobStep, OutsideLock DEF At, NoJob
  <2> QED BY <2>3, <2>4, <2>5
<1>8. CASE EvictStart(w)
  <2>1. /\ UNCHANGED content /\ UNCHANGED disk /\ UNCHANGED cp /\ UNCHANGED mem /\ UNCHANGED <<acked, damaged>>
        /\ job' = [job EXCEPT ![w].pc = "evict", ![w].keep = FrontierHashes] /\ At(w, "check")
    BY <1>8 DEF EvictStart, ghost
  <2>2. /\ ContentInv' /\ Minted' = Minted /\ CpType' /\ MemInv' /\ SweepInv'
    BY <1>s, <2>1, NoMint DEF ContentInv
  <2>3. FrontierHashes \in SUBSET Hash
    BY CrystalAssumption DEF FrontierHashes, MemInv, ContentInv, Minted, Hash
  <2>4. /\ job'[w].pc = "evict" /\ job'[w].hash = job[w].hash /\ job'[w].path = job[w].path
        /\ \A v \in Appender \ {w} : job'[v] = job[v]
        /\ job' \in [Appender -> [pc : {"idle", "write", "sync", "frontier", "store", "check", "evict"},
                             path : Path \cup {Absent}, hash : {0} \cup Hash, keep : SUBSET Hash]]
    <3>1. job'[w] = [job[w] EXCEPT !.pc = "evict", !.keep = FrontierHashes]
      BY <2>1 DEF JobInv
    <3>2. \A v \in Appender \ {w} : job'[v] = job[v]
      BY <2>1 DEF JobInv
    <3>3. job'[w] \in [pc : {"idle", "write", "sync", "frontier", "store", "check", "evict"},
                       path : Path \cup {Absent}, hash : {0} \cup Hash, keep : SUBSET Hash]
      BY <2>3, <3>1, ZenonT(30) DEF JobInv
    <3>4. job' = [v \in Appender |-> job'[v]]
      BY <2>1, Zenon DEF JobInv
    <3>5. \A v \in Appender :
            job'[v] \in [pc : {"idle", "write", "sync", "frontier", "store", "check", "evict"},
                         path : Path \cup {Absent}, hash : {0} \cup Hash, keep : SUBSET Hash]
      BY <3>2, <3>3 DEF JobInv
    <3>6. job'[w].pc = "evict" /\ job'[w].hash = job[w].hash /\ job'[w].path = job[w].path
      BY <3>1 DEF JobInv
    <3> QED BY <3>2, <3>4, <3>5, <3>6
  <2>5. JobInv'
    <3>1. \A v \in Appender : /\ job'[v].hash = job[v].hash /\ job'[v].path = job[v].path
                               /\ job'[v].pc # "idle" => job[v].pc # "idle"
      BY <2>1, <2>4 DEF At
    <3> QED BY <2>1, <2>2, <2>4, <3>1 DEF JobInv, At, content
  <2>6. DiskInv' /\ LockInv'
    BY <2>1, <2>4, OutsideLock DEF At
  <2> QED BY <2>2, <2>5, <2>6
<1>9. ASSUME NEW h \in Hash, EvictAtom(w, h) PROVE TypeInv'
  <2>1. /\ UNCHANGED content /\ UNCHANGED disk /\ UNCHANGED cp /\ UNCHANGED <<acked, damaged, frontier, job>>
        /\ atoms' = atoms \ {h}
    BY <1>9, Zenon DEF EvictAtom, ghost
  <2>2. /\ ContentInv' /\ Minted' = Minted /\ CpType' /\ SweepInv'
    BY <1>s, <2>1, NoMint, Zenon DEF ContentInv
  <2>3. MemInv' /\ JobInv' /\ DiskInv' /\ LockInv'
    BY <2>1, <2>2 DEF MemInv, JobInv, DiskInv, LockInv, IsFile, At, content, disk
  <2> QED BY <2>2, <2>3
<1> QED BY <1>1, <1>2, <1>3, <1>4, <1>5, <1>6, <1>7, <1>8, <1>9 DEF Append1

LEMMA SweepLookTyped ==
  ASSUME TypeInv, NEW p \in Path, SweepLook(p)
  PROVE  TypeInv'
<1> USE DEF TypeInv
<1>1. /\ UNCHANGED content /\ UNCHANGED disk /\ UNCHANGED cp /\ UNCHANGED mem
      /\ UNCHANGED <<acked, damaged, job>> /\ sweep' = [sweep EXCEPT !.found[p] = AckedOf(p)]
  BY DEF SweepLook, ghost
<1>2. ContentInv' /\ Minted' = Minted /\ CpType' /\ MemInv'
  BY <1>1, NoMint DEF ContentInv
<1>3. JobInv' /\ DiskInv' /\ LockInv'
  BY <1>1, <1>2 DEF JobInv, DiskInv, LockInv, IsFile, At, content, disk
<1>4. SweepInv'
  <2>1. AckedOf(p) \in SUBSET Hash
    <3>1. Minted \subseteq Hash
      BY CrystalAssumption DEF ContentInv, Minted, Hash
    <3> QED BY <3>1 DEF AckedOf, ContentInv
  <2>2. sweep' \in [burying : BOOLEAN, found : [Path -> (SUBSET Hash) \cup {Absent}]]
    BY <1>1, <2>1 DEF SweepInv
  <2>3. sweep'.found[p] = AckedOf(p) /\ \A q \in Path \ {p} : sweep'.found[q] = sweep.found[q]
    BY <1>1 DEF SweepInv
  <2>4. \A q \in Path : AckedOf(q)' = AckedOf(q)
    BY <1>1 DEF AckedOf, content
  <2> QED BY <2>2, <2>3, <2>4 DEF SweepInv
<1> QED BY <1>2, <1>3, <1>4

(* A step of the compactor, which leaves atoms, jobs and the sweeper.      *)
LEMMA CompactorTyped ==
  ASSUME TypeInv, UNCHANGED content, UNCHANGED <<acked, job, sweep>>,
         UNCHANGED frontier, atoms' \subseteq atoms, CpType', DiskInv', LockInv'
  PROVE  TypeInv'
<1>1. ContentInv' /\ Minted' = Minted /\ SweepInv'
  BY NoMint DEF TypeInv, ContentInv
<1>2. MemInv'
  BY <1>1, Zenon DEF TypeInv, MemInv, content
<1>3. JobInv'
  BY <1>1, Zenon DEF TypeInv, JobInv, At, content
<1> QED BY <1>1, <1>2, <1>3, Zenon DEF TypeInv

LEMMA CompactionTyped ==
  ASSUME TypeInv, Compaction
  PROVE  TypeInv'
<1> USE DEF TypeInv
<1>s. UNCHANGED sweep
  BY DEF Compaction
<1>m. UNCHANGED content => Minted' = Minted
  BY Zenon DEF content, Minted
<1>c. NoCompaction \in [pc : {"idle", "collect", "close", "backup", "swap", "reopen", "abort", "evict"},
                        todo : SUBSET Path, alive : Seq(Minted), keep : SUBSET Hash, start : SUBSET Hash]
      /\ NoCompaction.pc = "idle" /\ NoCompaction.alive = <<>>
      /\ <<>> \in Seq(Minted) /\ <<>> \in Seq(Hash)
  <2>1. <<>> \in Seq(Minted) /\ <<>> \in Seq(Hash)
    OBVIOUS
  <2>2. NoCompaction.pc = "idle" /\ NoCompaction.alive = <<>>
    BY Zenon DEF NoCompaction
  <2> QED BY <2>1, <2>2, Zenon DEF NoCompaction
<1>f. FrontierHashes \in SUBSET Hash /\ atoms \in SUBSET Hash
  BY CrystalAssumption DEF FrontierHashes, MemInv, ContentInv, Minted, Hash
<1>n. ASSUME UNCHANGED content, cp' = NoCompaction PROVE CpType'
  BY <1>n, <1>m, <1>c DEF CpType, NoCompaction
<1>p. ASSUME UNCHANGED content, NEW l \in {"close", "backup", "swap", "reopen", "abort", "evict"},
             cp' = [cp EXCEPT !.pc = l]
      PROVE  CpType' /\ cp'.pc = l
  BY <1>p, <1>m, Zenon DEF CpType
<1>d. ASSUME UNCHANGED content, UNCHANGED disk, UNCHANGED <<job, damaged>> PROVE DiskInv'
  BY <1>d, <1>m DEF DiskInv, IsFile, disk
<1>u. mu \notin Appender => unsynced = Absent
  BY DEF DiskInv
<1>a. "nobody" \notin Appender /\ "compactor" \notin Appender
  BY CrystalAssumption DEF Appender
<1>1. CASE CpStart
  <2>1. /\ UNCHANGED content /\ UNCHANGED <<acked, job>> /\ UNCHANGED mem /\ UNCHANGED disk /\ UNCHANGED damaged
        /\ cp' = [NoCompaction EXCEPT !.pc = "collect", !.todo = {p \in Path : frontier[p] # 0}]
        /\ cp.pc = "idle"
    BY <1>1 DEF CpStart, ghost, CpAt
  <2>2. CpType' /\ cp'.pc = "collect"
    <3> DEFINE T == {p \in Path : frontier[p] # 0}
    <3>1. T \in SUBSET Path /\ cp' = [NoCompaction EXCEPT !.pc = "collect", !.todo = T]
      BY <2>1
    <3> HIDE DEF T
    <3>2. cp' = [pc |-> "collect", todo |-> T, alive |-> <<>>, keep |-> {}, start |-> {}]
      BY <3>1, Zenon DEF NoCompaction
    <3> QED BY <1>m, <1>c, <2>1, <3>1, <3>2, Zenon DEF CpType
  <2>3. LockInv'
    BY <2>1, <2>2 DEF LockInv, At, disk
  <2> QED BY <1>s, <1>d, <2>1, <2>2, <2>3, CompactorTyped DEF mem
<1>2. ASSUME NEW p \in Path, CpCollect(p) PROVE TypeInv'
  <2>1. /\ UNCHANGED content /\ UNCHANGED <<acked, job>> /\ UNCHANGED mem /\ UNCHANGED disk /\ UNCHANGED damaged
        /\ cp' = [cp EXCEPT !.todo = @ \ {p},
                            !.alive = IF frontier[p] \in atoms THEN Append(@, frontier[p]) ELSE @]
    BY <1>2 DEF CpCollect, ghost
  <2> DEFINE a == IF frontier[p] \in atoms THEN Append(cp.alive, frontier[p]) ELSE cp.alive
  <2>2. a \in Seq(Minted) /\ a \in Seq(Hash)
    <3>1. a \in Seq(Minted)
      BY DEF CpType, MemInv
    <3>2. Minted \subseteq Hash
      BY CrystalAssumption DEF ContentInv, Minted, Hash
    <3> QED BY <3>1, <3>2, MoreLines
  <2>3. cp' = [cp EXCEPT !.todo = @ \ {p}, !.alive = a]
    BY <2>1
  <2> HIDE DEF a
  <2>4. CpType' /\ cp'.pc = cp.pc
    BY <1>m, <2>1, <2>2, <2>3, ZenonT(30) DEF CpType
  <2>5. LockInv'
    BY <2>1, <2>4 DEF LockInv, At, disk
  <2> QED BY <1>s, <1>d, <2>1, <2>4, <2>5, CompactorTyped DEF mem
<1>3. CASE RwTmp
  <2>1. /\ UNCHANGED content /\ UNCHANGED <<acked, job>> /\ UNCHANGED mem
        /\ UNCHANGED <<log, old, unsynced, handle, damaged>> /\ mu = "nobody" /\ cp.pc = "collect"
    BY <1>3 DEF RwTmp, ghost, CpAt
  <2>2. CASE /\ tmp' = [lines |-> cp.alive, tail |-> "ok"] /\ mu' = "compactor"
             /\ cp' = [cp EXCEPT !.pc = "close"]
    <3>1. tmp' \in FileOf(Minted)
      BY <2>2 DEF CpType, FileOf
    <3>2. CpType' /\ cp'.pc = "close"
      BY <1>p, <2>1, <2>2
    <3>3. unsynced = Absent
      BY <1>u, <1>a, <2>1, Zenon
    <3>4. DiskInv'
      BY <1>m, <2>1, <3>1, <3>3 DEF DiskInv, IsFile
    <3>5. LockInv'
      BY <1>a, <2>1, <2>2, <3>2, Zenon DEF LockInv, At
    <3> QED BY <1>s, <2>1, <3>2, <3>4, <3>5, CompactorTyped DEF mem
  <2>3. CASE cp' = NoCompaction /\ UNCHANGED <<tmp, mu>>
    <3>1. CpType' /\ cp'.pc = "idle"
      BY <1>n, <1>c, <2>1, <2>3
    <3>2. UNCHANGED disk
      BY <2>1, <2>3 DEF disk
    <3>3. LockInv'
      BY <2>1, <2>3, <3>1, Zenon DEF LockInv, At
    <3> QED BY <1>s, <1>d, <2>1, <3>1, <3>2, <3>3, CompactorTyped, Zenon DEF mem
  <2> QED BY <1>3, <2>2, <2>3 DEF RwTmp
<1>4. CASE RwClose
  <2>1. /\ UNCHANGED content /\ UNCHANGED <<acked, job>> /\ UNCHANGED mem
        /\ UNCHANGED <<log, tmp, unsynced, mu, damaged>> /\ cp.pc = "close"
        /\ handle' = FALSE /\ old' = Absent /\ cp' = [cp EXCEPT !.pc = "backup"]
    BY <1>4 DEF RwClose, ghost, CpAt
  <2>2. CpType' /\ cp'.pc = "backup"
    BY <1>p, <2>1
  <2>3. DiskInv'
    BY <1>m, <2>1, Zenon DEF DiskInv, IsFile
  <2>4. LockInv'
    BY <2>1, <2>2 DEF LockInv, At
  <2> QED BY <1>s, <2>1, <2>2, <2>3, <2>4, CompactorTyped DEF mem
<1>5. CASE RwBackup
  <2>1. /\ UNCHANGED content /\ UNCHANGED <<acked, job>> /\ UNCHANGED mem
        /\ UNCHANGED <<tmp, unsynced, handle, mu, damaged>> /\ cp.pc = "backup"
        /\ (old' = log /\ log' = Absent) \/ UNCHANGED <<old, log>>
        /\ cp' = [cp EXCEPT !.pc = "swap"]
    BY <1>5 DEF RwBackup, ghost, CpAt
  <2>2. CpType' /\ cp'.pc = "swap"
    BY <1>p, <2>1
  <2>3. mu = "compactor" /\ unsynced = Absent /\ ~handle
    BY <1>u, <1>a, <2>1 DEF LockInv
  <2>4. DiskInv'
    BY <1>m, <2>1, <2>3 DEF DiskInv, IsFile
  <2>5. LockInv'
    BY <2>1, <2>2, <2>3, Zenon DEF LockInv, At
  <2> QED BY <1>s, <2>1, <2>2, <2>4, <2>5, CompactorTyped DEF mem
<1>6. CASE RwSwap
  <2>1. /\ UNCHANGED content /\ UNCHANGED <<acked, job>> /\ UNCHANGED mem
        /\ UNCHANGED <<unsynced, handle, mu>> /\ cp.pc = "swap" /\ damaged' \in BOOLEAN
        /\ log' \in {log, tmp, old} /\ tmp' \in {tmp, Absent} /\ old' \in {old, Absent}
    BY <1>6, Zenon DEF RwSwap, CpAt, DiskInv
  <2>2. cp' = [cp EXCEPT !.pc = "reopen"] \/ cp' = [cp EXCEPT !.pc = "abort"]
    BY <1>6 DEF RwSwap
  <2>3. CpType' /\ cp'.pc \in {"reopen", "abort"}
    BY <1>p, <2>1, <2>2
  <2>4. mu = "compactor" /\ unsynced = Absent /\ ~handle
    BY <1>u, <1>a, <2>1 DEF LockInv
  <2>5. DiskInv'
    BY <1>m, <2>1, <2>4 DEF DiskInv, IsFile
  <2>6. LockInv'
    BY <2>1, <2>3, <2>4 DEF LockInv, At
  <2> QED BY <1>s, <2>1, <2>3, <2>5, <2>6, CompactorTyped DEF mem
<1>7. CASE RwReopen
  <2>1. /\ UNCHANGED content /\ UNCHANGED <<acked, job>> /\ UNCHANGED mem
        /\ UNCHANGED <<tmp, old, unsynced, damaged>> /\ cp.pc \in {"reopen", "abort"}
        /\ mu' = "nobody"
    BY <1>7 DEF RwReopen, ghost
  <2>r. /\ handle' \in BOOLEAN
        /\ \/ handle' = TRUE /\ log' = IF log = Absent THEN Empty ELSE log
           \/ UNCHANGED <<handle, log>>
    <3>1. handle \in BOOLEAN
      BY DEF DiskInv
    <3> QED BY <1>7, <3>1, Zenon DEF RwReopen
  <2>2. CpType' /\ cp'.pc \in {"idle", "evict"}
    <3>1. CASE cp' = NoCompaction
      BY <1>n, <1>c, <2>1, <3>1
    <3>2. CASE cp' = [cp EXCEPT !.pc = "evict", !.keep = FrontierHashes, !.start = atoms]
      BY <1>m, <1>f, <2>1, <3>2, Zenon DEF CpType
    <3> QED BY <1>7, <3>1, <3>2 DEF RwReopen
  <2>3. mu = "compactor" /\ unsynced = Absent /\ ~handle
    BY <1>u, <1>a, <2>1 DEF LockInv
  <2>4. Empty \in FileOf(Minted) /\ Empty # Absent
    BY EmptyFile, FilesPresent
  <2>5. DiskInv'
    BY <1>m, <2>1, <2>r, <2>3, <2>4, Zenon DEF DiskInv, IsFile
  <2>6. LockInv'
    BY <1>a, <2>1, <2>r, <2>2, <2>3, <2>4 DEF LockInv, At
  <2> QED BY <1>s, <2>1, <2>2, <2>5, <2>6, CompactorTyped DEF mem
<1>8. ASSUME NEW h \in Hash, CpEvict(h) PROVE TypeInv'
  <2>1. /\ UNCHANGED content /\ UNCHANGED <<acked, job>> /\ UNCHANGED disk
        /\ UNCHANGED <<frontier, damaged, cp>> /\ atoms' = atoms \ {h}
    BY <1>8, Zenon DEF CpEvict, ghost
  <2>2. CpType' /\ LockInv'
    BY <1>m, <2>1, Zenon DEF CpType, LockInv, At, disk
  <2> QED BY <1>s, <1>d, <2>1, <2>2, CompactorTyped, Zenon
<1>9. CASE CpDone
  <2>1. /\ UNCHANGED content /\ UNCHANGED <<acked, job>> /\ UNCHANGED mem /\ UNCHANGED disk
        /\ UNCHANGED damaged /\ cp' = NoCompaction /\ cp.pc = "evict"
    BY <1>9 DEF CpDone, ghost, CpAt
  <2>2. CpType' /\ cp'.pc = "idle"
    BY <1>n, <1>c, <2>1, Zenon
  <2>3. LockInv'
    BY <2>1, <2>2 DEF LockInv, At, disk
  <2> QED BY <1>s, <1>d, <2>1, <2>2, <2>3, CompactorTyped, Zenon DEF mem
<1> QED BY <1>1, <1>2, <1>3, <1>4, <1>5, <1>6, <1>7, <1>8, <1>9 DEF Compaction

LEMMA CrashTyped ==
  ASSUME LastThere, TypeInv, Crash
  PROVE  TypeInv'
<1> USE DEF TypeInv
<1>1. PICK file \in AfterCrash :
        /\ log' = file
        /\ frontier' = Replay(file.lines)
        /\ atoms' = Range(file.lines)
        /\ damaged' = (damaged \/ log = Absent \/ file.tail # "ok")
  BY DEF Crash
<1>2. /\ UNCHANGED content /\ UNCHANGED <<acked, old>> /\ tmp' = Absent /\ unsynced' = Absent
      /\ handle' = TRUE /\ mu' = "nobody" /\ job' = [w \in Appender |-> NoJob]
      /\ sweep' = NoSweep /\ cp' = NoCompaction
  BY DEF Crash
<1>3. file \in FileOf(Minted) /\ file # Absent
  <2>1. CASE log = Absent
    BY <2>1, EmptyFile, FilesPresent DEF AfterCrash
  <2>2. CASE log # Absent /\ file = log
    BY <2>2 DEF DiskInv, IsFile
  <2>3. CASE log # Absent /\ file # log
    <3>1. unsynced # Absent /\ unsynced \in FileOf(Minted) /\ log \in FileOf(Minted)
      BY <2>3 DEF AfterCrash, DiskInv, IsFile
    <3>2. WithPart(unsynced) \in FileOf(Minted)
      BY <3>1, PartWritten
    <3>3. ASSUME unsynced.tail = "ok" PROVE [log EXCEPT !.tail = "unended"] \in FileOf(Minted)
      <4>1. mu \in Appender /\ log = WithLine(unsynced, job[mu].hash)
        BY <3>1, Zenon DEF DiskInv
      <4>2. job[mu].hash \in Minted
        BY <4>1 DEF LockInv, JobInv, At
      <4>3. log.lines # <<>>
        BY <3>1, <3>3, <4>1, <4>2, LineWritten, Zenon
      <4> QED BY <3>1, <4>3 DEF FileOf
    <3> QED BY <2>3, <3>1, <3>2, <3>3, FilesPresent DEF AfterCrash
  <2> QED BY <2>1, <2>2, <2>3
<1>4. ContentInv' /\ Minted' = Minted
  BY <1>2, NoMint, Zenon DEF ContentInv
<1>5. JobInv'
  BY <1>2, Zenon DEF JobInv, NoJob, At
<1>6. MemInv'
  <2>1. file.lines \in Seq(Minted) /\ Replay(file.lines) = ReplayBy(minted, file.lines)
    BY <1>3, FileFields DEF Replay, ReplayBy
  <2>2. Range(file.lines) \subseteq Minted
    BY <2>1 DEF Range
  <2>3. /\ frontier' \in [Path -> {0} \cup Minted]
        /\ \A p \in Path : frontier'[p] # 0 => minted[frontier'[p]] = p
    BY <1>1, <2>1, ReplayType
  <2> QED BY <1>1, <1>2, <1>4, <2>2, <2>3, Zenon DEF MemInv, content
<1>7. DiskInv'
  <2>1. damaged' \in BOOLEAN
    BY <1>1, Zenon
  <2> QED BY <1>1, <1>2, <1>3, <1>4, <2>1 DEF DiskInv, IsFile
<1>8. CpType'
  BY <1>2, <1>4 DEF CpType, NoCompaction
<1>9. LockInv'
  BY <1>1, <1>2, <1>3, CrystalAssumption, Zenon DEF LockInv, NoCompaction, NoJob, At, Appender
<1>10. SweepInv'
  BY <1>2, NoSweepType DEF SweepInv
<1> QED BY <1>4, <1>5, <1>6, <1>7, <1>8, <1>9, <1>10, Zenon

LEMMA StepTyped ==
  ASSUME LastThere, TypeInv, [Next]_vars
  PROVE  TypeInv'
<1>1. CASE Next
  BY <1>1, CompactionTyped, CrashTyped, SweepLookTyped, SweepBuryTyped, ClientWriteTyped,
     AppendTyped DEF Next, Sweep
<1>2. CASE UNCHANGED vars
  <2>1. /\ UNCHANGED content /\ UNCHANGED <<acked, damaged>> /\ UNCHANGED mem /\ UNCHANGED disk
        /\ UNCHANGED <<job, sweep, cp>>
    BY <1>2 DEF vars, ghost
  <2>2. ContentInv' /\ Minted' = Minted /\ SweepInv' /\ CpType' /\ MemInv'
    BY <2>1, NoMint, ZenonT(30) DEF TypeInv, ContentInv
  <2>3. JobInv' /\ DiskInv' /\ LockInv'
    BY <2>1, <2>2 DEF TypeInv, JobInv, DiskInv, LockInv, IsFile, At, content, disk
  <2> QED BY <2>2, <2>3 DEF TypeInv
<1> QED BY <1>1, <1>2

LEMMA TypeInvIsTypeOK == TypeInv => TypeOK
<1> SUFFICES ASSUME TypeInv PROVE TypeOK
  BY Zenon
<1> USE DEF TypeInv
<1>1. Minted \subseteq Hash
  BY CrystalAssumption DEF ContentInv, Minted, Hash
<1>2. \A f \in {log, tmp, old, unsynced} : f \in File \cup {Absent}
  BY FilesPresent, Zenon DEF DiskInv, IsFile
<1>3. /\ frontier \in [Path -> {0} \cup Hash] /\ atoms \subseteq Hash
      /\ mortal \subseteq Hash /\ buried \subseteq Hash /\ acked \subseteq Hash
  BY <1>1, Zenon DEF MemInv, ContentInv
<1> QED BY <1>2, <1>3, Zenon DEF TypeOK, ContentInv, DiskInv, LockInv, SweepInv, JobInv, CpType

-----------------------------------------------------------------------------
(* What holds as long as no append overlaps a compaction.                  *)

(* An atom that is not acknowledged yet is prior to none: where it becomes *)
(* current, all that was shown still is, and it is shown too.              *)
LEMMA NewIsShown ==
  ASSUME TypeInv, NEW h \in Minted \ acked, NEW f, NEW g, NEW H \in SUBSET Minted,
         Replaced(g, f, minted[h], h), ShowsBy(minted, prior, f, H)
  PROVE  ShowsBy(minted, prior, g, H \cup {h})
<1>1. \A e \in Minted : minted[e] \in Path /\ h \notin prior[e]
  BY DEF TypeInv, ContentInv, Minted
<1>2. h # 0
  BY DEF Minted
<1> QED BY <1>1, <1>2, Zenon DEF ShowsBy, Replaced

(* Atoms minted later change nothing that is shown.                        *)
LEMMA StillShown ==
  ASSUME TypeInv, NEW H \in SUBSET Minted, NEW f, NEW m, NEW pr,
         \A h \in Minted : m[h] = minted[h] /\ pr[h] = prior[h],
         ShowsBy(minted, prior, f, H)
  PROVE  ShowsBy(m, pr, f, H)
BY Zenon DEF ShowsBy

(* The atoms of the appends under way.                                     *)
LEMMA FlightType ==
  ASSUME TypeInv, NEW pcs, "idle" \notin pcs
  PROVE  /\ InFlight(pcs) \subseteq Minted \ acked
         /\ (\A w \in Appender : At(w, "idle")) => InFlight(pcs) = {}
BY DEF InFlight, TypeInv, JobInv, At

(* One append moves: it was there, or it is the one atom that joins.       *)
LEMMA FlightMoves ==
  ASSUME NEW pcs, NEW w \in Appender, \A v \in Appender \ {w} : job'[v] = job[v]
  PROVE  /\ job'[w].pc \notin pcs \/ (job[w].pc \in pcs /\ job'[w].hash = job[w].hash) =>
              InFlight(pcs)' \subseteq InFlight(pcs)
         /\ job'[w].hash = job[w].hash => InFlight(pcs)' \subseteq InFlight(pcs) \cup {job[w].hash}
         /\ job[w].pc \in pcs => job[w].hash \in InFlight(pcs)
BY Zenon DEF InFlight

(* The frontier stays, and an append leaves "store" with its atom there.   *)
LEMMA ResidentKept ==
  ASSUME LiveResident, NEW w \in Appender, \A v \in Appender \ {w} : job'[v] = job[v],
         frontier' = frontier, atoms \subseteq atoms', At(w, "store") => job[w].hash \in atoms'
  PROVE  LiveResident'
BY Zenon DEF LiveResident, At

(* The frontier moves to the atom of an append that is about to store it.  *)
LEMMA ResidentMoves ==
  ASSUME LiveResident, NEW w \in Appender, \A v \in Appender \ {w} : job'[v] = job[v],
         At(w, "frontier"), job'[w].pc = "store", job'[w].hash = job[w].hash, atoms' = atoms,
         NEW q, Replaced(frontier', frontier, q, job[w].hash)
  PROVE  LiveResident'
<1> SUFFICES ASSUME NEW p \in Path, frontier'[p] # 0
             PROVE  \/ frontier'[p] \in atoms'
                    \/ \E v \in Appender : job'[v].pc = "store" /\ job'[v].hash = frontier'[p]
  BY Zenon DEF LiveResident, At
<1>1. CASE p = q
  BY <1>1, Zenon DEF Replaced
<1>2. CASE p # q
  <2>1. frontier'[p] = frontier[p]
    BY <1>2, Zenon DEF Replaced
  <2> QED BY <2>1, Zenon DEF LiveResident, At
<1> QED BY <1>1, <1>2, Zenon

LEMMA FewerShown ==
  ASSUME NEW m, NEW pr, NEW f, NEW H, NEW G \in SUBSET H, ShowsBy(m, pr, f, H)
  PROVE  ShowsBy(m, pr, f, G)
BY DEF ShowsBy

(* Damage is for good, and what is buried or found depends on the atoms.   *)
LEMMA GhostKept ==
  ASSUME IInv, UNCHANGED content, damaged => damaged'
  PROVE  /\ BuriesOnlyExpired'
         /\ UNCHANGED sweep /\ ~damaged' => FoundInv'
<1>1. UNCHANGED <<minted, mortal, prior, buried>>
  BY Zenon DEF content
<1>2. BuriesOnlyExpired'
  BY <1>1, Zenon DEF IInv, SafeInv, BuriesOnlyExpired
<1>3. UNCHANGED sweep /\ ~damaged' => FoundInv'
  BY <1>1 DEF IInv, SafeInv, FoundInv
<1> QED BY <1>2, <1>3

LEMMA InitSafe == Init => SafeInv
<1> SUFFICES ASSUME Init PROVE SafeInv
  OBVIOUS
<1> USE DEF Init
<1>1. TypeInv
  BY InitTyped, Zenon
<1>2. CpInv
  BY DEF CpInv, CpAt, NoCompaction
<1>3. LiveResident
  BY Zenon DEF LiveResident
<1>4. ShowInv
  <2>1. acked = {} /\ \A w \in Appender : At(w, "idle")
    BY DEF At, NoJob
  <2>2. InFlight(Logged) = {} /\ InFlight(Synced) = {} /\ InFlight(Current) = {}
    BY <1>1, <2>1, FlightType, Zenon DEF Logged, Synced, Current
  <2>3. log # Absent /\ log.tail = "ok" /\ ~CpAt("swap") /\ unsynced = Absent
    BY <1>1, EmptyFile, FilesPresent, Zenon DEF Empty, CpAt, NoCompaction, TypeInv
  <2> QED BY <2>1, <2>2, <2>3, Zenon DEF ShowInv, ShowsBy
<1>5. FoundInv
  BY NoSweepType DEF FoundInv
<1>6. BuriesOnlyExpired
  BY Zenon DEF BuriesOnlyExpired
<1> QED BY <1>2, <1>3, <1>4, <1>5, <1>6, Zenon DEF SafeInv

(* The steps that mint.                                                    *)
LEMMA MintSafe ==
  ASSUME IInv, "overlap" \notin Feature,
         NEW w \in Appender, NEW p \in Path, NEW B \in SUBSET acked,
         Mint(w, p), prior' = Append(prior, B),
         mortal \subseteq mortal',
         mortal' \subseteq mortal \cup {Len(minted) + 1},
         buried' \subseteq buried \cup {Len(minted) + 1},
         \A q \in Path : sweep'.found[q] # Absent => sweep'.found[q] = sweep.found[q],
         buried' = buried \/ B = sweep.found[p]
  PROVE  SafeInv'
<1> DEFINE n == Len(minted) + 1
<1>0. TypeInv
  BY Zenon DEF IInv
<1>1. /\ Minted' = Minted \cup {n} /\ n \notin Minted
      /\ \A h \in Minted : minted'[h] = minted[h] /\ prior'[h] = prior[h]
      /\ minted'[n] = p /\ prior'[n] = B
  BY <1>0, Minting, Zenon
<1>2. /\ UNCHANGED <<acked, damaged, cp>> /\ UNCHANGED <<frontier, atoms>>
      /\ UNCHANGED <<log, tmp, old, unsynced, handle, mu>>
      /\ cp.pc = "idle" /\ job[w].pc = "idle"
  BY Zenon DEF Mint, mem, disk, CpAt, At
<1>3. job'[w].pc = "write" /\ \A v \in Appender \ {w} : job'[v] = job[v]
  BY <1>0, Zenon DEF Mint, TypeInv, JobInv
<1>4. CpInv'
  BY <1>2, Zenon DEF CpInv, CpAt
<1>5. LiveResident'
  BY <1>2, <1>3 DEF IInv, SafeInv, LiveResident, At
<1>6. ASSUME ~damaged' PROVE ShowInv'
  <2>1. /\ ShowInv /\ log # Absent
    BY <1>2, <1>6, ZenonT(30) DEF IInv, SafeInv, ShowInv, CpAt
  <2>2. /\ InFlight(Logged)' \subseteq InFlight(Logged)
        /\ InFlight(Synced)' \subseteq InFlight(Synced)
        /\ InFlight(Current)' \subseteq InFlight(Current)
    BY <1>3, FlightMoves, Zenon DEF Logged, Synced, Current
  <2>3. /\ acked \cup InFlight(Logged) \in SUBSET Minted
        /\ acked \cup InFlight(Synced) \in SUBSET Minted
        /\ acked \cup InFlight(Current) \in SUBSET Minted
    BY <1>0, FlightType, Zenon DEF Logged, Synced, Current, TypeInv, ContentInv
  <2>4. /\ log.lines \in Seq(Minted)
        /\ unsynced # Absent => unsynced.lines \in Seq(Minted)
    BY <1>0, <2>1, FileFields, Zenon DEF TypeInv, DiskInv, IsFile
  <2>5. /\ ReplayBy(minted', log.lines) = ReplayBy(minted, log.lines)
        /\ unsynced # Absent =>
             ReplayBy(minted', unsynced.lines) = ReplayBy(minted, unsynced.lines)
    BY <1>1, <2>4, ReplayKept
  <2>6. ShowsBy(minted', prior', ReplayBy(minted', log.lines), acked \cup InFlight(Logged)')
    <3>1. ShowsBy(minted, prior, ReplayBy(minted, log.lines), acked \cup InFlight(Logged))
      BY <2>1, ZenonT(30) DEF ShowInv
    <3>2. ShowsBy(minted', prior', ReplayBy(minted, log.lines), acked \cup InFlight(Logged))
      BY <1>0, <1>1, <2>3, <3>1, StillShown, ZenonT(30)
    <3> QED BY <2>2, <2>5, <3>2, FewerShown, ZenonT(30)
  <2>7. unsynced # Absent =>
          ShowsBy(minted', prior', ReplayBy(minted', unsynced.lines), acked \cup InFlight(Synced)')
    <3> SUFFICES ASSUME unsynced # Absent
                 PROVE  ShowsBy(minted', prior', ReplayBy(minted', unsynced.lines),
                                acked \cup InFlight(Synced)')
      OBVIOUS
    <3>1. ShowsBy(minted, prior, ReplayBy(minted, unsynced.lines), acked \cup InFlight(Synced))
      BY <2>1, ZenonT(30) DEF ShowInv
    <3>2. ShowsBy(minted', prior', ReplayBy(minted, unsynced.lines), acked \cup InFlight(Synced))
      BY <1>0, <1>1, <2>3, <3>1, StillShown, ZenonT(30)
    <3> QED BY <2>2, <2>5, <3>2, FewerShown, ZenonT(30)
  <2>8. ShowsBy(minted', prior', frontier, acked \cup InFlight(Current)')
    <3>1. ShowsBy(minted', prior', frontier, acked \cup InFlight(Current))
      BY <1>0, <1>1, <2>1, <2>3, StillShown, ZenonT(30) DEF ShowInv
    <3> QED BY <2>2, <3>1, FewerShown
  <2> QED BY <1>2, <2>1, <2>6, <2>7, <2>8, ZenonT(30) DEF ShowInv, CpAt
<1>7. ASSUME ~damaged' PROVE FoundInv'
  <2>1. FoundInv
    BY <1>2, <1>7, Zenon DEF IInv, SafeInv
  <2>2. \A q \in Path : sweep.found[q] # Absent => sweep.found[q] \subseteq Minted
    BY <1>0, Zenon DEF TypeInv, SweepInv, AckedOf, ContentInv
  <2>3. mortal \subseteq Minted
    BY <1>0 DEF TypeInv, ContentInv
  <2> QED BY <1>1, <2>1, <2>2, <2>3, Zenon DEF FoundInv
<1>8. BuriesOnlyExpired'
  <2> SUFFICES ASSUME ~damaged', NEW t \in buried', NEW h \in prior'[t] \ mortal'
               PROVE  \E e \in mortal' : minted'[e] = minted'[h] /\ e \notin prior'[h]
    BY Zenon DEF BuriesOnlyExpired
  <2>0. FoundInv /\ BuriesOnlyExpired /\ ~damaged
    BY <1>2, Zenon DEF IInv, SafeInv
  <2>1. mortal \subseteq Minted /\ buried \subseteq Minted /\ acked \subseteq Minted
        /\ \A e \in Minted : prior[e] \subseteq acked
    BY <1>0 DEF TypeInv, ContentInv
  <2>2. CASE t \in buried
    <3>1. t \in Minted /\ h \in prior[t] \ mortal /\ h \in Minted
      BY <1>1, <2>1, <2>2, Zenon
    <3>2. PICK e \in mortal : minted[e] = minted[h] /\ e \notin prior[h]
      BY <2>0, <2>2, <3>1, Zenon DEF BuriesOnlyExpired
    <3> QED BY <1>1, <2>1, <3>1, <3>2, Zenon
  <2>3. CASE t \notin buried
    <3>1. t = n /\ B = sweep.found[p] /\ h \in B /\ h \in Minted
      BY <1>1, <2>1, <2>3, Zenon
    <3>2. sweep.found[p] # Absent
      <4>1. B \in SUBSET Hash
        BY <2>1, CrystalAssumption, <1>0 DEF TypeInv, ContentInv, Minted, Hash
      <4> QED BY <3>1, <4>1, CrystalAssumption, Zenon
    <3>3. PICK e \in mortal : minted[e] = minted[h] /\ e \notin prior[h]
      BY <2>0, <3>1, <3>2, Zenon DEF FoundInv
    <3> QED BY <1>1, <2>1, <3>1, <3>3, ZenonT(30)
  <2> QED BY <2>2, <2>3, Zenon
<1> QED BY <1>4, <1>5, <1>6, <1>7, <1>8, Zenon DEF SafeInv

(* The steps of an append.  No compaction is under way.                    *)
LEMMA AppendSafe ==
  ASSUME LastThere, IInv, NEW w \in Appender, Append1(w)
  PROVE  SafeInv'
<1>0. TypeInv /\ CpInv /\ LiveResident /\ (~damaged => ShowInv /\ FoundInv)
  BY DEF IInv, SafeInv
<1>s. UNCHANGED sweep
  BY DEF Append1
<1>h. ASSUME ~At(w, "idle")
      PROVE  /\ job[w].hash \in Minted \ acked /\ job[w].path = minted[job[w].hash]
             /\ CpAt("idle")
             /\ \A v \in Appender : ~At(v, "idle") /\ job[v].hash = job[w].hash => v = w
  BY <1>0, <1>h, Zenon DEF TypeInv, JobInv, CpInv
<1>g. ASSUME NEW l, GoTo(w, l)
      PROVE  /\ job'[w].pc = l /\ job'[w].hash = job[w].hash
             /\ \A v \in Appender \ {w} : job'[v] = job[v]
  BY <1>0, <1>g DEF GoTo, TypeInv, JobInv
<1>c. ASSUME CpAt("idle"), UNCHANGED cp PROVE CpInv'
  BY <1>c, Zenon DEF CpInv, CpAt
<1>f. /\ acked \cup InFlight(Logged) \in SUBSET Minted
      /\ acked \cup InFlight(Synced) \in SUBSET Minted
      /\ acked \cup InFlight(Current) \in SUBSET Minted
  BY <1>0, FlightType, Zenon DEF Logged, Synced, Current, TypeInv, ContentInv
<1>l. ASSUME ~damaged PROVE ShowInv /\ FoundInv
  BY <1>0, <1>l, Zenon
<1>p. ASSUME CpAt("idle"), ~damaged PROVE log # Absent
  BY <1>l, <1>p, Zenon DEF ShowInv, CpAt
(* A step that writes nothing and makes nothing current.                   *)
<1>q. ASSUME UNCHANGED content, UNCHANGED <<log, unsynced, old, frontier, damaged, cp>>, CpAt("idle"),
             acked \subseteq acked',
             acked' \cup InFlight(Logged)' \subseteq acked \cup InFlight(Logged),
             acked' \cup InFlight(Synced)' \subseteq acked \cup InFlight(Synced),
             acked' \cup InFlight(Current)' \subseteq acked \cup InFlight(Current),
             LiveResident'
      PROVE  SafeInv'
  <2>1. ASSUME ~damaged PROVE ShowInv'
    BY <1>l, <1>p, <1>q, <2>1, Zenon DEF ShowInv, ShowsBy, CpAt, content
  <2> QED BY <1>c, <1>q, <1>s, <2>1, GhostKept DEF SafeInv
<1>1. CASE WalWrite(w) /\ handle
  <2>1. /\ UNCHANGED content /\ UNCHANGED <<minted, prior, acked, damaged, old, cp, frontier, atoms>>
        /\ unsynced' = log /\ log' = WithLine(log, job[w].hash) /\ GoTo(w, "sync") /\ At(w, "write")
    BY <1>1 DEF WalWrite, ghost, content, mem
  <2>2. job[w].hash \in Minted \ acked /\ CpAt("idle")
    BY <1>h, <2>1, ZenonT(30) DEF At
  <2>3. job'[w].pc = "sync" /\ job'[w].hash = job[w].hash /\ \A v \in Appender \ {w} : job'[v] = job[v]
    BY <1>g, <2>1, ZenonT(30)
  <2>4. /\ InFlight(Logged)' \subseteq InFlight(Logged) \cup {job[w].hash}
        /\ InFlight(Synced)' \subseteq InFlight(Synced)
        /\ InFlight(Current)' \subseteq InFlight(Current)
        /\ InFlight(Synced) \subseteq InFlight(Logged)
    <3>1. InFlight(Synced) \subseteq InFlight(Logged)
      BY Zenon DEF InFlight, Synced, Logged
    <3> QED BY <2>3, <3>1, FlightMoves DEF Logged, Synced, Current
  <2>5. LiveResident'
    BY <1>0, <2>1, <2>3, ResidentKept DEF At
  <2>6. ASSUME ~damaged PROVE ShowInv'
    <3>1. ShowInv /\ log # Absent /\ log \in FileOf(Minted) /\ log.tail = "ok"
      BY <1>0, <1>p, <2>2, <2>6 DEF ShowInv, TypeInv, DiskInv, IsFile
    <3>2. log.lines \in Seq(Minted) /\ log' = [lines |-> Append(log.lines, job[w].hash), tail |-> "ok"]
      BY <2>1, <2>2, <3>1, FileFields, LineWritten, ZenonT(30)
    <3>6. log'.tail = "ok" /\ log'.lines = Append(log.lines, job[w].hash) /\ job[w].hash \in Minted
      BY <2>2, <3>2
    <3>3. Replaced(ReplayBy(minted, log'.lines), ReplayBy(minted, log.lines), minted[job[w].hash], job[w].hash)
      <4>1. log'.lines \in Seq(Minted) /\ Longer(log'.lines, log.lines, job[w].hash)
        BY <3>2, <3>6, SMTT(20) DEF Longer
      <4> QED BY <3>2, <3>6, <4>1, ReplayAppend, ZenonT(30)
    <3>4. ShowsBy(minted, prior, ReplayBy(minted, log.lines), acked \cup InFlight(Logged))
      BY <3>1 DEF ShowInv
    <3>5. ShowsBy(minted, prior, ReplayBy(minted, log'.lines),
                  (acked \cup InFlight(Logged)) \cup {job[w].hash})
      BY <1>0, <1>f, <2>2, <3>3, <3>4, NewIsShown, Zenon
    <3>7. ShowsBy(minted, prior, ReplayBy(minted, log'.lines), acked \cup InFlight(Logged)')
      BY <2>4, <3>5, FewerShown, Zenon
    <3>8. ShowsBy(minted, prior, ReplayBy(minted, log.lines), acked \cup InFlight(Synced)')
      BY <2>4, <3>4, FewerShown, Zenon
    <3>9. ShowsBy(minted, prior, frontier, acked \cup InFlight(Current)')
      BY <2>4, <3>1, FewerShown, Zenon DEF ShowInv
    <3>10. log' # Absent
      BY <2>1, <2>2, <3>1, LineWritten, FilesPresent, <1>0, Zenon DEF TypeInv
    <3> QED BY <2>1, <2>2, <3>1, <3>6, <3>7, <3>8, <3>9, <3>10, Zenon DEF ShowInv, CpAt
  <2> QED BY <1>c, <1>l, <1>s, <2>1, <2>2, <2>5, <2>6, GhostKept, Zenon DEF SafeInv
<1>2. CASE WalWrite(w) /\ ~handle
  <2>1. /\ UNCHANGED content /\ UNCHANGED <<log, unsynced, old, frontier, damaged, cp>>
        /\ UNCHANGED <<acked, atoms>> /\ job' = [job EXCEPT ![w] = NoJob] /\ At(w, "write")
    BY <1>2 DEF WalWrite, ghost, mem
  <2>2. job'[w] = NoJob /\ \A v \in Appender \ {w} : job'[v] = job[v]
    BY <1>0, <2>1, JobStep, Zenon
  <2>3. /\ InFlight(Logged)' \subseteq InFlight(Logged)
        /\ InFlight(Synced)' \subseteq InFlight(Synced)
        /\ InFlight(Current)' \subseteq InFlight(Current)
    BY <2>2, FlightMoves DEF Logged, Synced, Current, NoJob
  <2>4. LiveResident'
    BY <1>0, <2>1, <2>2, ResidentKept DEF At
  <2>5. CpAt("idle")
    BY <1>h, <2>1, Zenon DEF At
  <2> QED BY <1>q, <2>1, <2>3, <2>4, <2>5, Zenon
<1>3. CASE WalSync(w)
  <2>1. /\ UNCHANGED content /\ UNCHANGED <<minted, prior, acked, damaged, log, old, cp, frontier, atoms>>
        /\ unsynced' = Absent /\ GoTo(w, "frontier") /\ At(w, "sync")
    BY <1>3 DEF WalSync, ghost, content, mem
  <2>2. CpAt("idle")
    BY <1>h, <2>1, ZenonT(30) DEF At
  <2>3. job'[w].pc = "frontier" /\ job'[w].hash = job[w].hash /\ \A v \in Appender \ {w} : job'[v] = job[v]
    BY <1>g, <2>1, ZenonT(30)
  <2>4. /\ InFlight(Logged)' \subseteq InFlight(Logged)
        /\ InFlight(Current)' \subseteq InFlight(Current)
    BY <2>1, <2>3, FlightMoves, Zenon DEF Logged, Current, At
  <2>5. LiveResident'
    BY <1>0, <2>1, <2>3, ResidentKept DEF At
  <2>6. ASSUME ~damaged PROVE ShowInv'
    BY <1>l, <1>p, <2>1, <2>2, <2>4, <2>6, Zenon DEF ShowInv, ShowsBy, CpAt
  <2> QED BY <1>c, <1>l, <1>s, <2>1, <2>2, <2>5, <2>6, GhostKept, Zenon DEF SafeInv
<1>4. CASE WalFails(w)
  <2>1. /\ UNCHANGED content /\ UNCHANGED <<minted, prior, acked, old, cp, frontier, atoms>>
        /\ unsynced' = Absent /\ job' = [job EXCEPT ![w] = NoJob]
        /\ At(w, "write") \/ At(w, "sync")
        /\ damaged' = TRUE \/ UNCHANGED <<log, damaged>>
    BY <1>4, Zenon DEF WalFails, content, mem
  <2>2. CpAt("idle")
    BY <1>h, <2>1, Zenon DEF At
  <2>3. job'[w] = NoJob /\ \A v \in Appender \ {w} : job'[v] = job[v]
    BY <1>0, <2>1, JobStep, Zenon
  <2>4. /\ InFlight(Logged)' \subseteq InFlight(Logged)
        /\ InFlight(Current)' \subseteq InFlight(Current)
    BY <2>3, FlightMoves DEF Logged, Current, NoJob
  <2>5. LiveResident'
    BY <1>0, <2>1, <2>3, ResidentKept DEF At
  <2>6. ASSUME ~damaged' PROVE ShowInv' /\ ~damaged
    <3>1. ~damaged /\ log' = log
      BY <2>1, <2>6
    <3> QED BY <1>l, <1>p, <2>1, <2>2, <2>4, <3>1, Zenon DEF ShowInv, ShowsBy, CpAt
  <2> QED BY <1>c, <1>s, <2>1, <2>2, <2>5, <2>6, GhostKept, Zenon DEF SafeInv
<1>5. CASE SetFrontier(w)
  <2>1. /\ UNCHANGED content /\ UNCHANGED <<minted, prior, acked, damaged, atoms, log, unsynced, old, cp>>
        /\ frontier' = [frontier EXCEPT ![job[w].path] = job[w].hash]
        /\ GoTo(w, "store") /\ At(w, "frontier")
    BY <1>5, Zenon DEF SetFrontier, ghost, content, disk
  <2>2. /\ CpAt("idle") /\ job[w].hash \in Minted \ acked /\ job[w].path = minted[job[w].hash]
    BY <1>h, <2>1, Zenon DEF At
  <2>3. job'[w].pc = "store" /\ job'[w].hash = job[w].hash /\ \A v \in Appender \ {w} : job'[v] = job[v]
    BY <1>g, <2>1, ZenonT(30)
  <2>4. /\ InFlight(Logged)' \subseteq InFlight(Logged)
        /\ InFlight(Synced)' \subseteq InFlight(Synced)
        /\ InFlight(Current)' \subseteq InFlight(Current) \cup {job[w].hash}
    BY <2>1, <2>3, FlightMoves DEF Logged, Synced, Current, At
  <2>5. Replaced(frontier', frontier, minted[job[w].hash], job[w].hash)
    BY <1>0, <2>1, <2>2, ZenonT(30) DEF TypeInv, MemInv, Replaced
  <2>6. LiveResident'
    BY <1>0, <2>1, <2>3, <2>5, ResidentMoves, Zenon
  <2>7. ASSUME ~damaged PROVE ShowInv'
    <3>1. ShowInv
      BY <1>l, <2>7
    <3>2. ShowsBy(minted, prior, frontier', (acked \cup InFlight(Current)) \cup {job[w].hash})
      BY <1>0, <1>f, <2>2, <2>5, <3>1, NewIsShown, Zenon DEF ShowInv
    <3>3. ShowsBy(minted, prior, frontier', acked \cup InFlight(Current)')
      BY <2>4, <3>2, FewerShown, Zenon
    <3>4. log # Absent => ShowsBy(minted, prior, ReplayBy(minted, log.lines), acked \cup InFlight(Logged)')
      BY <2>4, <3>1, FewerShown, Zenon DEF ShowInv
    <3>5. unsynced # Absent =>
            ShowsBy(minted, prior, ReplayBy(minted, unsynced.lines), acked \cup InFlight(Synced)')
      BY <2>4, <3>1, FewerShown, Zenon DEF ShowInv
    <3> QED BY <2>1, <2>2, <3>1, <3>3, <3>4, <3>5, Zenon DEF ShowInv, CpAt
  <2> QED BY <1>c, <1>l, <1>s, <2>1, <2>2, <2>6, <2>7, GhostKept, Zenon DEF SafeInv
<1>6. CASE StoreAtom(w)
  <2>1. /\ UNCHANGED content /\ UNCHANGED <<log, unsynced, old, frontier, damaged, cp>> /\ UNCHANGED acked
        /\ atoms' = atoms \cup {job[w].hash} /\ GoTo(w, "check") /\ At(w, "store")
    BY <1>6 DEF StoreAtom, ghost, disk
  <2>2. job'[w].pc = "check" /\ job'[w].hash = job[w].hash /\ \A v \in Appender \ {w} : job'[v] = job[v]
    BY <1>g, <2>1, ZenonT(30)
  <2>3. /\ InFlight(Logged)' \subseteq InFlight(Logged)
        /\ InFlight(Synced)' \subseteq InFlight(Synced)
        /\ InFlight(Current)' \subseteq InFlight(Current)
    BY <2>1, <2>2, FlightMoves, Zenon DEF Logged, Synced, Current, At
  <2>4. LiveResident'
    BY <1>0, <2>1, <2>2, ResidentKept, Zenon DEF At
  <2>5. CpAt("idle")
    BY <1>h, <2>1 DEF At
  <2> QED BY <1>q, <2>1, <2>3, <2>4, <2>5, Zenon
<1>7. CASE Ack(w)
  <2>1. /\ UNCHANGED content /\ UNCHANGED <<log, unsynced, old, frontier, damaged, cp>> /\ UNCHANGED atoms
        /\ acked' = acked \cup {job[w].hash} /\ job' = [job EXCEPT ![w] = NoJob]
        /\ At(w, "check") \/ At(w, "evict")
    BY <1>7, Zenon DEF Ack, disk, mem
  <2>2. job'[w] = NoJob /\ \A v \in Appender \ {w} : job'[v] = job[v]
    BY <1>0, <2>1, JobStep, Zenon
  <2>3. /\ InFlight(Logged)' \subseteq InFlight(Logged) /\ job[w].hash \in InFlight(Logged)
        /\ InFlight(Synced)' \subseteq InFlight(Synced) /\ job[w].hash \in InFlight(Synced)
        /\ InFlight(Current)' \subseteq InFlight(Current) /\ job[w].hash \in InFlight(Current)
    <3>1. job'[w].pc = "idle" /\ job[w].pc \in Current
      BY <2>1, <2>2 DEF NoJob, At, Current
    <3>2. /\ "idle" \notin Logged /\ "idle" \notin Synced /\ "idle" \notin Current
          /\ Current \subseteq Synced /\ Current \subseteq Logged
      BY DEF Logged, Synced, Current
    <3> QED BY <2>2, <3>1, <3>2, FlightMoves, Zenon
  <2>4. LiveResident'
    BY <1>0, <2>1, <2>2, ResidentKept DEF At
  <2>5. CpAt("idle")
    BY <1>h, <2>1, Zenon DEF At
  <2> QED BY <1>q, <2>1, <2>3, <2>4, <2>5, Zenon
<1>8. CASE EvictStart(w)
  <2>1. /\ UNCHANGED content /\ UNCHANGED <<log, unsynced, old, frontier, damaged, cp>> /\ UNCHANGED <<atoms, acked>>
        /\ job' = [job EXCEPT ![w].pc = "evict", ![w].keep = FrontierHashes] /\ At(w, "check")
    BY <1>8 DEF EvictStart, ghost, disk, mem
  <2>2. job'[w].pc = "evict" /\ job'[w].hash = job[w].hash /\ \A v \in Appender \ {w} : job'[v] = job[v]
    BY <1>0, <2>1 DEF TypeInv, JobInv
  <2>3. /\ InFlight(Logged)' \subseteq InFlight(Logged)
        /\ InFlight(Synced)' \subseteq InFlight(Synced)
        /\ InFlight(Current)' \subseteq InFlight(Current)
    BY <2>1, <2>2, FlightMoves, Zenon DEF Logged, Synced, Current, At
  <2>4. LiveResident'
    BY <1>0, <2>1, <2>2, ResidentKept, Zenon DEF At
  <2>5. CpAt("idle")
    BY <1>h, <2>1 DEF At
  <2> QED BY <1>q, <2>1, <2>3, <2>4, <2>5
<1>9. ASSUME NEW h \in Hash, EvictAtom(w, h) PROVE SafeInv'
  <2>1. /\ UNCHANGED content /\ UNCHANGED <<log, unsynced, old, frontier, damaged, cp>> /\ UNCHANGED <<job, acked>>
        /\ atoms' = atoms \ {h} /\ At(w, "evict") /\ frontier[minted[h]] # h
    BY <1>9, Zenon DEF EvictAtom, ghost, disk
  <2>2. /\ InFlight(Logged)' = InFlight(Logged)
        /\ InFlight(Synced)' = InFlight(Synced)
        /\ InFlight(Current)' = InFlight(Current)
    BY <2>1, Zenon DEF InFlight
  <2>3. \A p \in Path : frontier[p] # 0 => frontier[p] # h
    BY <1>0, <2>1, Zenon DEF TypeInv, MemInv
  <2>4. LiveResident'
    BY <1>0, <2>1, <2>3 DEF LiveResident, At
  <2>5. CpAt("idle")
    BY <1>h, <2>1, Zenon DEF At
  <2> QED BY <1>q, <2>1, <2>2, <2>4, <2>5, Zenon
<1> QED BY <1>1, <1>2, <1>3, <1>4, <1>5, <1>6, <1>7, <1>8, <1>9 DEF Append1

(* A look of the sweeper: the deadline it finds passed is that of the      *)
(* current atom, which is prior to none of the acknowledged ones.          *)
LEMMA SweepLookSafe ==
  ASSUME IInv, NEW p \in Path, SweepLook(p)
  PROVE  SafeInv'
<1>0. TypeInv /\ SafeInv
  BY DEF IInv
<1>1. /\ UNCHANGED content /\ UNCHANGED <<minted, prior, mortal, acked, damaged>> /\ UNCHANGED <<job, cp>>
      /\ UNCHANGED <<frontier, atoms, log, tmp, old, unsynced>>
      /\ sweep' = [sweep EXCEPT !.found[p] = AckedOf(p)]
      /\ frontier[p] \in mortal
  BY DEF SweepLook, ghost, content, mem, disk
<1>2. CpInv' /\ LiveResident'
  BY <1>0, <1>1 DEF SafeInv, CpInv, LiveResident, FrontierHashes, CpAt, At
<1>3. ASSUME ~damaged' PROVE ShowInv' /\ FoundInv'
  <2>1. ShowInv /\ FoundInv
    BY <1>0, <1>1, <1>3 DEF SafeInv
  <2>2. ShowInv'
    BY <1>1, <2>1 DEF ShowInv, ShowsBy, InFlight, CpAt
  <2>3. sweep'.found[p] = AckedOf(p) /\ \A q \in Path \ {p} : sweep'.found[q] = sweep.found[q]
    BY <1>0, <1>1 DEF TypeInv, SweepInv
  <2>4. \A h \in AckedOf(p) : minted[frontier[p]] = minted[h] /\ frontier[p] \notin prior[h]
    <3>1. frontier[p] # 0 /\ minted[frontier[p]] = p
      BY <1>0, <1>1 DEF TypeInv, ContentInv, MemInv, Minted
    <3> QED BY <2>1, <3>1, Zenon DEF ShowInv, ShowsBy, AckedOf
  <2>5. FoundInv'
    BY <1>1, <2>1, <2>3, <2>4 DEF FoundInv
  <2> QED BY <2>2, <2>5
<1>4. BuriesOnlyExpired'
  BY <1>1, GhostKept
<1> QED BY <1>2, <1>3, <1>4 DEF SafeInv

(* The steps of a compaction.  No append is under way.                     *)
LEMMA CompactionSafe ==
  ASSUME LastThere, IInv, "overlap" \notin Feature, Compaction
  PROVE  SafeInv'
<1>0. TypeInv /\ CpInv /\ LiveResident /\ (~damaged => ShowInv /\ FoundInv)
  BY DEF IInv, SafeInv
<1>s. UNCHANGED sweep
  BY Zenon DEF Compaction
<1>i. ASSUME ~CpAt("idle") PROVE \A w \in Appender : At(w, "idle")
  BY <1>0, <1>i, Zenon DEF CpInv
<1>e. ASSUME \A w \in Appender : At(w, "idle")
      PROVE  InFlight(Logged) = {} /\ InFlight(Synced) = {} /\ InFlight(Current) = {}
  BY <1>0, <1>e, FlightType, Zenon DEF Logged, Synced, Current
<1>j. UNCHANGED job => UNCHANGED <<InFlight(Logged), InFlight(Synced), InFlight(Current)>>
  BY Zenon DEF InFlight
<1>r. ASSUME \A w \in Appender : At(w, "idle")
      PROVE  \A p \in Path : frontier[p] # 0 => frontier[p] \in atoms
  BY <1>0, <1>r, Zenon DEF LiveResident, At
<1>p. ASSUME ~CpAt("swap"), ~damaged PROVE log # Absent
  BY <1>0, <1>p, Zenon DEF ShowInv
(* A step that leaves the log and the frontier as they are.                *)
<1>q. ASSUME UNCHANGED content, UNCHANGED <<minted, prior, acked, damaged, job, frontier, log, unsynced>>,
             ~CpAt("swap"), cp'.pc # "swap", CpInv', LiveResident'
      PROVE  SafeInv'
  <2>1. ASSUME ~damaged PROVE ShowInv'
    <3>1. ShowInv /\ log # Absent
      BY <1>0, <1>p, <1>q, <2>1, Zenon
    <3> QED BY <1>j, <1>q, <3>1, Zenon DEF ShowInv, CpAt
  <2> QED BY <1>q, <1>s, <2>1, GhostKept, Zenon DEF SafeInv
<1>l. ASSUME UNCHANGED <<job, frontier, atoms>> PROVE LiveResident'
  BY <1>0, <1>l DEF LiveResident, At
<1>1. CASE CpStart
  <2>1. /\ UNCHANGED content /\ UNCHANGED <<minted, prior, acked, damaged, job, frontier, log, unsynced>>
        /\ UNCHANGED atoms /\ CpAt("idle") /\ \A w \in Appender : At(w, "idle")
        /\ cp' = [NoCompaction EXCEPT !.pc = "collect", !.todo = {p \in Path : frontier[p] # 0}]
    BY <1>1 DEF CpStart, ghost, content, mem, disk
  <2>2. cp'.pc = "collect" /\ cp'.alive = <<>> /\ cp'.todo = {p \in Path : frontier[p] # 0}
    BY <2>1 DEF NoCompaction
  <2>3. Range(<<>>) = {}
    BY DEF Range
  <2>4. CpInv'
    BY <2>1, <2>2, <2>3 DEF CpInv, CpAt, At
  <2> QED BY <1>q, <1>l, <2>1, <2>2, <2>4 DEF CpAt
<1>2. ASSUME NEW p \in Path, CpCollect(p) PROVE SafeInv'
  <2>1. /\ UNCHANGED content /\ UNCHANGED <<minted, prior, acked, damaged, job, frontier, log, unsynced>>
        /\ UNCHANGED atoms /\ CpAt("collect") /\ p \in cp.todo
        /\ cp' = [cp EXCEPT !.todo = @ \ {p},
                            !.alive = IF frontier[p] \in atoms THEN Append(@, frontier[p]) ELSE @]
    BY <1>2 DEF CpCollect, ghost, content, mem, disk
  <2>2. /\ cp'.pc = "collect" /\ cp'.todo = cp.todo \ {p}
        /\ cp'.alive = IF frontier[p] \in atoms THEN Append(cp.alive, frontier[p]) ELSE cp.alive
    BY <1>0, <2>1 DEF TypeInv, CpType, CpAt
  <2>3. \A w \in Appender : At(w, "idle")
    BY <1>i, <2>1, Zenon DEF CpAt
  <2>4. frontier[p] # 0 <=> frontier[p] \in atoms
    BY <1>0, <1>r, <2>3 DEF TypeInv, MemInv, Minted
  <2>5. frontier[p] \in atoms => Range(cp'.alive) = Range(cp.alive) \cup {frontier[p]}
    <3> SUFFICES ASSUME frontier[p] \in atoms
                 PROVE  Range(Append(cp.alive, frontier[p])) = Range(cp.alive) \cup {frontier[p]}
      BY <2>2
    <3>1. cp.alive \in Seq(Minted) /\ frontier[p] \in Minted
      BY <1>0, Zenon DEF TypeInv, CpType, MemInv
    <3> QED BY <3>1, RangeAppended
  <2>6. Range(cp'.alive) \subseteq FrontierHashes'
    <3>1. Range(cp.alive) \subseteq FrontierHashes /\ FrontierHashes' = FrontierHashes
      BY <1>0, <2>1 DEF CpInv, FrontierHashes
    <3>2. frontier[p] \in atoms => frontier[p] \in FrontierHashes
      BY <2>4 DEF FrontierHashes
    <3> QED BY <2>2, <2>5, <3>1, <3>2
  <2>7. \A q \in Path \ cp'.todo : frontier'[q] # 0 => frontier'[q] \in Range(cp'.alive)
    <3>1. \A q \in Path \ cp.todo : frontier[q] # 0 => frontier[q] \in Range(cp.alive)
      BY <1>0, <2>1 DEF CpInv
    <3> QED BY <2>1, <2>2, <2>4, <2>5, <3>1
  <2>8. CpInv'
    BY <2>1, <2>2, <2>3, <2>6, <2>7 DEF CpInv, CpAt, At
  <2> QED BY <1>q, <1>l, <2>1, <2>2, <2>8 DEF CpAt
<1>3. CASE RwTmp
  <2>1. /\ UNCHANGED content /\ UNCHANGED <<minted, prior, acked, damaged, job, frontier, log, unsynced>>
        /\ UNCHANGED atoms /\ CpAt("collect") /\ cp.todo = {}
        /\ \/ tmp' = [lines |-> cp.alive, tail |-> "ok"] /\ cp' = [cp EXCEPT !.pc = "close"]
           \/ cp' = NoCompaction
    BY <1>3 DEF RwTmp, ghost, content, mem
  <2>2. CASE tmp' = [lines |-> cp.alive, tail |-> "ok"] /\ cp' = [cp EXCEPT !.pc = "close"]
    <3>1. cp'.pc = "close"
      BY <1>0, <2>2 DEF TypeInv, CpType
    <3>2. tmp'.lines = cp.alive /\ tmp'.tail = "ok" /\ tmp' \in FileOf(Minted)
      BY <1>0, <2>2, Zenon DEF TypeInv, CpType, FileOf
    <3>3. tmp' # Absent
      BY <1>0, <3>2, FilesPresent DEF TypeInv
    <3>4. Range(cp.alive) = FrontierHashes
      BY <1>0, <2>1 DEF CpInv, FrontierHashes
    <3>5. CpInv'
      BY <1>i, <2>1, <3>1, <3>2, <3>3, <3>4 DEF CpInv, CpAt, At, FrontierHashes
    <3> QED BY <1>q, <1>l, <2>1, <3>1, <3>5 DEF CpAt
  <2>3. CASE cp' = NoCompaction
    <3>1. cp'.pc = "idle"
      BY <2>3, Zenon DEF NoCompaction
    <3>2. CpInv'
      BY <3>1 DEF CpInv, CpAt
    <3> QED BY <1>q, <1>l, <2>1, <3>1, <3>2, Zenon DEF CpAt
  <2> QED BY <2>1, <2>2, <2>3
<1>4. CASE RwClose
  <2>1. /\ UNCHANGED content /\ UNCHANGED <<minted, prior, acked, damaged, job, frontier, log, unsynced>>
        /\ UNCHANGED <<atoms, tmp>> /\ CpAt("close") /\ old' = Absent /\ cp' = [cp EXCEPT !.pc = "backup"]
    BY <1>4 DEF RwClose, ghost, content, mem
  <2>2. cp'.pc = "backup"
    BY <1>0, <2>1 DEF TypeInv, CpType
  <2>3. CpInv'
    BY <1>0, <2>1, <2>2 DEF CpInv, CpAt, At, FrontierHashes
  <2> QED BY <1>q, <1>l, <2>1, <2>2, <2>3 DEF CpAt
<1>5. CASE RwBackup
  <2>1. /\ UNCHANGED content /\ UNCHANGED <<minted, prior, acked, damaged, job, frontier, unsynced>>
        /\ UNCHANGED <<atoms, tmp>> /\ CpAt("backup") /\ cp' = [cp EXCEPT !.pc = "swap"]
        /\ (old' = log /\ log' = Absent) \/ UNCHANGED <<old, log>>
    BY <1>5 DEF RwBackup, ghost, content, mem
  <2>2. cp'.pc = "swap"
    BY <1>0, <2>1 DEF TypeInv, CpType
  <2>3. CpInv'
    BY <1>0, <2>1, <2>2 DEF CpInv, CpAt, At, FrontierHashes
  <2>4. ASSUME ~damaged PROVE ShowInv'
    <3>1. ShowInv /\ log # Absent /\ old = Absent
      BY <1>0, <1>p, <2>1, <2>4 DEF CpInv, CpAt
    <3>2. InFlight(Logged) = {}
      BY <1>e, <1>i, <2>1, Zenon DEF CpAt
    <3>3. ShowsBy(minted, prior, ReplayBy(minted, log.lines), acked)
      BY <3>1, <3>2 DEF ShowInv
    <3> QED BY <1>j, <2>1, <2>2, <3>1, <3>3 DEF ShowInv, CpAt
  <2> QED BY <1>0, <1>l, <1>s, <2>1, <2>3, <2>4, GhostKept DEF SafeInv
<1>6. CASE RwSwap
  <2>1. /\ UNCHANGED content /\ UNCHANGED <<minted, prior, acked, job, frontier, unsynced>>
        /\ UNCHANGED atoms /\ CpAt("swap")
        /\ damaged' = TRUE \/ UNCHANGED damaged
        /\ cp' = [cp EXCEPT !.pc = "reopen"] \/ cp' = [cp EXCEPT !.pc = "abort"]
    BY <1>6 DEF RwSwap, content, mem
  <2>2. cp'.pc \in {"reopen", "abort"}
    BY <1>0, <2>1 DEF TypeInv, CpType
  <2>3. \A w \in Appender : At(w, "idle")
    BY <1>i, <2>1 DEF CpAt
  <2>4. CpInv'
    BY <2>1, <2>2, <2>3 DEF CpInv, CpAt, At
  <2>5. ASSUME ~damaged' PROVE ShowInv' /\ FoundInv'
    <3>1. ~damaged /\ ShowInv /\ FoundInv
      BY <1>0, <2>1, <2>5
    <3>2. /\ InFlight(Logged) = {} /\ InFlight(Synced) = {} /\ InFlight(Current) = {}
          /\ InFlight(Logged)' = {} /\ InFlight(Synced)' = {} /\ InFlight(Current)' = {}
      BY <1>e, <1>j, <2>1, <2>3
    <3>3. unsynced = Absent
      BY <1>0, <2>1, CrystalAssumption DEF TypeInv, DiskInv, LockInv, CpAt, Appender
    <3>4. /\ log' # Absent /\ log'.tail = "ok"
          /\ ShowsBy(minted, prior, ReplayBy(minted, log'.lines), acked)
      <4>1. CASE log' = tmp
        <5>1. tmp # Absent /\ tmp.tail = "ok" /\ Range(tmp.lines) = FrontierHashes
          BY <1>0, <2>1, Zenon DEF CpInv, CpAt
        <5>2. tmp.lines \in Seq(Minted)
          BY <1>0, <5>1, FileFields, Zenon DEF TypeInv, DiskInv, IsFile
        <5>3. ReplayBy(minted, tmp.lines) = frontier
          BY <1>0, <5>1, <5>2, ReplayFrontier DEF TypeInv, MemInv, FrontierHashes
        <5> QED BY <3>1, <3>2, <4>1, <5>1, <5>3 DEF ShowInv
      <4>2. CASE log' = IF old # Absent THEN old ELSE log
        BY <2>1, <3>1, <3>2, <4>2 DEF ShowInv
      <4> QED BY <1>6, <2>5, <4>1, <4>2, Zenon DEF RwSwap
    <3>5. ShowInv'
      BY <2>1, <2>2, <3>1, <3>2, <3>3, <3>4 DEF ShowInv, CpAt
    <3> QED BY <1>s, <2>1, <2>5, <3>1, <3>5, GhostKept
  <2> QED BY <1>l, <2>1, <2>4, <2>5, GhostKept DEF SafeInv
<1>7. CASE RwReopen
  <2>1. /\ UNCHANGED content /\ UNCHANGED <<minted, prior, acked, damaged, job, frontier, unsynced>>
        /\ UNCHANGED atoms /\ cp.pc \in {"reopen", "abort"}
        /\ log' = (IF log = Absent THEN Empty ELSE log) \/ log' = log
        /\ \/ cp' = NoCompaction
           \/ cp' = [cp EXCEPT !.pc = "evict", !.keep = FrontierHashes, !.start = atoms]
    BY <1>7 DEF RwReopen, ghost, content, mem
  <2>2. cp'.pc \in {"idle", "evict"} /\ (cp'.pc = "evict" => cp'.keep = FrontierHashes)
    <3>1. CASE cp' = NoCompaction
      BY <3>1 DEF NoCompaction
    <3>2. CASE cp' = [cp EXCEPT !.pc = "evict", !.keep = FrontierHashes, !.start = atoms]
      BY <1>0, <3>2 DEF TypeInv, CpType
    <3> QED BY <2>1, <3>1, <3>2, Zenon
  <2>3. CpInv'
    BY <1>i, <2>1, <2>2 DEF CpInv, CpAt, At, FrontierHashes
  <2>4. ASSUME ~damaged PROVE ShowInv'
    <3>1. ShowInv /\ log # Absent
      BY <1>0, <1>p, <2>1, <2>4 DEF CpAt
    <3> QED BY <1>j, <2>1, <2>2, <3>1 DEF ShowInv, CpAt
  <2> QED BY <1>0, <1>l, <1>s, <2>1, <2>3, <2>4, GhostKept DEF SafeInv
<1>8. ASSUME NEW h \in Hash, CpEvict(h) PROVE SafeInv'
  <2>1. /\ UNCHANGED content /\ UNCHANGED <<minted, prior, acked, damaged, job, frontier, log, unsynced>>
        /\ UNCHANGED <<tmp, old, cp>> /\ CpAt("evict") /\ h \notin cp.keep /\ atoms' = atoms \ {h}
    BY <1>8, Zenon DEF CpEvict, ghost, content, disk
  <2>2. h \notin FrontierHashes
    BY <1>0, <2>1, Zenon DEF CpInv
  <2>3. \A p \in Path : frontier[p] # 0 => frontier[p] # h
    BY <2>2, Zenon DEF FrontierHashes
  <2>4. LiveResident'
    BY <1>0, <2>1, <2>3, Zenon DEF LiveResident, At
  <2>5. CpInv'
    BY <1>0, <2>1, Zenon DEF CpInv, CpAt, At, FrontierHashes
  <2> QED BY <1>q, <2>1, <2>4, <2>5, ZenonT(30) DEF CpAt
<1>9. CASE CpDone
  <2>1. /\ UNCHANGED content /\ UNCHANGED <<minted, prior, acked, damaged, job, frontier, log, unsynced>>
        /\ UNCHANGED atoms /\ CpAt("evict") /\ cp' = NoCompaction
    BY <1>9, Zenon DEF CpDone, ghost, content, mem, disk
  <2>2. cp'.pc = "idle"
    BY <2>1 DEF NoCompaction
  <2>3. CpInv'
    BY <2>2 DEF CpInv, CpAt
  <2> QED BY <1>q, <1>l, <2>1, <2>2, <2>3, Zenon DEF CpAt
<1> QED BY <1>1, <1>2, <1>3, <1>4, <1>5, <1>6, <1>7, <1>8, <1>9 DEF Compaction

(* A crash and the replay.  Unless it damages the log, it leaves the log   *)
(* with or without the line that was not synced.                           *)
LEMMA CrashSafe ==
  ASSUME LastThere, IInv, Crash
  PROVE  SafeInv'
<1>0. TypeInv /\ (~damaged => ShowInv)
  BY Zenon DEF IInv, SafeInv
<1>1. PICK file \in AfterCrash :
        /\ log' = file
        /\ frontier' = Replay(file.lines)
        /\ atoms' = Range(file.lines)
        /\ damaged' = (damaged \/ log = Absent \/ file.tail # "ok")
  BY Zenon DEF Crash
<1>2. /\ UNCHANGED content /\ UNCHANGED <<minted, prior, acked>> /\ unsynced' = Absent
      /\ job' = [w \in Appender |-> NoJob] /\ sweep' = NoSweep /\ cp' = NoCompaction
  BY Zenon DEF Crash, content
<1>3. \A w \in Appender : job'[w].pc = "idle"
  BY <1>2, Zenon DEF NoJob
<1>4. cp'.pc = "idle"
  BY <1>2, Zenon DEF NoCompaction
<1>5. CpInv'
  BY <1>4 DEF CpInv, CpAt
<1>6. TypeInv'
  BY <1>0, CrashTyped, Zenon
<1>7. file \in FileOf(Minted) /\ file # Absent /\ file.lines \in Seq(Minted)
  <2>1. log' # Absent
    BY <1>6, Zenon DEF TypeInv, LockInv, Crash
  <2>2. log' \in FileOf(Minted') /\ Minted' = Minted
    BY <1>2, <1>6, <2>1 DEF TypeInv, DiskInv, IsFile, Minted
  <2> QED BY <1>1, <2>1, <2>2, FileFields, Zenon
<1>8. Replay(file.lines) = ReplayBy(minted, file.lines)
  BY Zenon DEF Replay, ReplayBy
<1>9. LiveResident'
  <2>1. \A p \in Path : frontier'[p] # 0 => frontier'[p] \in Range(file.lines)
    BY <1>1, <1>7, <1>8, ReplayType
  <2> QED BY <1>1, <2>1, Zenon DEF LiveResident
<1>10. ASSUME ~damaged' PROVE ShowInv' /\ FoundInv'
  <2>1. ~damaged /\ log # Absent /\ file.tail = "ok" /\ ShowInv
    BY <1>0, <1>1, <1>10, Zenon
  <2>2. ShowsBy(minted, prior, ReplayBy(minted, file.lines), acked)
    <3>1. CASE file = log
      BY <2>1, <3>1, Zenon DEF ShowInv, ShowsBy
    <3>2. CASE file # log
      <4>1. file = unsynced /\ unsynced # Absent
        <5>1. file \in {unsynced, WithPart(unsynced), [log EXCEPT !.tail = "unended"]} /\ unsynced # Absent
          BY <2>1, <3>2 DEF AfterCrash
        <5>2. WithPart(unsynced).tail = "part"
          BY DEF WithPart
        <5>3. [log EXCEPT !.tail = "unended"].tail = "unended"
          BY <1>0, <2>1 DEF TypeInv, DiskInv, IsFile, FileOf
        <5> QED BY <2>1, <5>1, <5>2, <5>3, Zenon
      <4> QED BY <2>1, <4>1, Zenon DEF ShowInv, ShowsBy
    <3> QED BY <3>1, <3>2
  <2>3. InFlight(Logged)' = {} /\ InFlight(Current)' = {}
    BY <1>3 DEF InFlight, Logged, Current
  <2>4. ShowInv'
    BY <1>1, <1>2, <1>4, <1>7, <1>8, <2>1, <2>2, <2>3, Zenon DEF ShowInv, CpAt
  <2>5. FoundInv'
    BY <1>2, NoSweepType, Zenon DEF FoundInv
  <2> QED BY <2>4, <2>5
<1>11. BuriesOnlyExpired'
  BY <1>1, <1>2, GhostKept, Zenon
<1> QED BY <1>5, <1>9, <1>10, <1>11 DEF SafeInv

LEMMA StepSafe ==
  ASSUME LastThere, "overlap" \notin Feature, IInv, [Next]_vars
  PROVE  IInv'
<1>0. TypeInv
  BY DEF IInv
<1>1. TypeInv'
  BY <1>0, StepTyped
<1>2. ASSUME Compaction PROVE SafeInv'
  BY <1>2, CompactionSafe
<1>3. ASSUME Crash PROVE SafeInv'
  BY <1>3, CrashSafe
<1>4. ASSUME NEW p \in Path, SweepLook(p) PROVE SafeInv'
  BY <1>4, SweepLookSafe
<1>5. ASSUME NEW p \in Path, SweepBury(p) PROVE SafeInv'
  <2>1. sweep.found[p] \in SUBSET acked /\ Sweeper \in Appender
    BY <1>0, <1>5, Zenon DEF AckedOf, Appender, TypeInv, SweepInv, SweepBury
  <2>2. \A q \in Path : sweep'.found[q] # Absent => sweep'.found[q] = sweep.found[q]
    BY <1>0, <1>5 DEF TypeInv, SweepInv, SweepBury
  <2>3. /\ Mint(Sweeper, p) /\ prior' = Append(prior, sweep.found[p]) /\ mortal' = mortal
        /\ buried' = buried \cup {Len(minted) + 1}
    BY <1>5, ZenonT(30) DEF SweepBury
  <2> QED BY <2>1, <2>2, <2>3, MintSafe, Zenon
<1>6. ASSUME NEW w \in Writer, NEW p \in Path, ClientWrite(w, p) PROVE SafeInv'
  <2>1. AckedOf(p) \in SUBSET acked /\ w \in Appender
    BY DEF AckedOf, Appender
  <2>2. /\ Mint(w, p) /\ prior' = Append(prior, AckedOf(p)) /\ buried' = buried /\ sweep' = sweep
        /\ mortal \subseteq mortal' /\ mortal' \subseteq mortal \cup {Len(minted) + 1}
    BY <1>6 DEF ClientWrite
  <2> QED BY <2>1, <2>2, MintSafe, Zenon
<1>7. ASSUME NEW w \in Appender, Append1(w) PROVE SafeInv'
  BY <1>7, AppendSafe, Zenon
<1>8. ASSUME UNCHANGED vars PROVE SafeInv'
  <2>1. /\ UNCHANGED content /\ UNCHANGED <<minted, prior, acked, damaged>> /\ UNCHANGED <<job, sweep, cp>>
        /\ UNCHANGED <<frontier, atoms, log, tmp, old, unsynced>>
    BY <1>8 DEF vars, ghost, content, mem, disk
  <2>2. CpInv' /\ LiveResident'
    BY <2>1, ZenonT(30) DEF IInv, SafeInv, CpInv, LiveResident, FrontierHashes, CpAt, At
  <2>3. ~damaged => ShowInv'
    BY <2>1, Zenon DEF IInv, SafeInv, ShowInv, InFlight, CpAt
  <2> QED BY <2>1, <2>2, <2>3, GhostKept, Zenon DEF SafeInv
<1> QED BY <1>1, <1>2, <1>3, <1>4, <1>5, <1>6, <1>7, <1>8 DEF IInv, Next, Sweep

-----------------------------------------------------------------------------
(* The theorems.                                                           *)
INSTANCE WellFoundedInduction

LEMMA LastExists == LastThere
<1> SUFFICES ASSUME NEW n \in Nat, NEW S \in SUBSET (1..n), S # {}
             PROVE  \E i \in S : \A j \in S : j <= i
  BY Zenon DEF LastThere
<1> DEFINE T == {k \in 0..n : n - k \in S}
<1>a. PICK i \in S : TRUE
  BY Zenon
<1>b. n - i \in T
  BY <1>a
<1>1. T \in SUBSET Nat /\ T # {}
  <2>1. T # {}
    BY <1>b, Zenon
  <2> QED BY <2>1
<1>2. PICK x \in T : \A y \in T : <<y, x>> \notin OpToRel(<, Nat)
  BY <1>1, WFMin, NatLessThanWellFounded, Zenon
<1>3. \A y \in T : ~(y < x)
  BY <1>1, <1>2, Zenon DEF OpToRel
<1>4. \A j \in S : n - j \in T
  OBVIOUS
<1>5. n - x \in S /\ x \in 0..n
  OBVIOUS
<1>6. \A j \in S : j <= n - x
  BY <1>3, <1>4, <1>5, SMTT(20)
<1> QED BY <1>5, <1>6

(* Every variable of the crystal keeps its type, and w.mu is held exactly  *)
(* in the critical sections of WAL.Append and WAL.Rewrite, whatever        *)
(* overlaps, fails or crashes.                                             *)
THEOREM CrystalTypeCorrect == Spec => []TypeOK
<1>1. TypeInv /\ [Next]_vars => TypeInv'
  BY LastExists, StepTyped
<1> QED BY InitTyped, <1>1, TypeInvIsTypeOK, PTL DEF Spec

LEMMA InvariantHolds == "overlap" \notin Feature /\ Spec => []IInv
<1> SUFFICES ASSUME "overlap" \notin Feature PROVE Spec => []IInv
  OBVIOUS
<1>1. Init => IInv
  BY InitTyped, InitSafe DEF IInv
<1>2. IInv /\ [Next]_vars => IInv'
  BY LastExists, StepSafe
<1> QED BY <1>1, <1>2, PTL DEF Spec

(* No acknowledged write is lost: after a crash and restart Recover shows  *)
(* each of them or one that was not acknowledged before it began, whatever *)
(* was compacted, evicted, torn or failed, as long as the log was not      *)
(* damaged and appends do not run beside a compaction.                     *)
THEOREM CrystalDurable == "overlap" \notin Feature /\ Spec => []DurableUnlessDamaged
<1>1. IInv => DurableUnlessDamaged
  <2> SUFFICES ASSUME IInv, log # Absent, ~damaged PROVE Shows(Replay(log.lines))
    BY DEF DurableUnlessDamaged
  <2>1. ShowsBy(minted, prior, ReplayBy(minted, log.lines), acked)
    BY Zenon DEF IInv, SafeInv, ShowInv, ShowsBy
  <2>2. Replay(log.lines) = ReplayBy(minted, log.lines)
    BY Zenon DEF Replay, ReplayBy
  <2> QED BY <2>1, <2>2 DEF Shows, ShowsBy
<1> QED BY <1>1, InvariantHolds, PTL

(* So does the live process, which reads FrontierIndex.                    *)
THEOREM CrystalFrontierShows == "overlap" \notin Feature /\ Spec => []FrontierShows
<1>1. IInv => FrontierShows
  BY Zenon DEF IInv, SafeInv, ShowInv, ShowsBy, FrontierShows, Shows
<1> QED BY <1>1, InvariantHolds, PTL

(* The current hash of a path leads to its atom, whatever evictIfNeeded    *)
(* and Compact drop.                                                       *)
THEOREM CrystalResident == "overlap" \notin Feature /\ Spec => []LiveResident
<1>1. IInv => LiveResident
  BY DEF IInv, SafeInv
<1> QED BY <1>1, InvariantHolds, PTL

(* sweepExpired buries only what a write with a deadline had replaced.     *)
THEOREM CrystalBuries == "overlap" \notin Feature /\ Spec => []BuriesOnlyExpired
<1>1. IInv => BuriesOnlyExpired
  BY DEF IInv, SafeInv
<1> QED BY <1>1, InvariantHolds, PTL
====
