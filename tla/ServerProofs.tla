---------------------------- MODULE ServerProofs ----------------------------
(***************************************************************************)
(* The connection limit of Server and what Close leaves behind, the types  *)
(* of its state, and that only SETEX and HSET change the type of a key,    *)
(* for any number of clients, any limit and any commands.                  *)
(***************************************************************************)
EXTENDS Server, TLAPS

Served(ph) == {c \in Conn : ph[c] \in {"counted", "open"}}

(* The connections counted are a finite set, and there is room for the one *)
(* the accept loop has admitted; it works on one at a time, and after      *)
(* Close has returned there is that one at most.                           *)
LimitInv ==
  /\ phase \in [Conn -> {"off", "accepted", "admitted", "counted", "open", "leaving"}]
  /\ IsFiniteSet(Served(phase))
  /\ activeConns = Cardinality(Served(phase))
  /\ activeConns <= MaxConns
  /\ (\E c \in Conn : phase[c] = "admitted") => activeConns < MaxConns
  /\ \A c, d \in Conn : InLoop(c) /\ InLoop(d) => c = d
  /\ closing = "done" => \A c, d \in Conn : phase[c] # "off" /\ phase[d] # "off" => c = d

-----------------------------------------------------------------------------
(* Types.  A goroutine that is past the start of a command has one, and a  *)
(* value to write when it is about to.                                     *)

Steps == {"idle", "index", "infer", "scan", "read", "put", "tag", "untag",
          "children", "flush", "refused"}

JobOK(j) ==
  /\ j \in Job
  /\ j.pc # "idle" => j.cmd \in Command
  /\ j.pc = "put" => j.val \in Value

KeyInv ==
  /\ store \in [Path -> Value \cup {Absent}]
  /\ keyTypes \in [Path -> Type \cup {"hash", "none"}]
  /\ job \in [Conn -> Job]
  /\ \A c \in Conn : JobOK(job[c])
  /\ faults \in 0..MaxFaults

(* What a step makes of the job of its connection.                         *)
LEMMA JobMoves ==
  ASSUME NEW j \in Job, NEW pc \in Steps
  PROVE  /\ [j EXCEPT !.pc = pc] \in Job
         /\ [j EXCEPT !.pc = pc].pc = pc
         /\ [j EXCEPT !.pc = pc].cmd = j.cmd
         /\ [j EXCEPT !.pc = pc].val = j.val
BY DEF Job, Steps

LEMMA JobWrites ==
  ASSUME NEW j \in Job, NEW v \in Value
  PROVE  /\ [j EXCEPT !.pc = "put", !.val = v] \in Job
         /\ [j EXCEPT !.pc = "put", !.val = v].pc = "put"
         /\ [j EXCEPT !.pc = "put", !.val = v].cmd = j.cmd
         /\ [j EXCEPT !.pc = "put", !.val = v].val = v
BY Zenon DEF Job

LEMMA JobRefused ==
  ASSUME NEW j \in Job, NEW f \in BOOLEAN
  PROVE  /\ [j EXCEPT !.pc = "refused", !.fair = f] \in Job
         /\ [j EXCEPT !.pc = "refused", !.fair = f].pc = "refused"
         /\ [j EXCEPT !.pc = "refused", !.fair = f].cmd = j.cmd
         /\ [j EXCEPT !.pc = "refused", !.fair = f].val = j.val
BY Zenon DEF Job

LEMMA JobThins ==
  ASSUME NEW j \in Job, NEW v \in Value
  PROVE  /\ [j EXCEPT !.val = v] \in Job
         /\ [j EXCEPT !.val = v].pc = j.pc
         /\ [j EXCEPT !.val = v].cmd = j.cmd
         /\ [j EXCEPT !.val = v].val = v
BY Zenon DEF Job

LEMMA JobIdle == Idle \in Job /\ Idle.pc = "idle"
BY DEF Job, Idle

(* The three ways a step of connection c leaves its job.  The others are   *)
(* where they were; the value they hold may have lost elements.            *)
Moves(c) ==
  /\ job' \in [Conn -> Job]
  /\ \A d \in Conn \ {c} : /\ job'[d].pc = job[d].pc
                           /\ JobOK(job[d]) => JobOK(job'[d])

Ends(c) == Moves(c) /\ job'[c].pc = "idle"

To(c, pc) == Moves(c) /\ job'[c].pc = pc /\ job'[c].cmd = Cmd(c)

Puts(c, v) == Moves(c) /\ job'[c].pc = "put" /\ job'[c].cmd = Cmd(c) /\ job'[c].val = v

LEMMA GotoTo ==
  ASSUME KeyInv, NEW c \in Conn, NEW pc \in Steps, Goto(c, pc)
  PROVE  To(c, pc)
<1>1. job[c] \in Job
  BY DEF KeyInv
<1> DEFINE j == [job[c] EXCEPT !.pc = pc]
<1>2. j \in Job /\ j.pc = pc /\ j.cmd = job[c].cmd
  BY <1>1, JobMoves
<1>3. job' = [job EXCEPT ![c] = j]
  BY DEF Goto
<1> HIDE DEF j
<1> QED BY <1>2, <1>3 DEF KeyInv, To, Moves, Cmd

LEMMA WritePuts ==
  ASSUME KeyInv, NEW c \in Conn, NEW v \in Value, Write(c, v)
  PROVE  Puts(c, v)
<1>1. job[c] \in Job
  BY Zenon DEF KeyInv
<1> DEFINE j == [job[c] EXCEPT !.pc = "put", !.val = v]
<1>2. j \in Job /\ j.pc = "put" /\ j.cmd = job[c].cmd /\ j.val = v
  BY <1>1, JobWrites, Zenon
<1>3. job' = [job EXCEPT ![c] = j]
  BY Zenon DEF Write
<1> HIDE DEF j
<1> QED BY <1>2, <1>3 DEF KeyInv, Puts, Moves, Cmd

LEMMA RefuseTo ==
  ASSUME KeyInv, NEW c \in Conn, Refuse(c)
  PROVE  To(c, "refused")
<1>1. job[c] \in Job
  BY DEF KeyInv
<1>2. Fair(c) \in BOOLEAN
  BY DEF Fair
<1> DEFINE j == [job[c] EXCEPT !.pc = "refused", !.fair = Fair(c)]
<1>3. j \in Job /\ j.pc = "refused" /\ j.cmd = job[c].cmd
  BY <1>1, <1>2, JobRefused, Zenon
<1>4. job' = [job EXCEPT ![c] = j]
  BY Zenon DEF Refuse
<1> HIDE DEF j
<1> QED BY <1>3, <1>4 DEF KeyInv, To, Moves, Cmd

LEMMA ReturnEnds ==
  ASSUME KeyInv, NEW c \in Conn, Return(c)
  PROVE  Ends(c)
BY JobIdle DEF Return, KeyInv, Ends, Moves

(* A command has a path, and a key whose type it asserts.                  *)
LEMMA CommandPaths ==
  ASSUME NEW m \in Command
  PROVE  /\ m.path \in Path /\ KeyOf(m) \in Path
         /\ m.type \in Type \cup {"hash"}
         /\ m.op = "set" => m.type = "string"
         /\ m.op = "hset" => m.type = "hash"
         /\ m.op \notin {"hset", "hdel"} => KeyOf(m) = m.path
BY KeyspaceAssumption DEF KeyOf

(* A value is found where it is live.                                      *)
LEMMA LiveValue ==
  ASSUME KeyInv, NEW p \in Path, store[p] # Absent
  PROVE  /\ store[p] \in Value
         /\ store[p].type \in Type \cup {"mixed", "null"}
         /\ store[p].n \in 0..MaxElem
<1>1. store[p] \in Value
  BY DEF KeyInv
<1> QED BY <1>1 DEF Value

(* The values commands write.                                              *)
LEMMA Values ==
  /\ Tombstone \in Value /\ Tombstone.type = "null" /\ Tombstone.n = 0
  /\ \A t \in Type \cup {"mixed"}, n \in 1..MaxElem :
       /\ [type |-> t, n |-> n, ttl |-> FALSE] \in Value
       /\ [type |-> t, n |-> n, ttl |-> FALSE].type = t
       /\ [type |-> t, n |-> n, ttl |-> FALSE].n = n
BY KeyspaceAssumption DEF Tombstone, Value, Type

-----------------------------------------------------------------------------
(* What the accesses of a handler come to.                                 *)

OneString(v) == v \in Value /\ v.type = "string" /\ v.n = 1

LEMMA AssertedOutcome ==
  ASSUME KeyInv, NEW c \in Conn, NEW t, Asserted(c, t)
  PROVE  \/ Ends(c) \/ To(c, "refused") \/ To(c, "children")
         \/ /\ Cmd(c).op # "hdel" /\ t \in {"none", Cmd(c).type}
            /\ \/ Cmd(c).op \in {"set", "hset"} /\ \E v : OneString(v) /\ Puts(c, v)
               \/ Cmd(c).op \notin {"set", "hset"} /\ To(c, "read")
<1>1. CASE Refuse(c)
  BY <1>1, RefuseTo
<1>2. CASE /\ Proceed(c, t)
           /\ Cmd(c).op # "hdel" => t \in {"none", Cmd(c).type}
  <2>1. CASE Cmd(c).op \in {"set", "hset"}
    <3> DEFINE v == [type |-> "string", n |-> 1, ttl |-> FALSE]
    <3>1. Write(c, v)
      BY <1>2, <2>1 DEF Proceed
    <3>2. OneString(v)
      BY Values, KeyspaceAssumption DEF OneString, Type
    <3> HIDE DEF v
    <3>3. Puts(c, v)
      BY <3>1, <3>2, WritePuts DEF OneString
    <3> QED BY <1>2, <2>1, <3>2, <3>3
  <2>2. CASE Cmd(c).op = "hdel"
    <3>1. Return(c) \/ Goto(c, "children")
      BY <1>2, <2>2 DEF Proceed
    <3> QED BY <3>1, ReturnEnds, GotoTo DEF Steps
  <2>3. CASE Cmd(c).op \notin {"set", "hset", "hdel"}
    <3>1. Goto(c, "read")
      BY <1>2, <2>3 DEF Proceed
    <3> QED BY <1>2, <2>3, <3>1, GotoTo DEF Steps
  <2> QED BY <2>1, <2>2, <2>3
<1> QED BY <1>1, <1>2 DEF Asserted

Arrays(c) == Held(c).type \in Array /\ Cmd(c).type \in Array

(* The value a command writes, given the one it has read.                  *)
Fits(c, v) ==
  LET m == Cmd(c)
      p == m.path
  IN
  /\ v \in Value
  /\ m.op \in {"del", "hdel"} => v = Tombstone
  /\ m.op = "setnx" => ~Live(p) /\ v.type = "string" /\ v.n > 0
  /\ m.op \in {"expire", "persist"} => Live(p) /\ v.type = Held(c).type /\ v.n = Held(c).n
  /\ m.op = "add" =>
       /\ v.n > 0
       /\ v.type = m.type \/ (v.type = "mixed" /\ Live(p) /\ Held(c).type # m.type /\ Arrays(c))
       /\ Live(p) /\ Held(c).type # m.type => Held(c).n = 0 \/ Arrays(c)
  /\ m.op = "take" =>
       /\ Live(p)
       /\ v = Tombstone \/ (v.n > 0 /\ v.type \in {Held(c).type} \cup (IF Held(c).type = "mixed" THEN Array ELSE {}))
       /\ v.n <= Held(c).n
       /\ Held(c).type = m.type \/ Arrays(c)

Reads(c) ==
  /\ job[c].pc = "read" /\ Cmd(c) \in Command
  /\ Cmd(c).op \in {"add", "take", "setnx", "expire", "persist", "del", "hdel"}

Leaves(c) ==
  /\ store' = store
  /\ \/ Ends(c)
     \/ To(c, "refused")
     \/ Cmd(c).op = "hdel" /\ To(c, "index")
     \/ \E v : Fits(c, v) /\ Puts(c, v)

LEMMA LeftTyped ==
  ASSUME NEW c \in Conn, NEW n \in 0..MaxElem, Cmd(c).type \in Type
  PROVE  /\ Left(c, n) \in Value
         /\ IF n = 0 THEN Left(c, n) = Tombstone
            ELSE Left(c, n).type = Cmd(c).type /\ Left(c, n).n = n
<1>1. CASE n = 0
  BY <1>1, Values DEF Left
<1>2. CASE n # 0
  BY <1>2, Values, n \in 1..MaxElem, Cmd(c).type \in Type \cup {"mixed"} DEF Left
<1> QED BY <1>1, <1>2

LEMMA WriteBackPuts ==
  ASSUME KeyInv, NEW c \in Conn, NEW n \in 0..MaxElem, Cmd(c).type \in Type, WriteBack(c, n)
  PROVE  \E v \in Value : /\ Puts(c, v)
                          /\ IF n = 0 THEN v = Tombstone ELSE v.type = Cmd(c).type /\ v.n = n
BY LeftTyped, WritePuts DEF WriteBack

LEMMA WriteArrayPuts ==
  ASSUME KeyInv, NEW c \in Conn, NEW n \in 0..MaxElem,
         NEW types \in SUBSET (Type \cup {"mixed"}), WriteArray(c, types, n)
  PROVE  \E v \in Value : /\ Puts(c, v)
                          /\ IF n = 0 THEN v = Tombstone ELSE v.type \in types /\ v.n = n
<1>1. CASE n = 0
  <2>1. Write(c, Tombstone)
    BY <1>1 DEF WriteArray
  <2> QED BY <1>1, <2>1, Values, WritePuts
<1>2. CASE n # 0
  <2>1. PICK t \in types : Write(c, [type |-> t, n |-> n, ttl |-> FALSE])
    BY <1>2 DEF WriteArray
  <2> DEFINE v == [type |-> t, n |-> n, ttl |-> FALSE]
  <2>2. v \in Value /\ v.type = t /\ v.n = n
    BY <1>2, Values, n \in 1..MaxElem
  <2>3. Write(c, v)
    BY <2>1
  <2> HIDE DEF v
  <2> QED BY <1>2, <2>2, <2>3, WritePuts
<1> QED BY <1>1, <1>2

(* SREM and ZREM change the record in the store as they read it, wherever  *)
(* it is held.                                                             *)
Thins(v, u) ==
  /\ v # Absent /\ v.type # "null" /\ u \in Value
  /\ u.n <= v.n
  /\ IF u.n = 0 THEN u.type = "set" ELSE u.type = v.type

Shrinks(c) ==
  /\ Cmd(c).op = "take"
  /\ store' \in [Path -> Value \cup {Absent}]
  /\ \A p \in Path : store'[p] = store[p] \/ Thins(store[p], store'[p])
  /\ \E v : Fits(c, v) /\ Puts(c, v)

LEMMA ThinnedTyped ==
  ASSUME NEW v \in Value, NEW n \in 0..MaxElem
  PROVE  /\ Thinned(v, n) \in Value /\ Thinned(v, n).n = n
         /\ IF n = 0 THEN Thinned(v, n).type = "set" ELSE Thinned(v, n).type = v.type
BY Zenon DEF Thinned, Value, Type

(* What it does to the paths, and to the handlers.                         *)
LEMMA ShrinkThins ==
  ASSUME KeyInv, NEW c \in Conn, NEW n \in 0..MaxElem, Cmd(c).path \in Path,
         Live(Cmd(c).path), n <= Held(c).n, Shrink(c, n)
  PROVE  /\ store' \in [Path -> Value \cup {Absent}]
         /\ \A p \in Path : store'[p] = store[p] \/ Thins(store[p], store'[p])
<1> DEFINE h == Held(c)
<1>1. PICK P \in SUBSET {p \in Path : MayShare(store[p], h)} :
        store' = [p \in Path |-> IF p \in P \cup {Cmd(c).path} THEN Thinned(store[p], n) ELSE store[p]]
  BY Zenon DEF Shrink
<1>2. h # Absent /\ h.type # "null"
  BY DEF Live, Resident, Held
<1>3. ASSUME NEW p \in P \cup {Cmd(c).path}
      PROVE  Thinned(store[p], n) \in Value /\ Thins(store[p], Thinned(store[p], n))
  <2>1. p \in Path /\ store[p] # Absent /\ store[p].type = h.type /\ store[p].n = h.n
    BY <1>1, <1>2, <1>3 DEF MayShare, Held
  <2>2. store[p] \in Value
    BY <2>1 DEF KeyInv
  <2>3. PICK u : u = Thinned(store[p], n)
    BY Zenon
  <2>4. u \in Value /\ u.n = n /\ IF n = 0 THEN u.type = "set" ELSE u.type = store[p].type
    BY <2>2, <2>3, ThinnedTyped, Zenon
  <2> QED BY <1>2, <2>1, <2>3, <2>4 DEF Thins
<1>4. ASSUME NEW p \in Path
      PROVE  /\ store'[p] \in Value \cup {Absent}
             /\ store'[p] = store[p] \/ Thins(store[p], store'[p])
  BY <1>1, <1>3, Zenon DEF KeyInv
<1> QED BY <1>1, <1>4, Zenon

LEMMA ShrinkPuts ==
  ASSUME KeyInv, NEW c \in Conn, NEW n \in 0..MaxElem, Cmd(c).type \in Type, Shrink(c, n)
  PROVE  Puts(c, Left(c, n))
<1> DEFINE h == Held(c)
           j == [job[c] EXCEPT !.pc = "put", !.val = Left(c, n)]
<1>1. PICK D \in SUBSET {d \in Conn \ {c} : MayShare(job[d].val, h)} :
        job' = [d \in Conn |-> IF d \in D THEN [job[d] EXCEPT !.val = Thinned(@, n)]
                              ELSE IF d = c THEN j ELSE job[d]]
  BY Zenon DEF Shrink
<1>2. \A d \in Conn : job[d] \in Job /\ JobOK(job[d])
  BY Zenon DEF KeyInv
<1>3. j \in Job /\ j.pc = "put" /\ j.cmd = job[c].cmd /\ j.val = Left(c, n)
  <2>1. PICK v \in Value : v = Left(c, n)
    BY LeftTyped, Zenon
  <2> QED BY <1>2, <2>1, JobWrites, Zenon
<1> HIDE DEF j
<1>4. ASSUME NEW d \in D
      PROVE  LET i == [job[d] EXCEPT !.val = Thinned(@, n)]
             IN  i \in Job /\ i.pc = job[d].pc /\ JobOK(i)
  <2>1. job[d] \in Job /\ job[d].val \in Value /\ JobOK(job[d])
    BY <1>1, <1>2, <1>4 DEF MayShare, Job
  <2>2. PICK v \in Value : v = Thinned(job[d].val, n)
    BY <2>1, ThinnedTyped, Zenon
  <2> DEFINE i == [job[d] EXCEPT !.val = v]
  <2>3. i \in Job /\ i.pc = job[d].pc /\ i.cmd = job[d].cmd /\ i.val = v
    BY <2>1, JobThins, Zenon
  <2>4. [job[d] EXCEPT !.val = Thinned(@, n)] = i
    BY <2>2, Zenon
  <2> HIDE DEF i
  <2> QED BY <2>1, <2>3, <2>4, Zenon DEF JobOK
<1>5. ASSUME NEW d \in Conn
      PROVE  /\ job'[d] \in Job
             /\ d # c => /\ job'[d].pc = job[d].pc
                         /\ JobOK(job[d]) => JobOK(job'[d])
  BY <1>1, <1>2, <1>3, <1>4, Zenon
<1>6. job'[c] = j
  BY <1>1, Zenon
<1>7. job' \in [Conn -> Job]
  BY <1>1, <1>5, Zenon
<1> QED BY <1>3, <1>5, <1>6, <1>7, Zenon DEF Puts, Moves, Cmd

LEMMA StopLeaves ==
  ASSUME KeyInv, NEW c \in Conn, store' = store, Refuse(c) \/ Return(c)
  PROVE  Leaves(c)
<1>1. Ends(c) \/ To(c, "refused")
  BY RefuseTo, ReturnEnds
<1> QED BY <1>1 DEF Leaves

LEMMA SizeTyped ==
  ASSUME KeyInv, NEW c \in Conn, Cmd(c) \in Command
  PROVE  /\ Size(c) \in 0..MaxElem
         /\ Live(Cmd(c).path) => /\ Held(c) \in Value /\ Size(c) = Held(c).n
                                 /\ Held(c).type \in Type \cup {"mixed"}
BY CommandPaths, LiveValue, KeyspaceAssumption DEF Size, Live, Resident, Held

LEMMA AddLeaves ==
  ASSUME KeyInv, NEW c \in Conn, Reads(c),
         \/ ReadString(c) \/ ReadToPush(c) \/ ReadToXadd(c) \/ ReadToSadd(c) \/ ReadToZadd(c)
  PROVE  Leaves(c)
<1> USE DEF Handles
<1>1. Cmd(c).op = "add" /\ Cmd(c).type \in Type /\ store' = store
  BY DEF ReadString, ReadToPush, ReadToXadd, ReadToSadd, ReadToZadd, Type
<1>2. Cmd(c) \in Command /\ MaxElem \in Nat \ {0}
  BY KeyspaceAssumption DEF Reads
<1>3. CASE Refuse(c) \/ Return(c)
  BY <1>1, <1>3, StopLeaves
<1>4. ASSUME NEW n \in 1..MaxElem, WriteBack(c, n),
             Clashes(c) => Held(c).n = 0
      PROVE  Leaves(c)
  <2>1. PICK v \in Value : Puts(c, v) /\ v.type = Cmd(c).type /\ v.n = n
    BY <1>1, <1>2, <1>4, WriteBackPuts
  <2>2. Fits(c, v)
    BY <1>1, <1>4, <2>1 DEF Fits, Clashes, Arrays
  <2> QED BY <1>1, <2>1, <2>2 DEF Leaves
<1>5. ASSUME NEW n \in 1..MaxElem, WriteArray(c, Joined(c), n), ~Clashes(c)
      PROVE  Leaves(c)
  <2>1. Joined(c) \in SUBSET (Type \cup {"mixed"})
    BY <1>1 DEF Joined
  <2>2. PICK v \in Value : Puts(c, v) /\ v.type \in Joined(c) /\ v.n = n
    BY <1>2, <1>5, <2>1, WriteArrayPuts
  <2>3. Fits(c, v)
    BY <1>1, <1>5, <2>2 DEF Fits, Clashes, Arrays, Joined
  <2> QED BY <1>1, <2>2, <2>3 DEF Leaves
<1>6. Size(c) \in 0..MaxElem
  BY <1>2, SizeTyped
<1>7. CASE ReadString(c)
  BY <1>2, <1>3, <1>4, <1>7 DEF ReadString
<1>8. CASE ReadToPush(c)
  BY <1>3, <1>5, <1>8 DEF ReadToPush
<1>9. CASE ReadToXadd(c)
  <2> DEFINE n == IF Size(c) = MaxElem THEN MaxElem ELSE Size(c) + 1
  <2>1. n \in 1..MaxElem
    BY <1>2, <1>6
  <2> QED BY <1>3, <1>5, <1>9, <2>1 DEF ReadToXadd
<1>10. CASE ReadToSadd(c)
  BY <1>3, <1>4, <1>10 DEF ReadToSadd
<1>11. CASE ReadToZadd(c)
  BY <1>3, <1>4, <1>11 DEF ReadToZadd
<1> QED BY <1>7, <1>8, <1>9, <1>10, <1>11

LEMMA PopLeaves ==
  ASSUME KeyInv, NEW c \in Conn, Reads(c), ReadToPop(c)
  PROVE  Leaves(c)
<1>1. Cmd(c).op = "take" /\ Cmd(c).type = "list" /\ store' = store
  BY DEF ReadToPop, Handles
<1>2. CASE Refuse(c) \/ Return(c)
  BY <1>1, <1>2, StopLeaves
<1>3. CASE Live(Cmd(c).path) /\ ~Clashes(c)
  <2> DEFINE types == IF Held(c).type = "mixed" THEN Array ELSE {Held(c).type}
  <2>1. /\ Size(c) \in 0..MaxElem /\ MaxElem \in Nat
        /\ types \in SUBSET (Type \cup {"mixed"})
    BY <1>3, SizeTyped, KeyspaceAssumption DEF Reads, Array, Type
  <2>2. PICK n \in 0..(Size(c) - 1) : WriteArray(c, types, n)
    BY <1>3 DEF ReadToPop
  <2>3. n \in 0..MaxElem
    BY <2>1, <2>2
  <2>4. PICK v \in Value : /\ Puts(c, v)
                           /\ IF n = 0 THEN v = Tombstone ELSE v.type \in types /\ v.n = n
    BY <2>1, <2>2, <2>3, WriteArrayPuts
  <2>5. Fits(c, v)
    BY <1>1, <1>3, <2>1, <2>2, <2>3, <2>4, SizeTyped, Values DEF Reads, Fits, Clashes, Arrays
  <2> QED BY <1>1, <2>4, <2>5 DEF Leaves
<1> QED BY <1>2, <1>3 DEF ReadToPop

LEMMA RemoveOutcome ==
  ASSUME KeyInv, NEW c \in Conn, Reads(c), ReadToSrem(c) \/ ReadToZrem(c)
  PROVE  Leaves(c) \/ Shrinks(c)
<1>1. Cmd(c).op = "take" /\ Cmd(c).type \in {"set", "zset"} /\ RemoveFrom(c)
  BY DEF ReadToSrem, ReadToZrem, Handles
<1>2. CASE (Refuse(c) \/ Return(c)) /\ UNCHANGED store
  BY <1>1, <1>2, StopLeaves
<1>3. ASSUME Live(Cmd(c).path), ~Clashes(c),
             NEW n \in 0..Size(c), Shrink(c, n)
      PROVE  Shrinks(c)
  <2>1. /\ Size(c) \in 0..MaxElem /\ MaxElem \in Nat /\ Held(c) \in Value
        /\ Held(c).type = Cmd(c).type /\ Size(c) = Held(c).n
    BY <1>1, <1>3, SizeTyped, KeyspaceAssumption DEF Reads, Clashes, Array
  <2>2. n \in 0..MaxElem /\ n <= Held(c).n /\ Cmd(c).type \in Type /\ Cmd(c).path \in Path
    BY <1>1, <1>3, <2>1, CommandPaths DEF Type, Reads
  <2>3. PICK v \in Value : /\ Puts(c, v)
                           /\ IF n = 0 THEN v = Tombstone ELSE v.type = Cmd(c).type /\ v.n = n
    BY <1>3, <2>2, LeftTyped, ShrinkPuts
  <2>4. Fits(c, v)
    BY <1>1, <1>3, <2>1, <2>2, <2>3, Values DEF Fits
  <2>5. /\ store' \in [Path -> Value \cup {Absent}]
        /\ \A p \in Path : store'[p] = store[p] \/ Thins(store[p], store'[p])
    BY <1>3, <2>2, ShrinkThins, Zenon
  <2> QED BY <1>1, <2>3, <2>4, <2>5, Zenon DEF Shrinks
<1> QED BY <1>1, <1>2, <1>3 DEF RemoveFrom

LEMMA OtherReads ==
  ASSUME KeyInv, NEW c \in Conn, Reads(c),
         \/ ReadToSetnx(c) \/ ReadToExpire(c) \/ ReadToPersist(c)
         \/ ReadToDel(c) \/ ReadToHdel(c)
  PROVE  Leaves(c)
<1>1. store' = store
  BY DEF ReadToSetnx, ReadToExpire, ReadToPersist, ReadToDel, ReadToHdel
<1>2. CASE Return(c)
  BY <1>1, <1>2, StopLeaves
<1>3. ASSUME NEW v \in Value, Write(c, v), Fits(c, v)
      PROVE  Leaves(c)
  <2>1. Puts(c, v)
    BY <1>3, WritePuts
  <2> QED BY <1>1, <1>3, <2>1 DEF Leaves
<1>4. CASE ReadToSetnx(c)
  <2>1. CASE Live(Cmd(c).path)
    BY <1>2, <1>4, <2>1 DEF ReadToSetnx
  <2>2. CASE ~Live(Cmd(c).path)
    <3> DEFINE v == [type |-> "string", n |-> 1, ttl |-> FALSE]
    <3>1. v \in Value /\ v.type = "string" /\ v.n = 1
      BY Values, KeyspaceAssumption DEF Type
    <3>2. Write(c, v)
      BY <1>4, <2>2, Zenon DEF ReadToSetnx
    <3> HIDE DEF v
    <3>3. Fits(c, v)
      BY <1>4, <2>2, <3>1 DEF ReadToSetnx, Fits
    <3> QED BY <1>3, <3>1, <3>2, <3>3
  <2> QED BY <2>1, <2>2
<1>5. ASSUME NEW l \in BOOLEAN, Live(Cmd(c).path), Cmd(c).op \in {"expire", "persist"},
             Write(c, [Held(c) EXCEPT !.ttl = l])
      PROVE  Leaves(c)
  <2>1. Held(c) \in Value
    BY <1>5, SizeTyped DEF Reads
  <2> DEFINE v == [Held(c) EXCEPT !.ttl = l]
  <2>2. v \in Value /\ v.type = Held(c).type /\ v.n = Held(c).n
    BY <2>1 DEF Value
  <2>3. Write(c, v)
    BY <1>5
  <2> HIDE DEF v
  <2>4. Fits(c, v)
    BY <1>5, <2>2 DEF Fits
  <2> QED BY <1>3, <2>2, <2>3, <2>4
<1>6. CASE ReadToExpire(c)
  BY <1>2, <1>5, <1>6, Zenon DEF ReadToExpire
<1>7. CASE ReadToPersist(c)
  BY <1>2, <1>5, <1>7, Zenon DEF ReadToPersist
<1>8. ASSUME Cmd(c).op \in {"del", "hdel"}, Write(c, Tombstone)
      PROVE  Leaves(c)
  <2>1. Fits(c, Tombstone)
    BY <1>8, Values DEF Fits
  <2> QED BY <1>3, <1>8, <2>1, Values
<1>9. CASE ReadToDel(c)
  BY <1>2, <1>8, <1>9 DEF ReadToDel
<1>10. CASE ReadToHdel(c)
  <2>1. CASE Goto(c, "index")
    <3>1. To(c, "index")
      BY <2>1, GotoTo, Zenon DEF Steps
    <3> QED BY <1>1, <1>10, <3>1 DEF ReadToHdel, Leaves
  <2> QED BY <1>8, <1>10, <2>1 DEF ReadToHdel
<1> QED BY <1>4, <1>6, <1>7, <1>9, <1>10

LEMMA ReadOutcome ==
  ASSUME KeyInv, NEW c \in Conn, Read(c)
  PROVE  Reads(c) /\ (Leaves(c) \/ Shrinks(c))
<1>1. Cmd(c) \in Command
  BY DEF Read, KeyInv, JobOK, Cmd
<1>2. Reads(c)
  BY <1>1 DEF Read, Reads, Handles, ReadString, ReadToPush, ReadToXadd, ReadToPop, ReadToSadd,
     ReadToSrem, ReadToZadd, ReadToZrem, ReadToSetnx, ReadToExpire, ReadToPersist, ReadToDel,
     ReadToHdel
<1> QED BY <1>2, AddLeaves, PopLeaves, RemoveOutcome, OtherReads DEF Read

(* What follows an append, done or failed.                                 *)
LEMMA AfterPutOutcome ==
  ASSUME KeyInv, NEW c \in Conn, AfterPut(c)
  PROVE  \/ Cmd(c).op \in {"set", "add", "setnx", "setex", "hset"} /\ To(c, "tag")
         \/ To(c, "untag") \/ To(c, "index") \/ Ends(c)
<1>1. \/ Cmd(c).op \in {"set", "add", "setnx", "setex", "hset"} /\ Goto(c, "tag")
      \/ Goto(c, "untag") \/ Goto(c, "index") \/ Return(c)
  BY DEF AfterPut
<1> QED BY <1>1, GotoTo, ReturnEnds DEF Steps

-----------------------------------------------------------------------------
(* The types hold after every step.                                        *)

Advances(c) ==
  \/ Ends(c)
  \/ \E pc \in Steps \ {"put"} : To(c, pc)
  \/ \E v \in Value : Puts(c, v)

LEMMA KeyInvKept ==
  ASSUME KeyInv, NEW c \in Conn, Cmd(c) \in Command, Advances(c),
         store' \in [Path -> Value \cup {Absent}],
         keyTypes' \in [Path -> Type \cup {"hash", "none"}],
         faults' \in 0..MaxFaults
  PROVE  KeyInv'
<1>1. Moves(c) /\ JobOK(job'[c])
  BY DEF Advances, Ends, To, Puts, Moves, JobOK
<1>2. \A d \in Conn : JobOK(job'[d])
  BY <1>1, Zenon DEF Moves, KeyInv
<1> QED BY <1>1, <1>2 DEF KeyInv, Moves

LEMMA AssertedAdvances ==
  ASSUME KeyInv, NEW c \in Conn, NEW t, Asserted(c, t)
  PROVE  Advances(c)
<1>1. \/ Ends(c) \/ To(c, "refused") \/ To(c, "children") \/ To(c, "read")
      \/ \E v : OneString(v) /\ Puts(c, v)
  BY AssertedOutcome, Zenon
<1> QED BY <1>1 DEF Advances, Steps, OneString

LEMMA GotoAdvances ==
  ASSUME KeyInv, NEW c \in Conn, NEW pc \in Steps \ {"put"}, Goto(c, pc)
  PROVE  Advances(c)
BY GotoTo DEF Advances

LEMMA TypeIndexed ==
  ASSUME KeyInv, NEW p \in Path, Live(p), NEW t \in Shapes(store[p])
  PROVE  t \in Type
BY LiveValue DEF Live, Resident, Shapes, Type

LEMMA IndexStepKeepsTypes ==
  ASSUME KeyInv, NEW c \in Conn, LoadIndex(c) \/ Infer(c) \/ Scan(c)
  PROVE  KeyInv'
<1>1. Cmd(c) \in Command
  BY DEF LoadIndex, Infer, Scan, KeyInv, JobOK, Cmd
<1> DEFINE k == KeyOf(Cmd(c))
<1>2. k \in Path
  BY <1>1, CommandPaths, Zenon
<1>3. /\ store' \in [Path -> Value \cup {Absent}]
      /\ faults' \in 0..MaxFaults
  BY DEF LoadIndex, Infer, Scan, KeyInv
<1>4. Advances(c) /\ keyTypes' \in [Path -> Type \cup {"hash", "none"}]
  <2>1. CASE LoadIndex(c)
    BY <2>1, AssertedAdvances, GotoAdvances DEF LoadIndex, KeyInv, Steps
  <2>2. CASE Infer(c) /\ Live(k)
    <3>1. PICK t \in Shapes(store[k]) : /\ keyTypes' = [keyTypes EXCEPT ![k] = t]
                                        /\ Asserted(c, t)
      BY <2>2 DEF Infer
    <3>2. t \in Type
      BY <1>2, <2>2, <3>1, TypeIndexed, Zenon
    <3> QED BY <1>2, <3>1, <3>2, AssertedAdvances, Zenon DEF KeyInv
  <2>3. CASE Infer(c) /\ ~Live(k)
    BY <2>3, GotoAdvances, Zenon DEF Infer, KeyInv, Steps
  <2>4. CASE Scan(c)
    <3> DEFINE t == IF \E p \in Below(k) : Resident(p) THEN "hash" ELSE "none"
    <3>1. /\ keyTypes' = [keyTypes EXCEPT ![k] = IF t = "hash" THEN "hash" ELSE @]
          /\ Asserted(c, t)
      BY <2>4, Zenon DEF Scan
    <3> HIDE DEF t
    <3> QED BY <1>2, <3>1, AssertedAdvances, Zenon DEF KeyInv
  <2> QED BY <2>1, <2>2, <2>3, <2>4, Zenon
<1> QED BY <1>1, <1>3, <1>4, KeyInvKept, Zenon

LEMMA ReadKeepsTypes ==
  ASSUME KeyInv, NEW c \in Conn, Read(c)
  PROVE  KeyInv'
<1>1. Reads(c) /\ (Leaves(c) \/ Shrinks(c))
  BY ReadOutcome, Zenon
<1>2. Advances(c)
  BY <1>1, Zenon DEF Leaves, Shrinks, Advances, Steps, Fits
<1>3. store' \in [Path -> Value \cup {Absent}]
  BY <1>1, CommandPaths, Zenon DEF Leaves, Shrinks, Reads, KeyInv
<1> QED BY <1>1, <1>2, <1>3, KeyInvKept DEF Read, Reads, KeyInv

LEMMA PutKeepsTypes ==
  ASSUME KeyInv, NEW c \in Conn, Put(c) \/ PutFails(c)
  PROVE  KeyInv'
<1>1. Cmd(c) \in Command /\ job[c].val \in Value
  BY DEF Put, PutFails, KeyInv, JobOK, Cmd
<1>2. AfterPut(c) \/ Return(c)
  BY DEF Put, PutFails
<1>3. Advances(c)
  <2>1. To(c, "tag") \/ To(c, "untag") \/ To(c, "index") \/ Ends(c)
    BY <1>2, AfterPutOutcome, ReturnEnds, Zenon
  <2> QED BY <2>1 DEF Advances, Steps
<1>4. /\ store' \in [Path -> Value \cup {Absent}]
      /\ keyTypes' \in [Path -> Type \cup {"hash", "none"}]
  BY <1>1, CommandPaths, Zenon DEF Put, PutFails, KeyInv
<1>5. faults' \in 0..MaxFaults
  BY KeyspaceAssumption DEF Put, PutFails, KeyInv
<1> QED BY <1>1, <1>3, <1>4, <1>5, KeyInvKept, Zenon

LEMMA FlushTo ==
  ASSUME KeyInv, NEW c \in Conn, FlushPath(c)
  PROVE  To(c, "flush")
<1>1. PICK p : job' = [job EXCEPT ![c].rest = @ \ {p}]
  BY Zenon DEF FlushPath
<1>2. job[c] \in Job /\ job[c].pc = "flush"
  BY DEF FlushPath, KeyInv
<1> DEFINE j == [job[c] EXCEPT !.rest = @ \ {p}]
<1>3. j \in Job /\ j.pc = "flush" /\ j.cmd = job[c].cmd
  BY <1>2 DEF Job
<1>4. job' = [job EXCEPT ![c] = j]
  BY <1>1
<1> HIDE DEF j
<1> QED BY <1>3, <1>4 DEF KeyInv, To, Moves, Cmd

LEMMA OtherStepKeepsTypes ==
  ASSUME KeyInv, NEW c \in Conn,
         \/ Tag(c) \/ Untag(c) \/ HdelChildren(c)
         \/ FlushPath(c) \/ FlushIndex(c) \/ Refused(c)
  PROVE  KeyInv'
<1>1. Cmd(c) \in Command
  BY DEF Tag, Untag, HdelChildren, FlushPath, FlushIndex, Refused, KeyInv, JobOK, Cmd
<1>2. KeyOf(Cmd(c)) \in Path /\ Cmd(c).type \in Type \cup {"hash"}
  BY <1>1, CommandPaths
<1>3. Advances(c)
  <2>1. CASE Return(c)
    BY <2>1, ReturnEnds DEF Advances
  <2>2. CASE Goto(c, "untag")
    BY <2>2, GotoAdvances DEF Steps
  <2>3. CASE FlushPath(c)
    BY <2>3, FlushTo DEF Advances, Steps
  <2> QED BY <2>1, <2>2, <2>3 DEF Tag, Untag, HdelChildren, FlushIndex, Refused
<1>4. keyTypes' \in [Path -> Type \cup {"hash", "none"}]
  BY <1>2 DEF Tag, Untag, HdelChildren, FlushPath, FlushIndex, Refused, KeyInv, Type
<1>5. /\ store' \in [Path -> Value \cup {Absent}]
      /\ faults' \in 0..MaxFaults
  BY Values, KeyspaceAssumption DEF Tag, Untag, HdelChildren, FlushPath, FlushIndex, Refused, KeyInv
<1> QED BY <1>1, <1>3, <1>4, <1>5, KeyInvKept

(* A handler is entered.                                                   *)
LEMMA BeginTo ==
  ASSUME KeyInv, NEW c \in Conn, NEW m \in Command, Begin(c, m)
  PROVE  /\ Moves(c) /\ JobOK(job'[c])
         /\ job'[c].pc = Start(m) /\ job'[c].cmd = m
         /\ m.op = "setex" => OneString(job'[c].val) /\ job'[c].val.ttl
<1> DEFINE v == IF m.op = "setex" THEN [type |-> "string", n |-> 1, ttl |-> TRUE] ELSE Absent
           R == IF m.op = "flush" THEN {p \in Path : Resident(p)} ELSE {}
           j == [Idle EXCEPT !.pc = Start(m), !.cmd = m, !.val = v, !.rest = R]
<1>1. Start(m) \in Steps /\ (Start(m) = "put" => m.op = "setex")
  BY KeyspaceAssumption DEF Start, Steps
<1>2. /\ v \in Value \cup {Absent}
      /\ m.op = "setex" => OneString(v) /\ v.ttl
  BY KeyspaceAssumption DEF Value, OneString, Type
<1>3. R \in SUBSET Path
  OBVIOUS
<1>4. job' = [job EXCEPT ![c] = j]
  BY DEF Begin
<1> HIDE DEF v, R
<1>5. j \in Job /\ j.pc = Start(m) /\ j.cmd = m /\ j.val = v
  BY <1>1, <1>2, <1>3, Zenon DEF Job, Idle, Steps
<1> HIDE DEF j
<1>6. job'[c] = j /\ Moves(c)
  BY <1>4, <1>5 DEF Moves, KeyInv
<1> QED BY <1>1, <1>2, <1>5, <1>6 DEF JobOK, OneString

LEMMA BeginKeepsTypes ==
  ASSUME KeyInv, NEW c \in Conn, NEW m \in Command, Begin(c, m),
         UNCHANGED <<store, keyTypes, faults>>
  PROVE  KeyInv'
<1>1. Moves(c) /\ JobOK(job'[c])
  BY BeginTo
<1>2. \A d \in Conn : JobOK(job'[d])
  BY <1>1, Zenon DEF Moves, KeyInv
<1> QED BY <1>1, <1>2 DEF KeyInv, Moves

(* A connection runs commands only while it is open.                       *)
ServerInv ==
  /\ KeyInv
  /\ \A c \in Conn : job[c].pc # "idle" => phase[c] = "open"
  /\ inMulti \in [Conn -> BOOLEAN]
  /\ queue \in [Conn -> Seq(Command)] /\ \A c \in Conn : Len(queue[c]) <= MaxQueue
  /\ todo \in [Conn -> Seq(Command)] /\ \A c \in Conn : Len(todo[c]) <= MaxQueue
  /\ closing \in {"no", "waiting", "done"}

LEMMA ServerInitially == Init => ServerInv
<1> SUFFICES ASSUME Init PROVE ServerInv
  OBVIOUS
<1>1. KeyInv
  BY JobIdle, KeyspaceAssumption DEF Init, KeyInit, KeyInv, JobOK
<1> QED BY <1>1, JobIdle, ServerAssumption DEF Init, KeyInit, ServerInv

LEMMA ConnStepKeepsTypes ==
  ASSUME ServerInv, LimitInv, NEW c \in Conn,
         Accept(c) \/ Admit(c) \/ Count(c) \/ Spawn(c) \/ HangUp(c) \/ Leave(c)
         \/ Multi(c) \/ Discard(c) \/ Exec(c)
  PROVE  ServerInv'
<1>1. KeyInv'
  BY Zenon DEF ServerInv, KeyInv, keyVars, Accept, Admit, Count, Spawn, HangUp, Leave, Move, Multi, Discard, Exec
<1>2. \A d \in Conn : job'[d].pc # "idle" => phase'[d] = "open"
  BY DEF ServerInv, LimitInv, keyVars, Accept, Admit, Count, Spawn, HangUp, Leave, Move, Multi, Discard, Exec, Waiting
<1>3. /\ inMulti' \in [Conn -> BOOLEAN]
      /\ closing' \in {"no", "waiting", "done"}
  BY Zenon DEF ServerInv, Accept, Admit, Count, Spawn, HangUp, Leave, Move, Multi, Discard, Exec
<1>4. /\ queue' \in [Conn -> Seq(Command)] /\ \A d \in Conn : Len(queue'[d]) <= MaxQueue
      /\ todo' \in [Conn -> Seq(Command)] /\ \A d \in Conn : Len(todo'[d]) <= MaxQueue
  <2>1. <<>> \in Seq(Command) /\ Len(<<>>) <= MaxQueue
    BY ServerAssumption
  <2>2. CASE UNCHANGED <<queue, todo>>
    BY <2>2 DEF ServerInv
  <2>3. CASE queue' = [queue EXCEPT ![c] = <<>>] /\ UNCHANGED todo
    BY <2>1, <2>3 DEF ServerInv
  <2>4. CASE Exec(c)
    BY <2>1, <2>4, Zenon DEF ServerInv, Exec
  <2> QED BY <2>2, <2>3, <2>4 DEF Accept, Admit, Count, Spawn, HangUp, Leave, Move, Multi, Discard
<1> QED BY <1>1, <1>2, <1>3, <1>4, Zenon DEF ServerInv

LEMMA QueueKeepsTypes ==
  ASSUME ServerInv, NEW c \in Conn, NEW m \in Queueable, Queue(c, m)
  PROVE  ServerInv'
<1>1. KeyInv'
  BY DEF ServerInv, KeyInv, keyVars, Queue
<1>2. m \in Command /\ MaxQueue \in Nat
  BY ServerAssumption, Zenon
<1>3. queue[c] \in Seq(Command) /\ Len(queue[c]) < MaxQueue
  BY DEF ServerInv, Queue
<1>4. Append(queue[c], m) \in Seq(Command) /\ Len(Append(queue[c], m)) <= MaxQueue
  BY <1>2, <1>3
<1>5. queue' \in [Conn -> Seq(Command)] /\ \A d \in Conn : Len(queue'[d]) <= MaxQueue
  BY <1>4, Zenon DEF ServerInv, Queue
<1> QED BY <1>1, <1>5 DEF ServerInv, Queue, keyVars

(* A step of a command changes the job of its own connection only.         *)
LEMMA StepMoves ==
  ASSUME KeyInv, NEW c \in Conn, CommandStep(c)
  PROVE  Moves(c)
<1>1. ASSUME Advances(c) PROVE Moves(c)
  BY <1>1, Zenon DEF Advances, Ends, To, Puts
<1>2. CASE LoadIndex(c) \/ Infer(c) \/ Scan(c)
  BY <1>1, <1>2, AssertedAdvances, GotoAdvances, Zenon DEF LoadIndex, Infer, Scan, Steps
<1>3. CASE Read(c)
  BY <1>3, ReadOutcome, Zenon DEF Leaves, Shrinks, Ends, To, Puts
<1>4. CASE Put(c) \/ PutFails(c)
  BY <1>4, AfterPutOutcome, ReturnEnds, Zenon DEF Put, PutFails, Ends, To
<1>5. CASE Return(c)
  BY <1>5, ReturnEnds, Zenon DEF Ends
<1>6. CASE HdelChildren(c)
  BY <1>1, <1>5, <1>6, GotoAdvances, Zenon DEF HdelChildren, Steps
<1>7. CASE FlushPath(c)
  BY <1>7, FlushTo, Zenon DEF To
<1> QED BY <1>2, <1>3, <1>4, <1>5, <1>6, <1>7, Zenon DEF CommandStep, Tag, Untag, FlushIndex, Refused

(* A step of a command, the expiry of a path, the start of a command.      *)
LEMMA KeyStepKeepsTypes ==
  ASSUME ServerInv, NEW c \in Conn, Keys(c)
  PROVE  ServerInv'
<1>1. KeyInv
  BY Zenon DEF ServerInv
<1>2. KeyInv'
  BY <1>1, IndexStepKeepsTypes, ReadKeepsTypes, PutKeepsTypes, OtherStepKeepsTypes, Zenon
     DEF Keys, CommandStep
<1>3. job[c].pc # "idle"
  BY DEF Keys, CommandStep, LoadIndex, Infer, Scan, Read, Put, PutFails, Tag, Untag, HdelChildren,
     FlushPath, FlushIndex, Refused
<1>4. \A d \in Conn \ {c} : job'[d].pc = job[d].pc
  BY <1>1, StepMoves, Zenon DEF Keys, Moves
<1> QED BY <1>2, <1>3, <1>4, Zenon DEF ServerInv, Keys, connVars

LEMMA BeginKeepsServer ==
  ASSUME ServerInv, NEW c \in Conn, NEW m \in Command, Begin(c, m), phase[c] = "open",
         UNCHANGED <<store, keyTypes, faults, phase, inMulti, queue, closing>>,
         \/ UNCHANGED todo
         \/ todo[c] # <<>> /\ todo' = [todo EXCEPT ![c] = Tail(@)]
  PROVE  ServerInv'
<1>1. KeyInv
  BY Zenon DEF ServerInv
<1>2. KeyInv' /\ Moves(c)
  BY <1>1, BeginKeepsTypes, BeginTo, Zenon
<1>3. \A d \in Conn : job'[d].pc # "idle" => phase'[d] = "open"
  BY <1>2, Zenon DEF ServerInv, Moves
<1>4. todo' \in [Conn -> Seq(Command)] /\ \A d \in Conn : Len(todo'[d]) <= MaxQueue
  <2>1. CASE UNCHANGED todo
    BY <2>1 DEF ServerInv
  <2>2. CASE todo[c] # <<>> /\ todo' = [todo EXCEPT ![c] = Tail(@)]
    <3>1. todo[c] \in Seq(Command) /\ todo[c] # <<>> /\ Len(todo[c]) <= MaxQueue
      BY <2>2 DEF ServerInv
    <3>2. /\ Tail(todo[c]) \in Seq(Command) /\ Len(Tail(todo[c])) <= MaxQueue
      BY <3>1, ServerAssumption
    <3> QED BY <2>2, <3>2 DEF ServerInv
  <2> QED BY <2>1, <2>2
<1> QED BY <1>2, <1>3, <1>4, Zenon DEF ServerInv

(* What the database sends is a string, with or without a deadline, or a   *)
(* tombstone.                                                              *)
LEMMA RefreshTyped ==
  ASSUME KeyInv, NEW p \in Fed, Refresh(p)
  PROVE  /\ p \in Path
         /\ store' \in [Path -> Value \cup {Absent}]
         /\ \A q \in Path : \/ store'[q] = store[q]
                            \/ q = p /\ store'[q] = Tombstone
                            \/ q = p /\ (store'[q].type = "string" /\ store'[q].n = 1)
<1>1. p \in Path
  BY KeyspaceAssumption
<1>2. ASSUME NEW ttl \in BOOLEAN
      PROVE  LET v == [type |-> "string", n |-> 1, ttl |-> ttl]
             IN  v \in Value /\ v.type = "string" /\ v.n = 1
  BY KeyspaceAssumption DEF Value, Type
<1>3. (Live(p) /\ store[p].ttl) \in BOOLEAN
  BY Zenon DEF KeyInv, Live, Resident, Value
<1>4. \/ store' = [store EXCEPT ![p] = Tombstone]
      \/ \E ttl \in BOOLEAN :
           store' = [store EXCEPT ![p] = [type |-> "string", n |-> 1, ttl |-> ttl]]
  BY <1>3, Zenon DEF Refresh
<1>5. PICK v \in Value : /\ store' = [store EXCEPT ![p] = v]
                         /\ v = Tombstone \/ (v.type = "string" /\ v.n = 1)
  <2>1. CASE store' = [store EXCEPT ![p] = Tombstone]
    BY <2>1, Values, Zenon
  <2>2. ASSUME NEW ttl \in BOOLEAN,
               store' = [store EXCEPT ![p] = [type |-> "string", n |-> 1, ttl |-> ttl]]
        PROVE  \E v \in Value : store' = [store EXCEPT ![p] = v] /\ v.type = "string" /\ v.n = 1
    BY <1>2, <2>2, Zenon
  <2> QED BY <1>4, <2>1, <2>2, Zenon
<1> QED BY <1>1, <1>5, Zenon DEF KeyInv

LEMMA ServerNextPreserves == ServerInv /\ LimitInv /\ [Next]_vars => ServerInv'
<1> SUFFICES ASSUME ServerInv, LimitInv, [Next]_vars PROVE ServerInv'
  BY Zenon
<1>1. ASSUME NEW c \in Conn, ExecNext(c)
      PROVE  ServerInv'
  <2>1. Head(todo[c]) \in Command
    BY <1>1 DEF ExecNext, ServerInv
  <2> QED BY <1>1, <2>1, BeginKeepsServer, Zenon DEF ExecNext
<1>2. ASSUME NEW c \in Conn, NEW m \in Command, Run(c, m)
      PROVE  ServerInv'
  BY <1>2, BeginKeepsServer DEF Run, Waiting, connVars
<1>3. ASSUME NEW p \in Path, Vanish(p) /\ UNCHANGED connVars
      PROVE  ServerInv'
  BY <1>3 DEF Vanish, connVars, ServerInv, KeyInv
<1>4. ASSUME NEW p \in Fed, Refresh(p) /\ UNCHANGED connVars
      PROVE  ServerInv'
  <2>1. KeyInv /\ store' \in [Path -> Value \cup {Absent}]
    BY <1>4, RefreshTyped, Zenon DEF ServerInv
  <2> QED BY <1>4, <2>1, Zenon DEF Refresh, connVars, ServerInv, KeyInv
<1>5. CASE Close \/ CloseReturns \/ UNCHANGED vars
  BY <1>5 DEF Close, CloseReturns, vars, keyVars, connVars, ServerInv, KeyInv
<1> QED BY <1>1, <1>2, <1>3, <1>4, <1>5, ConnStepKeepsTypes, QueueKeepsTypes, KeyStepKeepsTypes DEF Next

-----------------------------------------------------------------------------
(* Types of values, with a single connection.                              *)

Solid(p) == Live(p) /\ store[p].n > 0

(* A value that is not a string; HSET writes strings without a look at the *)
(* index.                                                                  *)
Shaped(p) == Solid(p) /\ store[p].type # "string"

(* No array is of two kinds, and only a set is left without elements.      *)
Pure == \A p \in Path : Resident(p) => /\ store[p].type # "mixed"
                                       /\ store[p].n = 0 => store[p].type \in {"set", "null"}

IndexAgrees == \A p \in Path : Shaped(p) => keyTypes[p] \in {"none", store[p].type}

(* The type setKeyType is given.                                           *)
TagOf(m) == IF m.op \in {"setnx", "setex"} THEN "string" ELSE m.type

Checked(m) == m.op = "add" \/ (m.op = "take" /\ m.type # "zset")

(* The value about to be written is of the type of the one it replaces,    *)
(* unless that is a string the database has sent since, and of the type    *)
(* the index has.                                                          *)
Suits(m, v) ==
  /\ v.type # "mixed" /\ (v.n = 0 => v.type \in {"set", "null"})
  /\ v.n > 0 /\ v.type \notin {"string", "null"} => keyTypes[m.path] \in {"none", v.type}
  /\ m.op \notin {"setex", "hset"} /\ v.n > 0 /\ v.type # "null" =>
       /\ Shaped(m.path) => store[m.path].type = v.type
       /\ Solid(m.path) /\ m.path \notin Fed => store[m.path].type = v.type
  /\ m.op = "setex" => v.ttl
  /\ m.op \in {"set", "add", "setnx", "setex"} => v.type = TagOf(m) /\ v.n > 0
  /\ m.op = "hset" => ~Shaped(KeyOf(m)) /\ v.type = "string"

(* What a handler may rely on between its accesses.                        *)
Serves(c) ==
  LET m == Cmd(c)
      k == KeyOf(m)
  IN
  /\ job[c].pc \in {"infer", "scan"} => keyTypes[k] = "none"
  /\ job[c].pc = "scan" => ~Shaped(k)
  /\ job[c].pc = "read" /\ Checked(m) =>
       /\ keyTypes[m.path] \in {"none", m.type}
       /\ Shaped(m.path) => store[m.path].type = m.type
  /\ job[c].pc = "put" => Suits(m, job[c].val)
  /\ job[c].pc = "tag" => (Shaped(k) => store[k].type = TagOf(m))

StableInv == Pure /\ IndexAgrees /\ \A c \in Conn : Serves(c)

(* With one connection, and no append failed, the index agrees with the    *)
(* values at every access of every handler.                                *)
SoleInv == MaxConns = 1 /\ faults = 0 => StableInv

Alone(c) == \A d \in Conn \ {c} : job[d].pc = "idle"

(* Where a handler relies on nothing.                                      *)
Carefree == {"idle", "index", "refused", "children", "untag", "flush"}

LEMMA IdleServes ==
  ASSUME NEW c \in Conn, job'[c].pc \in Carefree
  PROVE  Serves(c)'
BY Zenon DEF Serves, Carefree

(* A step that touches neither the keys nor a handler.                     *)
LEMMA QuietStable ==
  ASSUME StableInv, UNCHANGED keyVars
  PROVE  StableInv'
<1>1. store' = store /\ keyTypes' = keyTypes /\ job' = job
  BY Zenon DEF keyVars
<1>2. \A p : (Live(p)' <=> Live(p)) /\ (Resident(p)' <=> Resident(p))
  BY <1>1, Zenon DEF Live, Resident
<1>3. \A p : (Solid(p)' <=> Solid(p)) /\ (Shaped(p)' <=> Shaped(p))
  BY <1>1, <1>2, Zenon DEF Solid, Shaped
<1>4. Pure' /\ IndexAgrees'
  BY <1>1, <1>2, <1>3, Zenon DEF StableInv, Pure, IndexAgrees
<1>5. ASSUME NEW c \in Conn
      PROVE  Serves(c)'
  <2>1. Serves(c) /\ job'[c] = job[c] /\ Cmd(c)' = Cmd(c)
    BY <1>1, Zenon DEF StableInv, Cmd
  <2>2. Suits(Cmd(c), job[c].val) => Suits(Cmd(c), job[c].val)'
    BY <1>1, <1>3, Zenon DEF Suits, Cmd
  <2> QED BY <1>1, <1>2, <1>3, <2>1, <2>2, Zenon DEF Serves
<1> QED BY <1>4, <1>5, Zenon DEF StableInv

LEMMA SoleServes ==
  ASSUME NEW c \in Conn, Alone(c), Moves(c), Serves(c)'
  PROVE  \A d \in Conn : Serves(d)'
<1> SUFFICES ASSUME NEW d \in Conn, d # c PROVE Serves(d)'
  BY Zenon
<1>1. job'[d].pc = "idle"
  BY DEF Alone, Moves
<1> QED BY <1>1, IdleServes DEF Carefree

LEMMA CarefreeServes ==
  ASSUME NEW c \in Conn, Alone(c), \/ Ends(c) \/ \E pc \in Carefree : To(c, pc)
  PROVE  \A d \in Conn : Serves(d)'
<1>1. Moves(c) /\ job'[c].pc \in Carefree
  BY Zenon DEF Ends, To, Carefree
<1> QED BY <1>1, IdleServes, SoleServes, Zenon

LEMMA AssertedServes ==
  ASSUME KeyInv, Pure, NEW c \in Conn, Alone(c), Cmd(c) \in Command, store' = store,
         NEW t, Asserted(c, t),
         t = "none" => ~Shaped(KeyOf(Cmd(c))),
         t \in {"none", Cmd(c).type} => keyTypes'[KeyOf(Cmd(c))] \in {"none", Cmd(c).type},
         Shaped(KeyOf(Cmd(c))) /\ t # "none" => store[KeyOf(Cmd(c))].type = t
  PROVE  \A d \in Conn : Serves(d)'
<1>0. PICK m : m = Cmd(c)
  BY Zenon
<1> DEFINE k == KeyOf(m)
<1>1. /\ m.path \in Path /\ k \in Path
      /\ m.type \in Type \cup {"hash"}
      /\ m.op = "set" => m.type = "string"
      /\ m.op = "hset" => m.type = "hash"
      /\ m.op \notin {"hset", "hdel"} => k = m.path
  BY <1>0, CommandPaths, Zenon
<1>2. CASE Ends(c) \/ To(c, "refused") \/ To(c, "children")
  BY <1>2, CarefreeServes, Zenon DEF Carefree
<1>3. ASSUME m.op \in {"set", "hset"}, t \in {"none", m.type}, NEW v, OneString(v), Puts(c, v)
      PROVE  \A d \in Conn : Serves(d)'
  <2>1. Shaped(k) => store[k].type = m.type
    BY <1>0, <1>3, Zenon
  <2>2. ~Shaped(k)
    BY <1>1, <1>3, <2>1, LiveValue, Zenon DEF Shaped, Solid, Live, Resident, Type
  <2>3. v.type = "string" /\ v.n = 1
    BY <1>3, Zenon DEF OneString
  <2>4. /\ Shaped(m.path)' <=> Shaped(m.path)
        /\ Solid(m.path)' <=> Solid(m.path)
        /\ Shaped(k)' <=> Shaped(k)
    BY Zenon DEF Shaped, Solid, Live, Resident
  <2>5. m.op = "set" => (Solid(m.path) => store[m.path].type = "string")
    BY <1>1, <2>2, Zenon DEF Shaped
  <2>6. Suits(m, v)'
    BY <1>1, <1>3, <2>2, <2>3, <2>4, <2>5, SMTT(20) DEF Suits, TagOf
  <2>7. Serves(c)'
    BY <1>0, <1>3, <2>6, Zenon DEF Puts, Serves, Cmd
  <2> QED BY <1>3, <2>7, SoleServes, Zenon DEF Puts
<1>4. ASSUME m.op \notin {"set", "hset", "hdel"}, t \in {"none", m.type}, To(c, "read")
      PROVE  \A d \in Conn : Serves(d)'
  <2>1. /\ keyTypes'[m.path] \in {"none", m.type}
        /\ Shaped(m.path)' => store'[m.path].type = m.type
    <3>1. k = m.path /\ (Shaped(k) => store[k].type = m.type)
      BY <1>0, <1>1, <1>4, Zenon
    <3> QED BY <1>0, <1>4, <3>1, Zenon DEF Shaped, Solid, Live, Resident
  <2>2. Serves(c)'
    BY <1>0, <1>4, <2>1, Zenon DEF To, Serves, Cmd
  <2> QED BY <1>4, <2>2, SoleServes, Zenon DEF To
<1> QED BY <1>0, <1>2, <1>3, <1>4, AssertedOutcome, Zenon

LEMMA IndexStepStable ==
  ASSUME KeyInv, StableInv, NEW c \in Conn, Alone(c), LoadIndex(c) \/ Infer(c) \/ Scan(c)
  PROVE  StableInv'
<1> DEFINE k == KeyOf(Cmd(c))
<1>1. Cmd(c) \in Command
  BY DEF LoadIndex, Infer, Scan, KeyInv, JobOK, Cmd
<1>2. k \in Path
  BY <1>1, CommandPaths, Zenon
<1>3. store' = store /\ Pure'
  BY Zenon DEF LoadIndex, Infer, Scan, StableInv, Pure, Resident
<1>4. CASE LoadIndex(c)
  <2>1. keyTypes' = keyTypes /\ IndexAgrees'
    BY <1>3, <1>4, Zenon DEF LoadIndex, StableInv, IndexAgrees, Shaped, Solid, Live, Resident
  <2>2. CASE keyTypes[k] = "none"
    <3>1. To(c, "infer")
      BY <1>4, <2>2, GotoTo, Zenon DEF LoadIndex, Steps
    <3>2. Serves(c)'
      BY <2>1, <2>2, <3>1, Zenon DEF To, Serves, Cmd
    <3> QED BY <1>3, <2>1, <3>1, <3>2, SoleServes, Zenon DEF To, StableInv
  <2>3. CASE keyTypes[k] # "none"
    <3>1. Asserted(c, keyTypes[k])
      BY <1>4, <2>3, Zenon DEF LoadIndex
    <3>2. Shaped(k) => store[k].type = keyTypes[k]
      BY <1>2, <2>3, Zenon DEF StableInv, IndexAgrees
    <3>3. \A d \in Conn : Serves(d)'
      BY <1>1, <1>3, <2>1, <2>3, <3>1, <3>2, AssertedServes, Zenon DEF StableInv
    <3> QED BY <1>3, <2>1, <3>3, Zenon DEF StableInv
  <2> QED BY <2>2, <2>3, Zenon
<1>5. CASE Infer(c) /\ Live(k)
  <2>1. PICK t \in Shapes(store[k]) : keyTypes' = [keyTypes EXCEPT ![k] = t] /\ Asserted(c, t)
    BY <1>5, Zenon DEF Infer
  <2>2. t = store[k].type /\ t \in Type
    BY <1>2, <1>5, <2>1, TypeIndexed, Zenon DEF StableInv, Pure, Live, Shapes
  <2>3. keyTypes'[k] = t /\ t # "none"
    BY <1>2, <2>1, <2>2, Zenon DEF KeyInv, Type
  <2>4. IndexAgrees'
    BY <1>2, <1>3, <2>1, <2>2, Zenon DEF KeyInv, StableInv, IndexAgrees, Shaped, Solid, Live, Resident
  <2>5. \A d \in Conn : Serves(d)'
    BY <1>1, <1>3, <2>1, <2>2, <2>3, AssertedServes, Zenon DEF StableInv
  <2> QED BY <1>3, <2>4, <2>5, Zenon DEF StableInv
<1>6. CASE Infer(c) /\ ~Live(k)
  <2>1. keyTypes' = keyTypes /\ IndexAgrees'
    BY <1>3, <1>6, Zenon DEF Infer, StableInv, IndexAgrees, Shaped, Solid, Live, Resident
  <2>2. To(c, "scan")
    BY <1>6, GotoTo, Zenon DEF Infer, Steps
  <2>3. keyTypes[k] = "none"
    BY <1>6, Zenon DEF Infer, StableInv, Serves
  <2>4. Serves(c)'
    BY <1>3, <1>6, <2>1, <2>2, <2>3, Zenon DEF To, Serves, Cmd, Shaped, Solid, Live, Resident
  <2> QED BY <1>3, <2>1, <2>2, <2>4, SoleServes, Zenon DEF To, StableInv
<1>7. CASE Scan(c)
  <2> DEFINE t == IF \E p \in Below(k) : Resident(p) THEN "hash" ELSE "none"
  <2>1. /\ keyTypes' = [keyTypes EXCEPT ![k] = IF t = "hash" THEN "hash" ELSE @]
        /\ Asserted(c, t)
    BY <1>7 DEF Scan
  <2>2. t \in {"hash", "none"}
    BY Zenon
  <2> HIDE DEF t
  <2>3. keyTypes[k] = "none" /\ ~Shaped(k)
    BY <1>7, Zenon DEF Scan, StableInv, Serves
  <2>4. keyTypes'[k] = t
    BY <1>2, <2>1, <2>2, <2>3, Zenon DEF KeyInv
  <2>5. IndexAgrees'
    BY <1>2, <1>3, <2>1, <2>3, Zenon DEF KeyInv, StableInv, IndexAgrees, Shaped, Solid, Live, Resident
  <2>6. \A d \in Conn : Serves(d)'
    BY <1>1, <1>3, <2>1, <2>3, <2>4, AssertedServes, Zenon DEF StableInv
  <2> QED BY <1>3, <2>5, <2>6, Zenon DEF StableInv
<1> QED BY <1>4, <1>5, <1>6, <1>7, Zenon

(* The value a handler computes from the one it has read.                  *)
LEMMA FitsSuits ==
  ASSUME KeyInv, StableInv, NEW c \in Conn, Reads(c), NEW v, Fits(c, v)
  PROVE  Suits(Cmd(c), v)
<1> DEFINE m == Cmd(c)
           p == m.path
           h == store[p]
<1>1. p \in Path /\ m.type \in Type \cup {"hash"} /\ m.type # "mixed" /\ v \in Value
  BY CommandPaths, Zenon DEF Reads, Fits, Type
<1>2. v.n \in Nat
  BY <1>1 DEF Value
<1>3. Live(p) => /\ h.type \in Type /\ h.n \in Nat
                 /\ h.n = 0 => h.type = "set"
                 /\ h.n > 0 /\ h.type # "string" => keyTypes[p] \in {"none", h.type}
  BY <1>1, LiveValue DEF StableInv, Pure, IndexAgrees, Shaped, Solid, Live, Resident
<1>4. m.op = "add" \/ (m.op = "take" /\ m.type # "zset") =>
         /\ keyTypes[p] \in {"none", m.type}
         /\ Shaped(p) => h.type = m.type
  BY Zenon DEF Reads, StableInv, Serves, Checked
<1>5. CASE m.op \in {"del", "hdel"}
  BY <1>5, Values, Zenon DEF Fits, Suits
<1>6. CASE m.op = "setnx"
  BY <1>2, <1>6, SMTT(20) DEF Fits, Suits, Shaped, Solid, TagOf
<1>7. CASE m.op \in {"expire", "persist"}
  BY <1>3, <1>7, Zenon DEF Fits, Suits, Held, Shaped, Solid, Type
<1>8. CASE m.op = "add"
  <2>1. ~(Live(p) /\ h.type # m.type /\ Arrays(c))
    BY <1>3, <1>4, <1>8 DEF Arrays, Array, Held, Shaped, Solid
  <2>2. v.type = m.type /\ v.n > 0
    BY <1>8, <2>1, Zenon DEF Fits, Held
  <2>3. Live(p) /\ h.type # m.type => h.n = 0
    BY <1>8, <2>1, Zenon DEF Fits, Held
  <2>4. Solid(p) => h.type = m.type
    BY <2>3 DEF Solid
  <2> QED BY <1>1, <1>4, <1>8, <2>2, <2>4 DEF Suits, TagOf, Shaped
<1>9. CASE m.op = "take"
  <2>1. Live(p) /\ v.n <= h.n
    BY <1>9, Zenon DEF Fits, Held
  <2>2. CASE v = Tombstone
    BY <1>9, <2>2, Values, Zenon DEF Suits
  <2>3. CASE v.n > 0 /\ v.type = h.type
    <3>1. /\ v.type \in Type /\ h.n > 0
          /\ v.type # "string" => keyTypes[p] \in {"none", v.type}
      BY <1>2, <1>3, <2>1, <2>3
    <3> QED BY <1>9, <2>3, <3>1 DEF Suits, Type
  <2>4. h.type # "mixed"
    BY <1>3, <2>1 DEF Type
  <2> QED BY <1>9, <2>2, <2>3, <2>4, Zenon DEF Fits, Held
<1> QED BY <1>5, <1>6, <1>7, <1>8, <1>9, Zenon DEF Reads

LEMMA ReadStable ==
  ASSUME KeyInv, StableInv, NEW c \in Conn, Alone(c), Read(c)
  PROVE  StableInv'
<1>1. Reads(c) /\ keyTypes' = keyTypes
  BY ReadOutcome, Zenon DEF Read
<1>2. CASE Leaves(c)
  <2>1. Pure' /\ IndexAgrees'
    BY <1>1, <1>2 DEF Leaves, StableInv, Pure, IndexAgrees, Shaped, Solid, Live, Resident
  <2>2. CASE Ends(c) \/ To(c, "refused") \/ To(c, "index")
    BY <2>1, <2>2, CarefreeServes, Zenon DEF StableInv, Carefree
  <2>3. ASSUME NEW v, Fits(c, v), Puts(c, v)
        PROVE  StableInv'
    <3>1. PICK m : m = Cmd(c)
      OBVIOUS
    <3>2. Suits(m, v)
      BY <1>1, <2>3, <3>1, FitsSuits, Zenon
    <3>3. Suits(m, v)'
      BY <1>1, <1>2, <3>2, Zenon DEF Leaves, Suits, Shaped, Solid, Live, Resident
    <3>4. Serves(c)'
      BY <2>3, <3>1, <3>3, Zenon DEF Puts, Serves, Cmd
    <3> QED BY <2>1, <2>3, <3>4, SoleServes DEF Puts, StableInv
  <2> QED BY <1>2, <2>2, <2>3, Zenon DEF Leaves
<1>3. CASE Shrinks(c)
  <2>1. PICK m : m = Cmd(c)
    OBVIOUS
  <2>2. PICK v : Fits(c, v) /\ Puts(c, v)
    BY <1>3, Zenon DEF Shrinks
  <2>3. m.path \in Path
    BY <1>1, <2>1, CommandPaths, Zenon DEF Reads
  <2>4. \A q \in Path : store'[q] = store[q] \/ Thins(store[q], store'[q])
    BY <1>3, Zenon DEF Shrinks
  <2>5. Pure'
    BY <2>4, Zenon DEF StableInv, Pure, Resident, Thins
  <2>6. ASSUME NEW q \in Path, Solid(q)'
        PROVE  Solid(q) /\ store'[q].type = store[q].type
    <3>1. CASE store'[q] = store[q]
      BY <2>6, <3>1 DEF Solid, Live, Resident
    <3>2. CASE Thins(store[q], store'[q])
      <4>1. store[q].n \in Nat /\ store'[q].n \in Nat
        BY <3>2, LiveValue DEF Thins, Value
      <4> QED BY <2>6, <3>2, <4>1 DEF Thins, Solid, Live, Resident
    <3> QED BY <2>4, <3>1, <3>2
  <2>7. \A q \in Path : Shaped(q)' => Shaped(q) /\ store'[q].type = store[q].type
    BY <2>6, Zenon DEF Shaped
  <2>8. IndexAgrees'
    BY <1>1, <2>7, Zenon DEF StableInv, IndexAgrees
  <2>9. Suits(m, v)
    BY <1>1, <2>1, <2>2, FitsSuits, Zenon
  <2>10. m.op = "take"
    BY <1>3, <2>1, Zenon DEF Shrinks
  <2>11. Suits(m, v)'
    BY <1>1, <2>3, <2>6, <2>7, <2>9, <2>10, Zenon DEF Suits
  <2>12. Serves(c)'
    BY <2>1, <2>2, <2>11, Zenon DEF Puts, Serves, Cmd
  <2> QED BY <2>2, <2>5, <2>8, <2>12, SoleServes, Zenon DEF Puts, StableInv
<1> QED BY <1>2, <1>3, ReadOutcome, Zenon

(* The value takes its place.                                              *)
LEMMA PlaceStable ==
  ASSUME KeyInv, StableInv, NEW m \in Command, NEW v \in Value, Suits(m, v),
         store' = [store EXCEPT ![m.path] = v], keyTypes' = keyTypes
  PROVE  /\ Pure' /\ IndexAgrees'
         /\ m.op \in {"set", "add", "setnx", "setex", "hset"} =>
              (Shaped(KeyOf(m))' => store'[KeyOf(m)].type = TagOf(m))
<1> DEFINE p == m.path
           k == KeyOf(m)
<1>1. p \in Path /\ k \in Path
  BY CommandPaths, Zenon
<1>2. store'[p] = v /\ \A q \in Path : q # p => store'[q] = store[q]
  BY <1>1, Zenon DEF KeyInv
<1>3. Pure'
  BY <1>2, Zenon DEF StableInv, Pure, Resident, Suits
<1>4. IndexAgrees'
  <2> SUFFICES ASSUME NEW q \in Path, Shaped(q)'
               PROVE  keyTypes'[q] \in {"none", store'[q].type}
    BY Zenon DEF IndexAgrees
  <2>1. CASE q # p
    BY <1>2, <2>1, Zenon DEF StableInv, IndexAgrees, Shaped, Solid, Live, Resident
  <2>2. CASE q = p
    BY <1>2, <2>2, Zenon DEF Suits, Shaped, Solid, Live
  <2> QED BY <2>1, <2>2, Zenon
<1>5. ASSUME m.op \in {"set", "add", "setnx", "setex", "hset"}, Shaped(k)'
      PROVE  store'[k].type = TagOf(m)
  <2>1. CASE k = p
    BY <1>2, <1>5, <2>1, Zenon DEF Suits, Shaped, Solid
  <2>2. CASE k # p
    <3>1. m.op = "hset"
      BY <1>5, <2>2, CommandPaths, Zenon
    <3> QED BY <1>1, <1>2, <1>5, <2>2, <3>1, Zenon DEF Suits, Shaped, Solid, Live, Resident
  <2> QED BY <2>1, <2>2, Zenon
<1> QED BY <1>3, <1>4, <1>5, Zenon

(* Or it is dropped, for one with its bytes.                               *)
LEMMA DropStable ==
  ASSUME KeyInv, StableInv, NEW m \in Command, NEW v \in Value, Suits(m, v),
         MayPassFor(v, store[m.path]), store' = store, keyTypes' = keyTypes
  PROVE  /\ Pure' /\ IndexAgrees'
         /\ m.op \in {"set", "add", "setnx", "setex", "hset"} =>
              (Shaped(KeyOf(m))' => store'[KeyOf(m)].type = TagOf(m))
<1> DEFINE k == KeyOf(m)
<1>1. \A q : (Resident(q)' <=> Resident(q)) /\ (Shaped(q)' <=> Shaped(q))
  BY Zenon DEF Shaped, Solid, Live, Resident
<1>2. Pure' /\ IndexAgrees'
  BY <1>1, Zenon DEF StableInv, Pure, IndexAgrees
<1>3. ASSUME m.op \in {"set", "add", "setnx", "setex", "hset"}, Shaped(k)
      PROVE  store[k].type = TagOf(m)
  <2>1. m.op # "hset" /\ k = m.path
    BY <1>3, CommandPaths, Zenon DEF Suits
  <2>2. m.op # "setex" /\ v.type # "null"
    BY Zenon DEF Suits, MayPassFor
  <2> QED BY <1>3, <2>1, <2>2, Zenon DEF Suits
<1> QED BY <1>1, <1>2, <1>3, Zenon

LEMMA PutStable ==
  ASSUME KeyInv, StableInv, NEW c \in Conn, Alone(c), Put(c)
  PROVE  StableInv'
<1>1. PICK m, v : m = Cmd(c) /\ v = job[c].val
  BY Zenon
<1> DEFINE k == KeyOf(m)
<1>2. /\ m \in Command /\ v \in Value /\ Suits(m, v)
      /\ keyTypes' = keyTypes /\ AfterPut(c)
  BY <1>1, Zenon DEF Put, KeyInv, JobOK, Cmd, StableInv, Serves
<1>3. /\ Pure' /\ IndexAgrees'
      /\ m.op \in {"set", "add", "setnx", "setex", "hset"} =>
           (Shaped(k)' => store'[k].type = TagOf(m))
  <2>1. CASE store' = [store EXCEPT ![m.path] = v]
    BY <1>2, <2>1, PlaceStable, Zenon
  <2>2. CASE MayPassFor(v, store[m.path]) /\ store' = store
    BY <1>2, <2>2, DropStable, Zenon
  <2> QED BY <1>1, <2>1, <2>2, Zenon DEF Put, Held
<1>4. CASE To(c, "untag") \/ To(c, "index") \/ Ends(c)
  BY <1>3, <1>4, CarefreeServes, Zenon DEF StableInv, Carefree
<1>5. CASE m.op \in {"set", "add", "setnx", "setex", "hset"} /\ To(c, "tag")
  <2>1. Serves(c)'
    BY <1>1, <1>3, <1>5, Zenon DEF To, Serves, Cmd
  <2> QED BY <1>3, <1>5, <2>1, SoleServes, Zenon DEF To, StableInv
<1> QED BY <1>1, <1>2, <1>4, <1>5, AfterPutOutcome

LEMMA OtherStepStable ==
  ASSUME KeyInv, StableInv, NEW c \in Conn, Alone(c), faults' = faults,
         \/ Tag(c) \/ Untag(c) \/ HdelChildren(c)
         \/ FlushPath(c) \/ FlushIndex(c) \/ Refused(c)
  PROVE  StableInv'
<1> DEFINE k == KeyOf(Cmd(c))
<1>1. Cmd(c) \in Command
  BY DEF Tag, Untag, HdelChildren, FlushPath, FlushIndex, Refused, KeyInv, JobOK, Cmd
<1>2. k \in Path
  BY <1>1, CommandPaths, Zenon
<1>3. \A d \in Conn : Serves(d)'
  <2>1. CASE Return(c)
    BY <2>1, ReturnEnds, CarefreeServes, Zenon
  <2>2. CASE Goto(c, "untag")
    BY <2>2, GotoTo, CarefreeServes, Zenon DEF Carefree, Steps
  <2>3. CASE FlushPath(c)
    BY <2>3, FlushTo, CarefreeServes DEF Carefree
  <2> QED BY <2>1, <2>2, <2>3, Zenon DEF Tag, Untag, HdelChildren, FlushIndex, Refused
<1>4. CASE store' = store
  <2>1. Pure'
    BY <1>4 DEF StableInv, Pure, Resident
  <2>2. \A p \in Path : /\ Shaped(p)' <=> Shaped(p)
                        /\ keyTypes'[p] \in {"none", keyTypes[p]}
                           \/ (p = k /\ Tag(c) /\ keyTypes'[p] = TagOf(Cmd(c)))
    BY <1>2, <1>4, Zenon DEF KeyInv, Shaped, Solid, Live, Resident, Tag, Untag, HdelChildren, FlushPath,
       FlushIndex, Refused, TagOf
  <2>3. Tag(c) /\ Shaped(k) => store[k].type = TagOf(Cmd(c))
    BY Zenon DEF Tag, StableInv, Serves
  <2>4. IndexAgrees'
    BY <1>4, <2>2, <2>3, Zenon DEF StableInv, IndexAgrees
  <2> QED BY <1>3, <2>1, <2>4, Zenon DEF StableInv
<1>5. CASE FlushPath(c) /\ store' # store
  <2>1. PICK p : store' = [store EXCEPT ![p] = Tombstone]
    BY <1>5 DEF FlushPath
  <2>2. \A q \in Path : store'[q] \in {Tombstone, store[q]}
    BY <2>1, Zenon DEF KeyInv
  <2>3. Pure'
    BY <2>2, Values DEF StableInv, Pure, Resident
  <2>4. IndexAgrees'
    BY <1>5, <2>2, Values DEF FlushPath, StableInv, IndexAgrees, Shaped, Solid, Live, Resident
  <2> QED BY <1>3, <2>3, <2>4 DEF StableInv
<1> QED BY <1>4, <1>5 DEF Tag, Untag, HdelChildren, FlushIndex, Refused

LEMMA CommandStepStable ==
  ASSUME KeyInv, StableInv, NEW c \in Conn, Alone(c), CommandStep(c), faults = 0, faults' = 0
  PROVE  StableInv'
<1>1. ~PutFails(c)
  BY DEF PutFails
<1> QED BY <1>1, IndexStepStable, ReadStable, PutStable, OtherStepStable, Zenon DEF CommandStep

LEMMA BeginStable ==
  ASSUME KeyInv, StableInv, NEW c \in Conn, Alone(c), NEW m \in Command, Begin(c, m),
         UNCHANGED <<store, keyTypes>>
  PROVE  StableInv'
<1>1. Pure' /\ IndexAgrees'
  BY Zenon DEF StableInv, Pure, IndexAgrees, Shaped, Solid, Live, Resident
<1>2. /\ Moves(c) /\ job'[c].pc = Start(m) /\ job'[c].cmd = m
      /\ m.op = "setex" => OneString(job'[c].val) /\ job'[c].val.ttl
  BY BeginTo
<1>3. /\ Start(m) \in Carefree \cup {"read", "put"}
      /\ Start(m) = "read" => ~Checked(m)
      /\ Start(m) = "put" => m.op = "setex"
  BY KeyspaceAssumption DEF Start, Carefree, Checked
<1>4. PICK v : v = job'[c].val
  BY Zenon
<1>5. Start(m) = "put" => Suits(m, v)'
  BY <1>2, <1>3, <1>4, SMTT(20) DEF Suits, OneString, TagOf
<1>6. Serves(c)'
  BY <1>2, <1>3, <1>4, <1>5, Zenon DEF Serves, Cmd, Carefree
<1> QED BY <1>1, <1>2, <1>6, SoleServes, Zenon DEF StableInv

LEMMA VanishStable ==
  ASSUME KeyInv, StableInv, NEW p \in Path, Vanish(p)
  PROVE  StableInv'
<1>1. \A q \in Path : store'[q] \in {Absent, store[q]}
  BY Zenon DEF Vanish, KeyInv
<1>2. \A q : /\ q \in Path
             /\ Live(q)' \/ Shaped(q)' \/ Solid(q)'
             => Live(q) /\ (Shaped(q)' <=> Shaped(q)) /\ (Solid(q)' <=> Solid(q)) /\ store'[q] = store[q]
  BY <1>1, Zenon DEF Shaped, Solid, Live, Resident
<1>3. Pure'
  BY <1>1, Zenon DEF StableInv, Pure, Resident
<1>4. IndexAgrees'
  BY <1>2, Zenon DEF Vanish, StableInv, IndexAgrees
<1>5. ASSUME NEW c \in Conn PROVE Serves(c)'
  <2>1. PICK m, v : m = Cmd(c) /\ v = job[c].val
    BY Zenon
  <2>2. CASE job[c].pc = "idle"
    BY <2>2, IdleServes, Zenon DEF Vanish, Carefree
  <2>3. CASE job[c].pc # "idle"
    <3>1. m.path \in Path /\ KeyOf(m) \in Path
      BY <2>1, <2>3, CommandPaths, Zenon DEF KeyInv, JobOK, Cmd
    <3>2. Serves(c) /\ job' = job /\ keyTypes' = keyTypes
      BY Zenon DEF StableInv, Vanish
    <3>3. Suits(m, v) => Suits(m, v)'
      BY <1>2, <3>1, <3>2, Zenon DEF Suits
    <3>4. /\ Live(KeyOf(m))' => Live(KeyOf(m))
          /\ Shaped(KeyOf(m))' => Shaped(KeyOf(m)) /\ store'[KeyOf(m)] = store[KeyOf(m)]
          /\ Shaped(m.path)' => Shaped(m.path) /\ store'[m.path] = store[m.path]
      BY <1>2, <3>1, Zenon
    <3> QED BY <2>1, <3>2, <3>3, <3>4, Zenon DEF Serves, Cmd
  <2> QED BY <2>2, <2>3
<1> QED BY <1>3, <1>4, <1>5, Zenon DEF StableInv

LEMMA RefreshStable ==
  ASSUME KeyInv, StableInv, NEW p \in Fed, Refresh(p)
  PROVE  StableInv'
<1>1. \A q \in Path : \/ store'[q] = store[q]
                      \/ q = p /\ store'[q] = Tombstone
                      \/ q = p /\ (store'[q].type = "string" /\ store'[q].n = 1)
  BY RefreshTyped, Zenon
<1>2. \A q \in Path : Shaped(q)' => Shaped(q) /\ store'[q] = store[q]
  BY <1>1, Values, Zenon DEF Shaped, Solid, Live, Resident
<1>3. \A q \in Path \ Fed : store'[q] = store[q] /\ (Solid(q)' <=> Solid(q))
  BY <1>1, Zenon DEF Solid, Live, Resident
<1>4. Pure'
  <2>1. 1 # 0 /\ Tombstone.type = "null"
    BY Values
  <2> QED BY <1>1, <2>1, Zenon DEF StableInv, Pure, Resident
<1>5. IndexAgrees'
  BY <1>2, Zenon DEF Refresh, StableInv, IndexAgrees
<1>6. ASSUME NEW c \in Conn PROVE Serves(c)'
  <2>1. PICK m, v : m = Cmd(c) /\ v = job[c].val
    BY Zenon
  <2>2. CASE job[c].pc = "idle"
    BY <2>2, IdleServes, Zenon DEF Refresh, Carefree
  <2>3. CASE job[c].pc # "idle"
    <3>1. m.path \in Path /\ KeyOf(m) \in Path
      BY <2>1, <2>3, CommandPaths, Zenon DEF KeyInv, JobOK, Cmd
    <3>2. Serves(c) /\ job' = job /\ keyTypes' = keyTypes
      BY Zenon DEF StableInv, Refresh
    <3>3. Suits(m, v) => Suits(m, v)'
      BY <1>2, <1>3, <3>1, <3>2, Zenon DEF Suits
    <3>4. /\ Shaped(KeyOf(m))' => Shaped(KeyOf(m)) /\ store'[KeyOf(m)] = store[KeyOf(m)]
          /\ Shaped(m.path)' => Shaped(m.path) /\ store'[m.path] = store[m.path]
      BY <1>2, <3>1, Zenon
    <3> QED BY <2>1, <3>2, <3>3, <3>4, Zenon DEF Serves, Cmd
  <2> QED BY <2>2, <2>3
<1> QED BY <1>4, <1>5, <1>6, Zenon DEF StableInv

LEMMA SoleInitially == Init => SoleInv
<1> SUFFICES ASSUME Init PROVE StableInv
  BY DEF SoleInv
<1>1. \A p \in Path : ~Resident(p)
  BY Zenon DEF Init, KeyInit, Resident
<1>2. \A c \in Conn : Serves(c)
  BY JobIdle, Zenon DEF Init, KeyInit, Serves
<1> QED BY <1>1, <1>2 DEF StableInv, Pure, IndexAgrees, Shaped, Solid, Live

LEMMA FaultsGrow == [Next]_vars => faults' \in {faults, faults + 1}
<1>1. ASSUME NEW c \in Conn, CommandStep(c)
      PROVE  faults' \in {faults, faults + 1}
  BY <1>1, Zenon DEF CommandStep, LoadIndex, Infer, Scan, Read, Put, PutFails, Tag, Untag, HdelChildren,
     FlushPath, FlushIndex, Refused
<1> QED BY <1>1, Zenon DEF Next, vars, keyVars, Accept, Admit, Count, Spawn, HangUp, Leave, Move, Multi, Discard, Exec, ExecNext,
       Run, Queue, Keys, Vanish, Refresh, Close, CloseReturns

(* The step that changes a live value's type, if there is one, is the      *)
(* append of a SETEX or of an HSET.                                        *)
LEMMA OnlySetexHset ==
  ASSUME SoleInv, ServerInv, [Next]_vars, MaxConns = 1, faults' = 0, NEW p \in Path \ Fed,
         Solid(p), Solid(p)', store'[p].type # store[p].type
  PROVE  \E c \in Conn : /\ job[c].pc = "put" /\ Cmd(c).path = p
                         /\ Cmd(c).op \in {"setex", "hset"}
<1>1. KeyInv /\ faults \in Nat
  BY KeyspaceAssumption DEF ServerInv, KeyInv
<1>2. store' # store /\ store' # [store EXCEPT ![p] = Absent]
  BY <1>1, Zenon DEF KeyInv, Solid, Live, Resident
<1>3. ASSUME NEW c \in Conn, Put(c)
      PROVE  job[c].pc = "put" /\ Cmd(c).path = p /\ Cmd(c).op \in {"setex", "hset"}
  <2>1. /\ job[c].pc = "put" /\ faults = 0
        /\ store' = [store EXCEPT ![Cmd(c).path] = job[c].val]
    BY <1>2, <1>3, Zenon DEF Put
  <2>2. Cmd(c).path = p /\ store'[p] = job[c].val
    BY <1>1, <2>1, Zenon DEF KeyInv
  <2>3. Suits(Cmd(c), job[c].val)
    BY <2>1, Zenon DEF SoleInv, StableInv, Serves
  <2> QED BY <2>1, <2>2, <2>3, Zenon DEF Suits, Solid, Live
<1>4. ASSUME NEW c \in Conn, Read(c)
      PROVE  FALSE
  <2>1. Shrinks(c)
    BY <1>1, <1>2, <1>4, ReadOutcome, Zenon DEF Leaves
  <2>2. Thins(store[p], store'[p])
    BY <2>1, Zenon DEF Shrinks
  <2> QED BY <2>2 DEF Thins, Solid
<1>5. ASSUME NEW c \in Conn, FlushPath(c)
      PROVE  FALSE
  <2>1. PICK q : store' = [store EXCEPT ![q] = Tombstone]
    BY <1>2, <1>5, Zenon DEF FlushPath
  <2>2. store'[p] = Tombstone
    BY <1>1, <2>1, Zenon DEF KeyInv
  <2> QED BY <2>2, Values, Zenon DEF Solid, Live
<1>6. ASSUME NEW q \in Path, Vanish(q)
      PROVE  FALSE
  BY <1>1, <1>6, Zenon DEF Vanish, KeyInv, Solid, Live, Resident
<1>7. ASSUME NEW q \in Fed, Refresh(q)
      PROVE  FALSE
  BY <1>1, <1>7, Zenon DEF Refresh, KeyInv
<1>8. PICK c \in Conn : Put(c)
  BY <1>2, <1>4, <1>5, <1>6, <1>7, Zenon DEF Next, vars, keyVars, Accept, Admit, Count, Spawn, HangUp, Leave, Move, Multi, Discard,
     Exec, ExecNext, Run, Queue, Keys, CommandStep, LoadIndex, Infer, Scan, PutFails, Tag, Untag,
     HdelChildren, FlushIndex, Refused, Close, CloseReturns
<1> QED BY <1>3, <1>8, Zenon

-----------------------------------------------------------------------------
(* The counting of connections, and the theorems.                          *)
INSTANCE FiniteSetTheorems

LEMMA LimitInitially == Init => LimitInv
<1> SUFFICES ASSUME Init PROVE LimitInv
  OBVIOUS
<1>1. Served(phase) = {}
  BY DEF Init, Served
<1>2. IsFiniteSet(Served(phase)) /\ Cardinality(Served(phase)) = 0
  BY <1>1, FS_EmptySet, Zenon
<1> QED BY <1>2, ServerAssumption DEF Init, LimitInv, InLoop

LEMMA LimitNumbers ==
  ASSUME LimitInv
  PROVE  activeConns \in Nat /\ MaxConns \in Nat
BY FS_CardinalityType, ServerAssumption, Zenon DEF LimitInv

(* A step of a command, or of a transaction, leaves the connections alone. *)
LEMMA Elsewhere ==
  ASSUME LimitInv, UNCHANGED <<phase, activeConns, closing>>
  PROVE  LimitInv'
BY Zenon DEF LimitInv, Served, InLoop

(* The steps that count nothing: the loop takes a connection or turns it   *)
(* away, starts the goroutine of one it has counted, and one ends.         *)
LEMMA UncountedKeeps ==
  ASSUME LimitInv, NEW c \in Conn,
         Accept(c) \/ Admit(c) \/ Spawn(c) \/ Leave(c)
  PROVE  LimitInv'
<1>1. Served(phase') = Served(phase)
  BY DEF Accept, Admit, Spawn, Leave, Move, LimitInv, Served
<1>2. phase' \in [Conn -> {"off", "accepted", "admitted", "counted", "open", "leaving"}]
  BY Zenon DEF Accept, Admit, Spawn, Leave, Move, LimitInv
<1>3. /\ activeConns' = activeConns
      /\ closing' = closing
  BY Zenon DEF Accept, Admit, Spawn, Leave
<1>4. (\E d \in Conn : phase'[d] = "admitted") => activeConns < MaxConns
  <2>1. Admit(c) /\ ~AtLimit => activeConns < MaxConns
    BY LimitNumbers DEF AtLimit
  <2> QED BY <2>1, Zenon DEF Accept, Admit, Spawn, Leave, Move, LimitInv
<1>5. \A d, e \in Conn : InLoop(d)' /\ InLoop(e)' => d = e
  BY Zenon DEF Accept, Admit, Spawn, Leave, Move, LimitInv, InLoop
<1>6. closing = "done" => \A d, e \in Conn : phase'[d] # "off" /\ phase'[e] # "off" => d = e
  BY Zenon DEF Accept, Admit, Spawn, Leave, Move, LimitInv
<1> QED BY <1>1, <1>2, <1>3, <1>4, <1>5, <1>6, Zenon DEF LimitInv

LEMMA CountKeeps ==
  ASSUME LimitInv, NEW c \in Conn, Count(c)
  PROVE  LimitInv'
<1>1. Served(phase') = Served(phase) \cup {c} /\ c \notin Served(phase)
  BY Zenon DEF Count, Move, LimitInv, Served
<1>2. /\ IsFiniteSet(Served(phase'))
      /\ Cardinality(Served(phase')) = Cardinality(Served(phase)) + 1
  BY <1>1, FS_AddElement DEF LimitInv
<1>3. activeConns < MaxConns
  BY Zenon DEF Count, LimitInv
<1>4. activeConns' = Cardinality(Served(phase')) /\ activeConns' <= MaxConns
  BY <1>2, <1>3, LimitNumbers DEF Count, LimitInv
<1>5. \A d, e \in Conn : InLoop(d)' /\ InLoop(e)' => d = e
  BY Zenon DEF Count, Move, LimitInv, InLoop
<1>6. \A d \in Conn : phase'[d] # "admitted"
  BY Zenon DEF Count, Move, LimitInv, InLoop
<1> QED BY <1>2, <1>4, <1>5, <1>6, Zenon DEF Count, Move, LimitInv

LEMMA HangUpKeeps ==
  ASSUME LimitInv, NEW c \in Conn, HangUp(c)
  PROVE  LimitInv'
<1>1. Served(phase') = Served(phase) \ {c} /\ c \in Served(phase)
  BY Zenon DEF HangUp, Move, Waiting, LimitInv, Served
<1>2. /\ IsFiniteSet(Served(phase'))
      /\ Cardinality(Served(phase')) = Cardinality(Served(phase)) - 1
  BY <1>1, FS_RemoveElement, Zenon DEF LimitInv
<1>3. /\ activeConns' = Cardinality(Served(phase')) /\ activeConns' <= MaxConns
      /\ activeConns < MaxConns => activeConns' < MaxConns
  BY <1>2, LimitNumbers DEF HangUp, LimitInv
<1>4. \A d, e \in Conn : InLoop(d)' /\ InLoop(e)' => d = e
  BY Zenon DEF HangUp, Move, LimitInv, InLoop
<1>5. (\E d \in Conn : phase'[d] = "admitted") => activeConns' < MaxConns
  BY <1>3, Zenon DEF HangUp, Move, LimitInv
<1> QED BY <1>2, <1>3, <1>4, <1>5, Zenon DEF HangUp, Move, Waiting, LimitInv

LEMMA LimitNextPreserves == LimitInv /\ [Next]_vars => LimitInv'
<1> SUFFICES ASSUME LimitInv, [Next]_vars PROVE LimitInv'
  BY Zenon
<1>1. ASSUME NEW c \in Conn,
             Multi(c) \/ Discard(c) \/ Exec(c) \/ ExecNext(c) \/ Keys(c)
      PROVE  LimitInv'
  BY <1>1, Elsewhere, Zenon DEF Multi, Discard, Exec, ExecNext, Keys, connVars
<1>2. ASSUME NEW c \in Conn, NEW m, Run(c, m) \/ Queue(c, m)
      PROVE  LimitInv'
  BY <1>2, Elsewhere, Zenon DEF Run, Queue, connVars
<1>3. CASE Close
  BY <1>3, Zenon DEF Close, LimitInv, Served, InLoop
<1>4. CASE CloseReturns
  <2>1. \A c \in Conn : phase[c] # "off" => InLoop(c)
    BY <1>4, Zenon DEF CloseReturns, LimitInv, InLoop
  <2> QED BY <1>4, <2>1, Zenon DEF CloseReturns, LimitInv, Served, InLoop
<1>5. CASE UNCHANGED connVars
  BY <1>5, Elsewhere, Zenon DEF connVars
<1>6. CASE UNCHANGED vars
  BY <1>5, <1>6, Zenon DEF vars
<1> QED BY <1>1, <1>2, <1>3, <1>4, <1>5, <1>6, UncountedKeeps, CountKeeps, HangUpKeeps, Zenon DEF Next

LEMMA LimitInvariant == Spec => []LimitInv
BY LimitInitially, LimitNextPreserves, PTL DEF Spec

(* No more than maxConns connections are served: only the accept loop      *)
(* raises the counter, for one connection at a time, and between its check *)
(* and its count the goroutines can but lower it (ListenAndServe).         *)
THEOREM LimitHolds == Spec => []WithinLimit
<1>1. LimitInv => WithinLimit
  BY Zenon DEF LimitInv, WithinLimit, Served
<1> QED BY <1>1, LimitInvariant, PTL

(* Once Close has returned at most one connection is left.                 *)
THEOREM CloseLeavesOne == Spec => []ClosedButOne
<1>1. LimitInv => ClosedButOne
  <2> SUFFICES ASSUME LimitInv, closing = "done"
               PROVE  Cardinality({c \in Conn : phase[c] # "off"}) <= 1
    BY Zenon DEF ClosedButOne
  <2> DEFINE L == {c \in Conn : phase[c] # "off"}
  <2>1. L = {} \/ \E c \in L : L = {c}
    BY DEF LimitInv
  <2>2. Cardinality(L) = 0 \/ Cardinality(L) = 1
    BY <2>1, FS_EmptySet, FS_Singleton, Zenon
  <2> QED BY <2>2
<1> QED BY <1>1, LimitInvariant, PTL

LEMMA ServerInvariant == Spec => []ServerInv
BY LimitInvariant, ServerInitially, ServerNextPreserves, PTL DEF Spec

(* Every variable keeps its type: a handler that gets past its checks has  *)
(* a key to tag and a value to write, and the counter never leaves the     *)
(* range that finitely many clients allow.                                 *)
THEOREM ServerTypeCorrect == IsFiniteSet(Conn) /\ Spec => []TypeOK
<1> SUFFICES ASSUME IsFiniteSet(Conn) PROVE Spec => []TypeOK
  BY Zenon
<1>1. ServerInv /\ LimitInv => TypeOK
  <2> SUFFICES ASSUME ServerInv, LimitInv PROVE TypeOK
    BY Zenon
  <2>1. Served(phase) \subseteq Conn
    BY Zenon DEF Served
  <2>2. Cardinality(Served(phase)) <= Cardinality(Conn) /\ Cardinality(Conn) \in Nat
    BY <2>1, FS_Subset, FS_CardinalityType, Zenon
  <2>3. activeConns \in 0..Cardinality(Conn)
    BY <2>2, FS_CardinalityType DEF LimitInv
  <2> QED BY <2>3, Zenon DEF ServerInv, LimitInv, KeyInv, KeyTypeOK, TypeOK
<1> QED BY <1>1, LimitInvariant, ServerInvariant, PTL

(* With a limit of one, only the open connection runs a command.           *)
LEMMA OneRuns ==
  ASSUME MaxConns = 1, LimitInv, ServerInv, NEW c \in Conn, phase[c] = "open"
  PROVE  Alone(c)
<1> SUFFICES ASSUME NEW d \in Conn \ {c}, phase[d] = "open" PROVE FALSE
  BY Zenon DEF Alone, ServerInv
<1>1. /\ IsFiniteSet({c}) /\ Cardinality({c}) = 1 /\ d \notin {c}
      /\ {c} \cup {d} \subseteq Served(phase)
  BY FS_Singleton, Zenon DEF Served
<1>2. Cardinality({c} \cup {d}) = 2
  BY <1>1, FS_AddElement
<1>3. Cardinality({c} \cup {d}) <= Cardinality(Served(phase)) /\ Cardinality(Served(phase)) \in Nat
  BY <1>1, FS_Subset, FS_CardinalityType, Zenon DEF LimitInv
<1> QED BY <1>2, <1>3 DEF LimitInv

LEMMA SoleNextPreserves == SoleInv /\ ServerInv /\ LimitInv /\ [Next]_vars => SoleInv'
<1> SUFFICES ASSUME SoleInv, ServerInv, LimitInv, [Next]_vars, MaxConns = 1, faults' = 0
             PROVE  StableInv'
  BY Zenon DEF SoleInv
<1>1. KeyInv /\ faults \in Nat
  BY KeyspaceAssumption DEF ServerInv, KeyInv
<1>2. faults = 0
  BY <1>1, FaultsGrow
<1>3. StableInv
  BY <1>2, Zenon DEF SoleInv
<1>4. CASE UNCHANGED keyVars
  BY <1>3, <1>4, QuietStable, Zenon
<1>5. ASSUME NEW c \in Conn, Keys(c)
      PROVE  StableInv'
  <2>1. job[c].pc # "idle"
    BY <1>5, Zenon DEF Keys, CommandStep, LoadIndex, Infer, Scan, Read, Put, PutFails, Tag, Untag,
       HdelChildren, FlushPath, FlushIndex, Refused
  <2>2. Alone(c)
    BY <2>1, OneRuns, Zenon DEF ServerInv
  <2> QED BY <1>1, <1>2, <1>3, <1>5, <2>2, CommandStepStable DEF Keys
<1>6. ASSUME NEW c \in Conn, NEW m \in Command, Run(c, m)
      PROVE  StableInv'
  BY <1>1, <1>3, <1>6, OneRuns, BeginStable, Zenon DEF Run, Waiting
<1>7. ASSUME NEW c \in Conn, ExecNext(c)
      PROVE  StableInv'
  <2>1. Head(todo[c]) \in Command
    <3>1. todo[c] \in Seq(Command) /\ todo[c] # <<>>
      BY <1>7, Zenon DEF ExecNext, ServerInv
    <3> QED BY <3>1
  <2> QED BY <1>1, <1>3, <1>7, <2>1, OneRuns, BeginStable, Zenon DEF ExecNext
<1>8. ASSUME NEW p \in Path, Vanish(p)
      PROVE  StableInv'
  BY <1>1, <1>3, <1>8, VanishStable, Zenon
<1>9. ASSUME NEW p \in Fed, Refresh(p)
      PROVE  StableInv'
  BY <1>1, <1>3, <1>9, RefreshStable, Zenon
<1> QED BY <1>4, <1>5, <1>6, <1>7, <1>8, <1>9, Zenon DEF Next, vars, Accept, Admit, Count, Spawn, HangUp, Leave, Move, Multi, Discard,
       Exec, Queue, Close, CloseReturns

(* With one connection at a time and no append failed, no command but      *)
(* SETEX, and HSET on a field, replaces a live value by one of another     *)
(* type, except where the database's values come in: from its check of the *)
(* index to its append, through expiry and eviction of the very value it   *)
(* has checked, and removals from the record it shares with another key, a *)
(* handler's notion of the key's type stays the store's (assertKeyType,    *)
(* keyTypeOf, setKeyType).                                                 *)
THEOREM TypesStable == Spec => TypeStable
<1> DEFINE A == \A p \in Path \ Fed :
                  /\ MaxConns = 1 /\ faults' = 0 /\ Live(p) /\ store[p].n > 0
                  /\ Live(p)' /\ store'[p].n > 0 /\ store'[p].type # store[p].type
                  => \E c \in Conn : /\ job[c].pc = "put" /\ Cmd(c).path = p
                                     /\ Cmd(c).op \in {"setex", "hset"}
<1>1. Spec => []SoleInv
  BY SoleInitially, SoleNextPreserves, ServerInvariant, LimitInvariant, PTL DEF Spec
<1>2. SoleInv /\ ServerInv /\ [Next]_vars => A
  BY OnlySetexHset, Zenon DEF Solid
<1>3. SoleInv /\ ServerInv /\ [Next]_vars => [A]_vars
  BY <1>2
<1> QED BY <1>1, <1>3, ServerInvariant, PTL DEF Spec, TypeStable
=============================================================================
