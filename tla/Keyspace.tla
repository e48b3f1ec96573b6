------------------------------ MODULE Keyspace ------------------------------
(***************************************************************************)
(* The commands of the RESP3 server that change the keyspace               *)
(* (internal/protocol/resp3/server.go, extended.go), with its type index   *)
(* keyTypes.  A handler is a sequence of single accesses to the store and  *)
(* to the index: nothing is locked in between, and each access is a step.  *)
(* A command on several keys or fields is as many commands.                *)
(*                                                                         *)
(* A value is its type, its number of elements and whether it has a        *)
(* deadline; a deleted key holds a tombstone, of type "null".  Hashes have *)
(* no value of their own: field f of key k is the string at path k:f, and  *)
(* any flat key of that form is a path below k just as well.  No string    *)
(* holds a zero byte, so that only a set has the bytes of a set, by which  *)
(* values are interned.                                                    *)
(***************************************************************************)
EXTENDS Naturals, FiniteSets, TLC

CONSTANTS
  Path,      \* keys and hash fields
  Parent,    \* Parent[p]: the key p is a field of, or Absent
  Fed,       \* the paths that are columns of the database
  Command,   \* the commands clients send
  Conn,      \* connections, a goroutine each
  MaxElem,   \* bound: elements of a value are counted up to here
  MaxFaults, \* bound: failed appends
  Absent     \* no entry, no parent

Type == {"string", "list", "stream", "set", "zset"}

(* Lists and streams are arrays; an array with elements of both is mixed.  *)
Array == {"list", "stream", "mixed"}

ASSUME KeyspaceAssumption ==
  /\ Parent \in [Path -> Path \cup {Absent}]
  /\ Fed \subseteq Path
  /\ MaxElem \in Nat \ {0}
  /\ MaxFaults \in Nat
  /\ \A m \in Command :
       /\ m.op \in {"set", "add", "take", "setnx", "setex", "expire", "persist",
                    "del", "hset", "hdel", "flush"}
       /\ m.path \in Path
       /\ m.type \in Type \cup {"hash"}
       /\ m.op \in {"hset", "hdel"} => m.type = "hash" /\ Parent[m.path] # Absent
       /\ m.op = "set" => m.type = "string"

VARIABLES
  store,     \* the current value of every path, or Absent
  keyTypes,  \* the type index
  job,       \* the command each connection's goroutine is running
  faults     \* failed appends so far

keyVars == <<store, keyTypes, job, faults>>

Value == [type : Type \cup {"mixed", "null"}, n : 0..MaxElem, ttl : BOOLEAN]

Tombstone == [type |-> "null", n |-> 0, ttl |-> FALSE]

(* rest: paths FLUSHDB has yet to bury; fair: history, whether a refused   *)
(* command met a value of another type.                                    *)
Job == [pc : {"idle", "index", "infer", "scan", "read", "put", "tag", "untag",
              "children", "flush", "refused"},
        cmd : Command \cup {Absent}, val : Value \cup {Absent},
        rest : SUBSET Path, fair : BOOLEAN]

Idle == [pc |-> "idle", cmd |-> Absent, val |-> Absent, rest |-> {}, fair |-> TRUE]

KeyTypeOK ==
  /\ store \in [Path -> Value \cup {Absent}]
  /\ keyTypes \in [Path -> Type \cup {"hash", "none"}]
  /\ job \in [Conn -> Job]
  /\ faults \in 0..MaxFaults

KeyInit ==
  /\ store = [p \in Path |-> Absent]
  /\ keyTypes = [p \in Path |-> "none"]
  /\ job = [c \in Conn |-> Idle]
  /\ faults = 0

-----------------------------------------------------------------------------
(* Helpers.                                                                *)

Resident(p) == store[p] # Absent

(* curValue finds a value: not missing, expired or a tombstone.            *)
Live(p) == Resident(p) /\ store[p].type # "null"

Below(k) == {p \in Path : Parent[p] = k}

Cmd(c) == job[c].cmd

(* The key whose type a command asserts, and the type it wants.            *)
KeyOf(m) == IF m.op \in {"hset", "hdel"} THEN Parent[m.path] ELSE m.path

Goto(c, pc) == job' = [job EXCEPT ![c].pc = pc]

Return(c) == job' = [job EXCEPT ![c] = Idle]

(* Writing v, once it is computed.                                         *)
Write(c, v) == job' = [job EXCEPT ![c].pc = "put", ![c].val = v]

(* A reply of WRONGTYPE is fair if the key holds a live value of another   *)
(* type, or has something live below it and is no hash to the command.     *)
Fair(c) ==
  LET k == KeyOf(Cmd(c))
  IN  \/ Live(k) /\ store[k].type # Cmd(c).type
      \/ Cmd(c).type # "hash" /\ \E p \in Below(k) : Live(p)

Refuse(c) == job' = [job EXCEPT ![c].pc = "refused", ![c].fair = Fair(c)]

(* Where a handler starts: the ones that assert a type look at the index   *)
(* first, ZREM does not, SETEX writes outright.                            *)
Start(m) ==
  CASE m.op \in {"set", "add", "hset"} -> "index"
    [] m.op = "take" -> IF m.type = "zset" THEN "read" ELSE "index"
    [] m.op \in {"setnx", "expire", "persist", "del", "hdel"} -> "read"
    [] m.op = "setex" -> "put"
    [] m.op = "flush" -> "flush"

(* The handler is entered; SETEX knows its value, FLUSHDB its paths.       *)
Begin(c, m) ==
  job' = [job EXCEPT ![c] =
            [Idle EXCEPT !.pc = Start(m), !.cmd = m,
                         !.val = IF m.op = "setex"
                                 THEN [type |-> "string", n |-> 1, ttl |-> TRUE] ELSE Absent,
                         !.rest = IF m.op = "flush" THEN {p \in Path : Resident(p)} ELSE {}]]

-----------------------------------------------------------------------------
(* assertKeyType: keyTypeOf, and a comparison.  HSET and ZADD look the     *)
(* type up again before they refuse; the second answer is the first, which *)
(* the index now holds.                                                    *)

(* What follows: SET has its value, HSET its field, and HDEL, at its end,  *)
(* only asks whether the key is a hash.                                    *)
Proceed(c, t) ==
  CASE Cmd(c).op \in {"set", "hset"} ->
         Write(c, [type |-> "string", n |-> 1, ttl |-> FALSE])
    [] Cmd(c).op = "hdel" -> IF t = "hash" THEN Goto(c, "children") ELSE Return(c)
    [] OTHER -> Goto(c, "read")

(* A mutant of Asserted: the assertion is gone.                            *)
NeverRefused(c, t) == Proceed(c, t)

Asserted(c, t) ==
  IF Cmd(c).op # "hdel" /\ t \notin {"none", Cmd(c).type} THEN Refuse(c) ELSE Proceed(c, t)

LoadIndex(c) ==
  /\ job[c].pc = "index"
  /\ LET t == keyTypes[KeyOf(Cmd(c))]
     IN  IF t = "none" THEN Goto(c, "infer") ELSE Asserted(c, t)
  /\ UNCHANGED <<store, keyTypes, faults>>

(* The type of the stored value, which re-populates the index: of an array *)
(* that of its first element.                                              *)
Shapes(v) == IF v.type = "mixed" THEN {"list", "stream"} ELSE {v.type}

Infer(c) ==
  /\ job[c].pc = "infer"
  /\ LET k == KeyOf(Cmd(c))
     IN  IF Live(k)
         THEN \E t \in Shapes(store[k]) :
                /\ keyTypes' = [keyTypes EXCEPT ![k] = t]
                /\ Asserted(c, t)
         ELSE /\ Goto(c, "scan")
              /\ UNCHANGED keyTypes
  /\ UNCHANGED <<store, faults>>

(* No value: a hash if FrontierPaths has anything below the key.           *)
Scan(c) ==
  /\ job[c].pc = "scan"
  /\ LET k == KeyOf(Cmd(c))
         t == IF \E p \in Below(k) : Resident(p) THEN "hash" ELSE "none"
     IN  /\ keyTypes' = [keyTypes EXCEPT ![k] = IF t = "hash" THEN "hash" ELSE @]
         /\ Asserted(c, t)
  /\ UNCHANGED <<store, faults>>

-----------------------------------------------------------------------------
(* The accesses of the handlers.                                           *)

(* The value a command's path holds, if it has one.                        *)
Held(c) == store[Cmd(c).path]

Handles(c, op, type) == Cmd(c).op = op /\ Cmd(c).type = type

(* The shape of the value is not the command's; an array is an array.      *)
Clashes(c) ==
  /\ Live(Cmd(c).path)
  /\ Held(c).type # Cmd(c).type
  /\ ~(Held(c).type \in Array /\ Cmd(c).type \in Array)

Size(c) == IF Live(Cmd(c).path) THEN Held(c).n ELSE 0

(* n elements of the command's type are written back, without a deadline;  *)
(* no element at all is a tombstone.                                       *)
Left(c, n) == IF n = 0 THEN Tombstone ELSE [type |-> Cmd(c).type, n |-> n, ttl |-> FALSE]

WriteBack(c, n) == Write(c, Left(c, n))

(* INCR, APPEND and the like; INCR stops at a string that is no number.    *)
ReadString(c) ==
  /\ Handles(c, "add", "string")
  /\ \/ Clashes(c) /\ Refuse(c)
     \/ ~Clashes(c) /\ Live(Cmd(c).path) /\ Return(c)
     \/ ~Clashes(c) /\ WriteBack(c, 1)
  /\ UNCHANGED store

(* n elements in the array, of the command's type if all of them are.      *)
WriteArray(c, types, n) ==
  IF n = 0 THEN Write(c, Tombstone)
  ELSE \E t \in types : Write(c, [type |-> t, n |-> n, ttl |-> FALSE])

Joined(c) ==
  {IF Live(Cmd(c).path) /\ Held(c).type # Cmd(c).type THEN "mixed" ELSE Cmd(c).type}

(* LPUSH, RPUSH.                                                           *)
ReadToPush(c) ==
  /\ Handles(c, "add", "list")
  /\ IF Clashes(c) THEN Refuse(c)
     ELSE \E n \in 1..MaxElem : (n > Size(c) \/ n = MaxElem) /\ WriteArray(c, Joined(c), n)
  /\ UNCHANGED store

(* XADD: one entry, unless its ID is no ID.                                *)
ReadToXadd(c) ==
  /\ Handles(c, "add", "stream")
  /\ \/ Return(c)
     \/ Clashes(c) /\ Refuse(c)
     \/ ~Clashes(c) /\ WriteArray(c, Joined(c), IF Size(c) = MaxElem THEN MaxElem ELSE Size(c) + 1)
  /\ UNCHANGED store

(* LPOP, RPOP.                                                             *)
ReadToPop(c) ==
  /\ Handles(c, "take", "list")
  /\ IF ~Live(Cmd(c).path) THEN Return(c)
     ELSE IF Clashes(c) THEN Refuse(c)
     ELSE \E n \in 0..(Size(c) - 1) :
            WriteArray(c, IF Held(c).type = "mixed" THEN Array ELSE {Held(c).type}, n)
  /\ UNCHANGED store

(* SADD copies the record and adds to the copy; members may be there.      *)
ReadToSadd(c) ==
  /\ Handles(c, "add", "set")
  /\ IF Clashes(c) THEN Refuse(c)
     ELSE \E n \in 1..MaxElem : n >= Size(c) /\ WriteBack(c, n)
  /\ UNCHANGED store

(* So does ZADD, which takes an empty record for its own and stops at a    *)
(* score that is no number.                                                *)
ReadToZadd(c) ==
  /\ Handles(c, "add", "zset")
  /\ IF Clashes(c) /\ ~(Held(c).type = "set" /\ Held(c).n = 0) THEN Refuse(c)
     ELSE \/ Return(c)
          \/ \E n \in 1..MaxElem : n >= Size(c) /\ WriteBack(c, n)
  /\ UNCHANGED store

(* A record that loses elements; an empty one passes for a set.            *)
Thinned(v, n) == [v EXCEPT !.n = n, !.type = IF n = 0 THEN "set" ELSE @]

(* Equal contents may be one record: NewEConst returns the constant it has *)
(* interned, whose map is shared, and EXPIRE writes the map it has read.   *)
MayShare(v, u) == v # Absent /\ v.type = u.type /\ v.n = u.n

(* SREM and ZREM delete from the stored record itself, n elements are      *)
(* left: with the path, the paths P and the handlers D lose them that hold *)
(* the same record.                                                        *)
Shrink(c, n) ==
  \E P \in SUBSET {p \in Path : MayShare(store[p], Held(c))},
     D \in SUBSET {d \in Conn \ {c} : MayShare(job[d].val, Held(c))} :
    /\ store' = [p \in Path |-> IF p \in P \cup {Cmd(c).path} THEN Thinned(store[p], n)
                                ELSE store[p]]
    /\ job' = [d \in Conn |-> IF d \in D THEN [job[d] EXCEPT !.val = Thinned(@, n)]
                              ELSE IF d = c THEN [job[c] EXCEPT !.pc = "put", !.val = Left(c, n)]
                              ELSE job[d]]

RemoveFrom(c) ==
  \/ ~Live(Cmd(c).path) /\ Return(c) /\ UNCHANGED store
  \/ Clashes(c) /\ Refuse(c) /\ UNCHANGED store
  \/ /\ Live(Cmd(c).path) /\ ~Clashes(c)
     /\ \E n \in 0..Size(c) : Shrink(c, n)

ReadToSrem(c) == Handles(c, "take", "set") /\ RemoveFrom(c)

ReadToZrem(c) == Handles(c, "take", "zset") /\ RemoveFrom(c)

ReadToSetnx(c) ==
  /\ Cmd(c).op = "setnx"
  /\ IF Live(Cmd(c).path) THEN Return(c)
     ELSE Write(c, [type |-> "string", n |-> 1, ttl |-> FALSE])
  /\ UNCHANGED store

(* EXPIRE, PEXPIRE: the value again, with a deadline.                      *)
ReadToExpire(c) ==
  /\ Cmd(c).op = "expire"
  /\ IF Live(Cmd(c).path) THEN Write(c, [Held(c) EXCEPT !.ttl = TRUE]) ELSE Return(c)
  /\ UNCHANGED store

ReadToPersist(c) ==
  /\ Cmd(c).op = "persist"
  /\ IF Live(Cmd(c).path) /\ Held(c).ttl THEN Write(c, [Held(c) EXCEPT !.ttl = FALSE])
     ELSE Return(c)
  /\ UNCHANGED store

(* DEL buries what is resident, a tombstone included.                      *)
ReadToDel(c) ==
  /\ Cmd(c).op = "del"
  /\ IF Resident(Cmd(c).path) THEN Write(c, Tombstone) ELSE Return(c)
  /\ UNCHANGED store

(* HDEL does so, and then looks at the key.                                *)
ReadToHdel(c) ==
  /\ Cmd(c).op = "hdel"
  /\ IF Resident(Cmd(c).path) THEN Write(c, Tombstone) ELSE Goto(c, "index")
  /\ UNCHANGED store

Read(c) ==
  /\ job[c].pc = "read"
  /\ \/ ReadString(c) \/ ReadToPush(c) \/ ReadToXadd(c) \/ ReadToPop(c)
     \/ ReadToSadd(c) \/ ReadToSrem(c) \/ ReadToZadd(c) \/ ReadToZrem(c)
     \/ ReadToSetnx(c) \/ ReadToExpire(c) \/ ReadToPersist(c)
     \/ ReadToDel(c) \/ ReadToHdel(c)
  /\ UNCHANGED <<keyTypes, faults>>

(* What a handler does after its append.                                   *)
AfterPut(c) ==
  LET m == Cmd(c)
  IN  CASE m.op \in {"set", "add", "setnx", "setex", "hset"} -> Goto(c, "tag")
        [] m.op \in {"take", "del"} /\ job[c].val = Tombstone -> Goto(c, "untag")
        [] m.op = "hdel" -> Goto(c, "index")
        [] OTHER -> Return(c)

(* Guard 2 of AppendAtom drops a value whose bytes are those of the one    *)
(* there, when neither has a deadline: an array of "ab" has the bytes of   *)
(* one of "a" and "b", and of a string.                                    *)
MayPassFor(v, u) == v.type # "null" /\ u.type # "null" /\ ~v.ttl /\ ~u.ttl

Put(c) ==
  /\ job[c].pc = "put"
  /\ \/ store' = [store EXCEPT ![Cmd(c).path] = job[c].val]
     \/ Live(Cmd(c).path) /\ MayPassFor(job[c].val, Held(c)) /\ UNCHANGED store
  /\ AfterPut(c)
  /\ UNCHANGED <<keyTypes, faults>>

(* AppendAtom returns an error: SET, HSET, EXPIRE and DEL stop; GETSET,     *)
(* HMSET, PEXPIRE and all the others drop it and go on.                    *)
PutFails(c) ==
  /\ job[c].pc = "put"
  /\ faults < MaxFaults
  /\ faults' = faults + 1
  /\ \/ Cmd(c).op \in {"set", "hset", "expire", "del"} /\ Return(c)
     \/ Cmd(c).op # "del" /\ AfterPut(c)
  /\ UNCHANGED <<store, keyTypes>>

(* setKeyType and delKeyType.                                              *)
Tag(c) ==
  /\ job[c].pc = "tag"
  /\ keyTypes' = [keyTypes EXCEPT ![KeyOf(Cmd(c))] =
                    IF Cmd(c).op \in {"setnx", "setex"} THEN "string" ELSE Cmd(c).type]
  /\ Return(c)
  /\ UNCHANGED <<store, faults>>

Untag(c) ==
  /\ job[c].pc = "untag"
  /\ keyTypes' = [keyTypes EXCEPT ![KeyOf(Cmd(c))] = "none"]
  /\ Return(c)
  /\ UNCHANGED <<store, faults>>

(* The end of HDEL: the type is dropped if no field below is live.        *)
HdelChildren(c) ==
  /\ job[c].pc = "children"
  /\ IF \E p \in Below(KeyOf(Cmd(c))) : Live(p) THEN Return(c) ELSE Goto(c, "untag")
  /\ UNCHANGED <<store, keyTypes, faults>>

(* FLUSHDB: a tombstone per path, failed appends or not ...                *)
FlushPath(c) ==
  /\ job[c].pc = "flush"
  /\ \E p \in job[c].rest :
       /\ job' = [job EXCEPT ![c].rest = @ \ {p}]
       /\ \/ store' = [store EXCEPT ![p] = Tombstone] /\ UNCHANGED faults
          \/ faults < MaxFaults /\ faults' = faults + 1 /\ UNCHANGED store
  /\ UNCHANGED keyTypes

(* ... and the index is cleared.                                           *)
FlushIndex(c) ==
  /\ job[c].pc = "flush"
  /\ job[c].rest = {}
  /\ keyTypes' = [p \in Path |-> "none"]
  /\ Return(c)
  /\ UNCHANGED <<store, faults>>

(* The WRONGTYPE reply is sent.                                            *)
Refused(c) ==
  /\ job[c].pc = "refused"
  /\ Return(c)
  /\ UNCHANGED <<store, keyTypes, faults>>

CommandStep(c) ==
  \/ LoadIndex(c) \/ Infer(c) \/ Scan(c)
  \/ Read(c) \/ Put(c) \/ PutFails(c)
  \/ Tag(c) \/ Untag(c)
  \/ HdelChildren(c)
  \/ FlushPath(c) \/ FlushIndex(c)
  \/ Refused(c)

(* Expiry and eviction: the entry goes, the index is not told.             *)
Vanish(p) ==
  /\ Resident(p)
  /\ store' = [store EXCEPT ![p] = Absent]
  /\ UNCHANGED <<keyTypes, job, faults>>

(* The database's value comes in, as a string or a tombstone, and the      *)
(* index is not told: runCDCApplier, and GetCurrent of the write-through   *)
(* store, which reads a path from the database on a miss and verifies an   *)
(* old one.  A deadline is kept.                                           *)
Refresh(p) ==
  /\ \/ \E ttl \in {FALSE, Live(p) /\ store[p].ttl} :
          store' = [store EXCEPT ![p] = [type |-> "string", n |-> 1, ttl |-> ttl]]
     \/ store' = [store EXCEPT ![p] = Tombstone]
  /\ UNCHANGED <<keyTypes, job, faults>>
=============================================================================
