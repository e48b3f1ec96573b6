------------------------- MODULE WriteThroughProofs -------------------------
(***************************************************************************)
(* As long as the process lives a reconnect misses no change of the        *)
(* database but those an overshooting position covers, for any paths,      *)
(* values, clients and transactions, any layout of the log, any capacity   *)
(* of the events channel and any number of lost connections.               *)
(***************************************************************************)
EXTENDS WriteThrough, TLAPS

(* What the argument needs to know of the types.                           *)
IsJob(j) == "pc" \in DOMAIN j

CdcType ==
  /\ wal \in Seq(Change) /\ Len(wal) <= MaxWal
  /\ acked \in 0..MaxWal /\ pos \in 0..MaxWal /\ lastLSN \in 0..MaxWal \cup {Absent}
  /\ conn \in BOOLEAN /\ mid \in BOOLEAN /\ reborn \in BOOLEAN
  /\ mid => conn /\ pos < Len(wal)
  /\ events \in Seq(Event)
  /\ evt \in Event \cup {Absent}
  /\ job = [w \in Proc |-> job[w]]
  /\ IsJob(job[Applier])
  /\ evt # Absent => job[Applier].pc # "idle"

Covered(i) == Handled(i) \/ Overshot(i)

(* Whatever a position is past has been received, or overshot: the stream, *)
(* the position a reconnect asks for and the flushed one, until Close (it  *)
(* may confirm an event that is then dropped).                             *)
Streamed ==
  /\ conn => \A i \in 1..pos : Covered(i)
  /\ conn /\ mid => Handled(pos + 1)
  /\ lastLSN # Absent => \A i \in 1..lastLSN : Covered(i)
  /\ ~stopped => \A i \in 1..acked : Covered(i)

CdcInv == CdcType /\ (~reborn => Streamed)

LEMMA CdcInitially == Init => CdcInv
<1> SUFFICES ASSUME Init PROVE CdcInv
  OBVIOUS
<1>1. job = [w \in Proc |-> Idle] /\ job[Applier] = Idle
  BY DEF Init, Proc
<1>2. IsJob(Idle)
  BY DEF IsJob, Idle
<1>3. events = <<>> /\ events \in Seq(Event) /\ Len(events) = 0
  BY DEF Init, ListenerInit
<1>4. wal \in Seq(Change) /\ Len(wal) <= MaxWal
  BY ListenerAssumption DEF Init, ListenerInit
<1>5. 0 \in 0..MaxWal
  BY ListenerAssumption
<1>6. CdcType
  BY <1>1, <1>2, <1>3, <1>4, <1>5, Zenon DEF Init, ListenerInit, CdcType
<1>7. Streamed
  BY DEF Init, ListenerInit, Streamed
<1> QED BY <1>6, <1>7 DEF CdcInv

(* Touching events changes none of their positions.                        *)
LEMMA TouchedFacts ==
  ASSUME NEW p, NEW v, NEW e \in Event
  PROVE  /\ Touched(e, p, v) \in Event
         /\ Touched(e, p, v).lsn = e.lsn
         /\ Touched(e, p, v) # Absent
BY WriteThroughAssumption, Zenon DEF Touched, Event

LEMMA PutFacts ==
  ASSUME events \in Seq(Event), NEW p, NEW v, Put(p, v)
  PROVE  /\ events' \in Seq(Event)
         /\ Len(events') = Len(events)
         /\ \A k \in 1..Len(events) : events'[k].lsn = events[k].lsn
<1>1. DOMAIN events = 1..Len(events) /\ \A k \in 1..Len(events) : events[k] \in Event
  OBVIOUS
<1>2. events' = [k \in 1..Len(events) |-> Touched(events[k], p, v)]
  BY <1>1 DEF Put
<1>3. \A k \in 1..Len(events) :
         Touched(events[k], p, v) \in Event /\ Touched(events[k], p, v).lsn = events[k].lsn
  BY <1>1, TouchedFacts
<1>4. events' \in [1..Len(events) -> Event]
  BY <1>2, <1>3
<1>5. Len(events) \in Nat
  OBVIOUS
<1>6. events' \in Seq(Event) /\ Len(events') = Len(events)
  BY <1>4, <1>5
<1> QED BY <1>2, <1>3, <1>6

(* What is handled stays so; the positions alone matter.                   *)
LEMMA StillHandled ==
  ASSUME done \subseteq done', evt \in Event \cup {Absent}, events \in Seq(Event),
         \/ evt' # Absent /\ evt # Absent /\ evt'.lsn = evt.lsn
         \/ evt = Absent
         \/ evt.lsn \in done',
         Len(events') = Len(events),
         \A k \in 1..Len(events) : events'[k].lsn = events[k].lsn
  PROVE  \A i : Handled(i) => Handled(i)'
BY DEF Handled

LEMMA StillStreamed ==
  ASSUME Streamed, UNCHANGED <<acked, conn, pos, mid, lastLSN, stopped>>,
         \A i : Handled(i) => Handled(i)'
  PROVE  Streamed'
<1>1. \A i : Covered(i) => Covered(i)'
  BY DEF Covered, Overshot
<1> QED BY <1>1 DEF Streamed

(* Steps that leave the listener, the channel and the applier's event.     *)
Quiet ==
  /\ UNCHANGED <<acked, conn, pos, mid, lastLSN, stopped, done, reborn>>
  /\ wal' \in Seq(Change) /\ Len(wal') <= MaxWal /\ Len(wal') >= Len(wal)

(* The applier's goroutine stays where it is, or moves, but not to rest.   *)
Busy ==
  /\ job' = [w \in Proc |-> job'[w]]
  /\ IsJob(job'[Applier])
  /\ job'[Applier].pc = "idle" => job[Applier].pc = "idle"

LEMMA QuietKeeps ==
  ASSUME CdcInv, Quiet, Busy, UNCHANGED <<events, evt>>
  PROVE  CdcInv'
<1>1. CdcType'
  <2>1. mid' => conn' /\ pos' < Len(wal')
    BY DEF Quiet, CdcInv, CdcType
  <2> QED BY <2>1, Zenon DEF CdcInv, CdcType, Quiet, Busy
<1>2. \A i : Handled(i) => Handled(i)'
  BY DEF Quiet, Handled
<1>3. ~reborn => Streamed'
  BY <1>2, StillStreamed DEF Quiet, CdcInv
<1> QED BY <1>1, <1>3 DEF CdcInv, Quiet

LEMMA TouchKeeps ==
  ASSUME CdcInv, Quiet, Busy, NEW p, NEW v, Put(p, v), evt' = Touched(evt, p, v)
  PROVE  CdcInv'
<1>1. /\ events' \in Seq(Event)
      /\ Len(events') = Len(events)
      /\ \A k \in 1..Len(events) : events'[k].lsn = events[k].lsn
  BY PutFacts DEF CdcInv, CdcType
<1>2. /\ evt' \in Event \cup {Absent}
      /\ evt' # Absent <=> evt # Absent
      /\ evt # Absent => evt'.lsn = evt.lsn
  <2>1. CASE evt = Absent
    BY <2>1 DEF Touched
  <2>2. CASE evt # Absent
    BY <2>2, TouchedFacts DEF CdcInv, CdcType
  <2> QED BY <2>1, <2>2
<1>3. CdcType'
  <2>1. mid' => conn' /\ pos' < Len(wal')
    BY DEF Quiet, CdcInv, CdcType
  <2> QED BY <1>1, <1>2, <2>1, Zenon DEF CdcInv, CdcType, Quiet, Busy
<1>4. \A i : Handled(i) => Handled(i)'
  BY <1>1, <1>2, StillHandled DEF CdcInv, CdcType, Quiet
<1>5. ~reborn => Streamed'
  BY <1>4, StillStreamed DEF Quiet, CdcInv
<1> QED BY <1>3, <1>5 DEF CdcInv, Quiet

(* The listener.                                                           *)
LEMMA MaxOfTwo ==
  ASSUME NEW a \in Nat, NEW b \in Nat
  PROVE  Max({a, b}) \in {a, b}
<1>1. \E m \in {a, b} : \A n \in {a, b} : m >= n
  OBVIOUS
<1> QED BY <1>1 DEF Max

LEMMA ListenKeeps ==
  ASSUME CdcInv, Listen
  PROVE  CdcInv'
<1> USE DEF CdcInv
<1>1. UNCHANGED <<job, evt, done, reborn>> /\ ListenerNext
  BY DEF Listen, cacheVars
<1>2. CASE Connect
  <2>1. /\ lastLSN' \in 0..MaxWal \cup {Absent} /\ pos' \in 0..MaxWal
        /\ lastLSN' = lastLSN \/ lastLSN' = Absent \/ lastLSN' <= acked
        /\ pos' = acked \/ (lastLSN' # Absent /\ pos' = lastLSN')
    <3>1. acked \in 0..MaxWal /\ lastLSN \in 0..MaxWal \cup {Absent}
      BY DEF CdcType
    <3>2. CASE lastLSN = Absent
      <4>1. lastLSN' \in 0..acked \cup {Absent}
        BY <1>2, <3>2, Zenon DEF Connect
      <4>2. CASE lastLSN' = Absent
        BY <1>2, <3>1, <4>2, Zenon DEF Connect
      <4>3. CASE lastLSN' \in 0..acked
        <5>1. lastLSN' # Absent /\ lastLSN' \in 0..MaxWal /\ lastLSN' <= acked
          BY <3>1, <4>3, ListenerAssumption
        <5>2. pos' = Max({lastLSN', acked})
          BY <1>2, <5>1, Zenon DEF Connect
        <5> QED BY <3>1, <5>1, <5>2, MaxOfTwo
      <4> QED BY <4>1, <4>2, <4>3
    <3>3. CASE lastLSN # Absent
      <4>1. lastLSN' = lastLSN /\ pos' = Max({lastLSN', acked})
        BY <1>2, <3>3, Zenon DEF Connect
      <4> QED BY <3>1, <3>3, <4>1, MaxOfTwo
    <3> QED BY <3>2, <3>3
  <2>2. ~stopped /\ ~mid /\ UNCHANGED <<wal, acked, events, stopped, mid>> /\ conn' = TRUE
    BY <1>2 DEF Connect, Listening, CdcType
  <2>3. CdcType'
    BY <1>1, <2>1, <2>2, Zenon DEF CdcType
  <2>4. ASSUME ~reborn PROVE Streamed'
    <3>1. \A i : Covered(i) => Covered(i)'
      BY <1>1, <2>2 DEF Covered, Overshot, Handled
    <3>2. \A i \in 1..acked : Covered(i)
      BY <2>2, <2>4 DEF Streamed
    <3>3. lastLSN' # Absent => \A i \in 1..lastLSN' : Covered(i)
      <4>1. CASE lastLSN' = lastLSN
        BY <2>4, <4>1 DEF Streamed
      <4>2. CASE lastLSN' # Absent /\ lastLSN' <= acked
        <5>1. lastLSN' \in Nat /\ acked \in Nat
          BY <2>1, <4>2 DEF CdcType
        <5> QED BY <3>2, <4>2, <5>1
      <4> QED BY <2>1, <4>1, <4>2
    <3>4. \A i \in 1..pos' : Covered(i)
      BY <2>1, <3>2, <3>3
    <3> QED BY <2>2, <3>1, <3>2, <3>3, <3>4 DEF Streamed
  <2> QED BY <1>1, <2>3, <2>4
<1>3. CASE Disconnect
  <2>1. /\ conn' = FALSE /\ mid' = FALSE /\ pos' = 0
        /\ UNCHANGED <<wal, acked, events, stopped, lastLSN>>
    BY <1>3 DEF Disconnect, Listening
  <2>2. CdcType'
    <3>1. pos' \in 0..MaxWal
      BY <2>1, ListenerAssumption
    <3> QED BY <1>1, <2>1, <3>1, Zenon DEF CdcType
  <2>3. \A i : Covered(i) => Covered(i)'
    BY <1>1, <2>1 DEF Covered, Overshot, Handled
  <2>4. ~reborn => Streamed'
    BY <2>1, <2>3 DEF Streamed
  <2> QED BY <1>1, <2>2, <2>4
<1>4. CASE Receive
  <2> DEFINE e == [path |-> wal[pos + 1].path, val |-> wal[pos + 1].val,
                   lsn |-> pos + 1, late |-> FALSE]
  <2>1. /\ events' = Append(events, e) /\ pos < Len(wal) /\ lastLSN' = Reach[pos + 1]
        /\ UNCHANGED <<wal, acked, conn, pos, stopped>> /\ conn /\ mid' = TRUE
    BY <1>4 DEF Receive
  <2>2. Len(wal) \in Nat /\ pos \in Nat /\ MaxWal \in Nat /\ Len(wal) <= MaxWal
    BY ListenerAssumption DEF CdcType
  <2>3. wal[pos + 1] \in Change /\ pos + 1 \in 1..MaxWal
    BY <2>1, <2>2 DEF CdcType
  <2>4. e \in Event /\ e.lsn = pos + 1
    BY <2>3 DEF Event, Change
  <2>5. Reach[pos + 1] \in 0..MaxWal
    BY <2>3, ListenerAssumption
  <2> HIDE DEF e
  <2>6. /\ events' \in Seq(Event) /\ Len(events') = Len(events) + 1 /\ Len(events) \in Nat
        /\ \A k \in 1..Len(events) : events'[k] = events[k]
        /\ events'[Len(events) + 1] = e
    BY <2>1, <2>4 DEF CdcType
  <2>7. CdcType'
    BY <1>1, <2>1, <2>5, <2>6, Zenon DEF CdcType
  <2>8. ASSUME ~reborn PROVE Streamed'
    <3>1. \A i : Handled(i) => Handled(i)'
      BY <1>1, <2>6 DEF Handled
    <3>2. Handled(pos + 1)'
      BY <1>1, <2>1, <2>4, <2>6 DEF Handled
    <3>3. \A i : Covered(i) => Covered(i)'
      BY <3>1 DEF Covered, Overshot
    <3>4. \A i \in 1..pos : Covered(i)'
      BY <2>1, <2>8, <3>3 DEF Streamed
    <3>5. ASSUME NEW i \in 1..Reach[pos + 1] PROVE Covered(i)'
      <4>1. CASE i \in 1..pos
        BY <3>4, <4>1
      <4>2. CASE i = pos + 1
        BY <2>1, <3>2, <4>2 DEF Covered
      <4>3. CASE i > pos + 1
        <5>1. pos + 1 \in 1..(i - 1) /\ Reach[pos + 1] >= i
          BY <2>2, <2>5, <4>3
        <5> QED BY <5>1, Zenon DEF Covered, Overshot
      <4> QED BY <2>2, <4>1, <4>2, <4>3
    <3>6. \A i \in 1..acked : ~stopped => Covered(i)'
      BY <2>8, <3>3 DEF Streamed
    <3> QED BY <2>1, <3>2, <3>4, <3>5, <3>6 DEF Streamed
  <2> QED BY <1>1, <2>7, <2>8
<1>5. CASE ReceiveCommit
  <2>1. /\ mid' = FALSE /\ UNCHANGED <<wal, acked, events, stopped, conn>> /\ conn /\ mid
        /\ pos' = pos + 1 /\ lastLSN' = IF pos + 2 \in Adjoining THEN pos + 2 ELSE pos + 1
    BY <1>5 DEF ReceiveCommit, Listening
  <2>2. pos \in Nat /\ pos + 1 \in 0..MaxWal /\ MaxWal \in Nat
    BY <2>1, ListenerAssumption DEF CdcType
  <2>3. lastLSN' \in 0..MaxWal
    BY <2>1, <2>2, ListenerAssumption
  <2>4. CdcType'
    BY <1>1, <2>1, <2>2, <2>3, Zenon DEF CdcType
  <2>5. ASSUME ~reborn PROVE Streamed'
    <3>1. \A i : Covered(i) => Covered(i)'
      BY <1>1, <2>1 DEF Covered, Overshot, Handled
    <3>2. Covered(pos + 1) /\ \A i \in 1..pos : Covered(i)
      BY <2>1, <2>5 DEF Streamed, Covered
    <3>3. \A i \in 1..(pos + 1) : Covered(i)
      BY <2>2, <3>2
    <3>4. \A i \in 1..lastLSN' : Covered(i)
      <4>1. CASE pos + 2 \in Adjoining
        <5>1. Covered(pos + 2) /\ lastLSN' = pos + 2
          BY <2>1, <4>1 DEF Covered, Overshot
        <5> QED BY <2>2, <3>3, <5>1
      <4>2. CASE pos + 2 \notin Adjoining
        BY <2>1, <3>3, <4>2
      <4> QED BY <4>1, <4>2
    <3>5. ~stopped => \A i \in 1..acked : Covered(i)
      BY <2>5 DEF Streamed
    <3> QED BY <2>1, <3>1, <3>3, <3>4, <3>5 DEF Streamed
  <2> QED BY <1>1, <2>4, <2>5
<1>6. CASE SendStatus
  <2>1. /\ UNCHANGED <<wal, conn, pos, mid, lastLSN, events, stopped>>
        /\ lastLSN # Absent /\ acked' \in {acked, lastLSN}
    BY <1>6 DEF SendStatus
  <2>2. CdcType'
    BY <1>1, <2>1, Zenon DEF CdcType
  <2>3. ASSUME ~reborn PROVE Streamed'
    <3>1. \A i : Handled(i) => Handled(i)'
      BY <1>1, <2>1 DEF Handled
    <3>2. \A i : Covered(i) => Covered(i)'
      BY <3>1 DEF Covered, Overshot
    <3>3. ~stopped => \A i \in 1..acked' : Covered(i)
      BY <2>1, <2>3 DEF Streamed
    <3> QED BY <2>1, <2>3, <3>1, <3>2, <3>3 DEF Streamed
  <2> QED BY <1>1, <2>2, <2>3
<1>7. CASE CloseListener
  <2>1. /\ acked' \in {acked} \cup (Received \ {Absent})
        /\ UNCHANGED <<wal, lastLSN, events>> /\ conn' = FALSE /\ mid' = FALSE /\ pos' = 0
        /\ stopped' = TRUE
    BY <1>7 DEF CloseListener
  <2>2. acked' \in 0..MaxWal
    <3>1. ASSUME conn, pos < Len(wal) PROVE Reach[pos + 1] \in 0..MaxWal
      <4>1. pos + 1 \in 1..MaxWal
        BY <3>1, ListenerAssumption DEF CdcType
      <4> QED BY <4>1, ListenerAssumption
    <3>2. Received \subseteq 0..MaxWal \cup {Absent}
      BY <3>1 DEF Received, CdcType
    <3> QED BY <2>1, <3>2 DEF CdcType
  <2>3. CdcType'
    <3>1. pos' \in 0..MaxWal
      BY <2>1, ListenerAssumption
    <3> QED BY <1>1, <2>1, <2>2, <3>1, Zenon DEF CdcType
  <2>4. \A i : Covered(i) => Covered(i)'
    BY <1>1, <2>1 DEF Covered, Overshot, Handled
  <2>5. ~reborn => Streamed'
    BY <2>1, <2>4 DEF Streamed
  <2> QED BY <1>1, <2>3, <2>5
<1> QED BY <1>1, <1>2, <1>3, <1>4, <1>5, <1>6, <1>7 DEF ListenerNext

(* The applier takes an event.                                             *)
LEMMA TakeKeeps ==
  ASSUME CdcInv, Take
  PROVE  CdcInv'
<1> USE DEF CdcInv
<1>1. /\ evt = Absent /\ events # <<>> /\ evt' = Head(events) /\ events' = Tail(events)
      /\ UNCHANGED <<wal, acked, conn, pos, mid, lastLSN, stopped, done, reborn>>
  BY DEF Take, CdcType
<1>2. /\ Len(events) \in Nat \ {0} /\ evt' = events[1] /\ evt' \in Event /\ evt' # Absent
      /\ events' \in Seq(Event) /\ Len(events') = Len(events) - 1
      /\ \A k \in 1..Len(events') : events'[k] = events[k + 1]
  BY <1>1, WriteThroughAssumption DEF CdcType
<1>3. job' = [w \in Proc |-> job'[w]] /\ IsJob(job'[Applier]) /\ job'[Applier].pc # "idle"
  <2>1. PICK l \in {"tomb", "look"} :
           job' = [job EXCEPT ![Applier] = [Idle EXCEPT !.pc = l, !.path = evt'.path]]
    BY Zenon DEF Take
  <2>2. job'[Applier] = [Idle EXCEPT !.pc = l, !.path = evt'.path]
    BY <2>1 DEF CdcType, Proc
  <2>3. IsJob(job'[Applier]) /\ job'[Applier].pc # "idle"
    <3>1. IsJob([Idle EXCEPT !.pc = l, !.path = evt'.path])
      BY DEF IsJob, Idle
    <3>2. [Idle EXCEPT !.pc = l, !.path = evt'.path].pc = l
      BY DEF Idle
    <3> QED BY <2>1, <2>2, <3>1, <3>2, Zenon
  <2> QED BY <2>1, <2>3 DEF CdcType
<1>4. CdcType'
  BY <1>1, <1>2, <1>3, Zenon DEF CdcType
<1>5. ASSUME NEW i, Handled(i) PROVE Handled(i)'
  <2>1. ASSUME NEW k \in 1..Len(events), events[k].lsn = i PROVE Handled(i)'
    <3>1. CASE k = 1
      BY <1>2, <2>1, <3>1 DEF Handled
    <3>2. CASE k > 1
      <4>1. k - 1 \in 1..Len(events') /\ events'[k - 1] = events[k]
        BY <1>2, <3>2
      <4> QED BY <2>1, <4>1 DEF Handled
    <3> QED BY <3>1, <3>2
  <2> QED BY <1>1, <1>5, <2>1 DEF Handled
<1>6. ~reborn => Streamed'
  BY <1>1, <1>5, StillStreamed
<1> QED BY <1>1, <1>4, <1>6

(* It has worked an event through.                                         *)
LEMMA FinishKeeps ==
  ASSUME CdcInv, Finish, events' \in Seq(Event), Len(events') = Len(events),
         \A k \in 1..Len(events) : events'[k].lsn = events[k].lsn
  PROVE  CdcInv'
<1> USE DEF CdcInv
<1>1. /\ UNCHANGED <<wal, acked, conn, pos, mid, lastLSN, stopped, reborn>>
      /\ evt' = Absent /\ job' = [job EXCEPT ![Applier] = Idle]
      /\ done' = done \cup {evt.lsn}
  BY DEF Finish
<1>2. \A i : Handled(i) => Handled(i)'
  BY <1>1, StillHandled DEF CdcType
<1>3. job' = [w \in Proc |-> job'[w]] /\ IsJob(job'[Applier])
  <2>1. job'[Applier] = Idle
    BY <1>1 DEF CdcType, Proc
  <2> QED BY <1>1, <2>1, Zenon DEF CdcType, IsJob, Idle
<1>4. CdcType'
  BY <1>1, <1>3, Zenon DEF CdcType
<1>5. ~reborn => Streamed'
  BY <1>1, <1>2, StillStreamed
<1> QED BY <1>1, <1>4, <1>5

(* A client's goroutine moves, and the applier's does not.                 *)
LEMMA ClientBusy ==
  ASSUME CdcInv, NEW c \in Client, NEW j, job' = [job EXCEPT ![c] = j]
  PROVE  Busy
BY WriteThroughAssumption, Zenon DEF CdcInv, CdcType, Busy, Proc

LEMMA ApplierBusy ==
  ASSUME CdcInv, NEW j, IsJob(j), j.pc # "idle", job' = [job EXCEPT ![Applier] = j]
  PROVE  Busy
BY Zenon DEF CdcInv, CdcType, Busy, Proc

LEMMA WriterKeeps ==
  ASSUME CdcInv, NEW p \in Path, NEW v \in Written,
         External(p, v) \/ \E c \in Client : WritePrimary(c, p, v)
  PROVE  CdcInv'
<1>1. /\ Transact(p, v)
      /\ UNCHANGED <<acked, conn, pos, mid, lastLSN, stopped, done, reborn, events, evt>>
  BY DEF External, WritePrimary, cacheVars
<1>2. Quiet
  <2>1. [path |-> p, val |-> v] \in Change
    BY WriteThroughAssumption DEF Change
  <2> QED BY <1>1, <2>1, ListenerAssumption DEF Quiet, Transact, CdcInv, CdcType
<1>3. Busy
  <2>1. CASE job' = job
    BY <2>1 DEF Busy, CdcInv, CdcType
  <2> QED BY <2>1, ClientBusy DEF External, WritePrimary, cacheVars
<1> QED BY <1>1, <1>2, <1>3, QuietKeeps

LEMMA ReaderKeeps ==
  ASSUME CdcInv, NEW w \in Proc, Select(w) \/ \E p \in Path : Look(w, p)
  PROVE  CdcInv'
<1>1. Quiet /\ UNCHANGED <<events, evt>>
  <2>1. UNCHANGED <<wal, acked, conn, pos, mid, lastLSN, stopped, done, reborn, events, evt>>
    BY Zenon DEF Select, Look, listenerVars
  <2> QED BY <2>1 DEF Quiet, CdcInv, CdcType
<1>2. CASE w \in Client
  <2>1. \E j : job' = [job EXCEPT ![w] = j]
    BY Zenon DEF Select, Look
  <2> QED BY <1>1, <1>2, <2>1, ClientBusy, QuietKeeps, Zenon
<1>3. CASE w = Applier
  <2>1. IsJob(job[Applier])
    BY DEF CdcInv, CdcType
  <2>2. ASSUME NEW p, Look(Applier, p) PROVE Busy
    <3>1. PICK a, l : job' = [job EXCEPT ![Applier] = [Idle EXCEPT !.pc = "select", !.path = p,
                                                         !.cached = a, !.late = l]]
      BY <2>2, Zenon DEF Look
    <3>2. IsJob([Idle EXCEPT !.pc = "select", !.path = p, !.cached = a, !.late = l])
      BY DEF IsJob, Idle
    <3>3. [Idle EXCEPT !.pc = "select", !.path = p, !.cached = a, !.late = l].pc # "idle"
      BY DEF Idle
    <3> QED BY <3>1, <3>2, <3>3, ApplierBusy, Zenon
  <2>3. ASSUME Select(Applier) PROVE Busy
    <3> DEFINE r(l, v) == [job[Applier] EXCEPT !.pc = l, !.val = v]
    <3>1. \A l, v : IsJob(r(l, v)) /\ r(l, v).pc = l
      BY <2>1 DEF IsJob
    <3>2. CASE job' = [job EXCEPT ![Applier] = r("seed", Row(job[Applier].path))]
      <4>1. PICK j : j = r("seed", Row(job[Applier].path))
        OBVIOUS
      <4>2. IsJob(j) /\ j.pc = "seed"
        BY <3>1, <4>1, Zenon
      <4>3. job' = [job EXCEPT ![Applier] = j]
        BY <3>2, <4>1
      <4> QED BY <4>2, <4>3, ApplierBusy, Zenon
    <3>3. CASE job' = [job EXCEPT ![Applier] = r("decide", Absent)]
      <4>1. PICK j : j = r("decide", Absent)
        OBVIOUS
      <4>2. IsJob(j) /\ j.pc = "decide"
        BY <3>1, <4>1, Zenon
      <4>3. job' = [job EXCEPT ![Applier] = j]
        BY <3>3, <4>1
      <4> QED BY <4>2, <4>3, ApplierBusy, Zenon
    <3> QED BY <2>3, <3>2, <3>3, Zenon DEF Select, Returned
  <2> QED BY <1>1, <1>3, <2>2, <2>3, QuietKeeps
<1> QED BY <1>2, <1>3 DEF Proc

LEMMA SeedKeeps ==
  ASSUME CdcInv, (\E c \in Client : WriteLocal(c)) \/ (\E w \in Proc : Seed(w))
  PROVE  CdcInv'
<1>1. Quiet
  BY DEF WriteLocal, Seed, Quiet, CdcInv, CdcType
<1>2. ASSUME NEW c \in Client, WriteLocal(c) \/ Seed(c) PROVE CdcInv'
  <2>1. PutByClient(job[c].path, job[c].val) /\ job' = [job EXCEPT ![c] = Idle]
    BY <1>2, WriteThroughAssumption DEF WriteLocal, Seed
  <2>2. Busy
    BY <2>1, ClientBusy, Zenon
  <2> QED BY <1>1, <2>1, <2>2, TouchKeeps DEF PutByClient
<1>3. CASE Seed(Applier)
  <2>1. /\ Put(evt.path, job[Applier].val) /\ evt' = Touched(evt, evt.path, job[Applier].val)
        /\ job' = [job EXCEPT ![Applier] = [job[Applier] EXCEPT !.pc = "fetch"]]
    BY <1>3 DEF Seed
  <2>2. /\ IsJob([job[Applier] EXCEPT !.pc = "fetch"])
        /\ [job[Applier] EXCEPT !.pc = "fetch"].pc = "fetch"
    BY DEF IsJob, CdcInv, CdcType
  <2>3. Busy
    BY <2>1, <2>2, ApplierBusy, Zenon
  <2> QED BY <1>1, <2>1, <2>3, TouchKeeps
<1> QED BY <1>2, <1>3 DEF Proc

LEMMA ApplyKeeps ==
  ASSUME CdcInv, Apply
  PROVE  CdcInv'
<1>0. IsJob(job[Applier]) /\ events \in Seq(Event)
  BY DEF CdcInv, CdcType
<1>1. CASE LookHit
  <2>1. PICK a, l : job' = [job EXCEPT ![Applier] = [job[Applier] EXCEPT !.pc = "decide",
                                                       !.late = l, !.cached = a]]
    BY <1>1, Zenon DEF LookHit
  <2>2. /\ IsJob([job[Applier] EXCEPT !.pc = "decide", !.late = l, !.cached = a])
        /\ [job[Applier] EXCEPT !.pc = "decide", !.late = l, !.cached = a].pc = "decide"
    BY <1>0 DEF IsJob
  <2>3. Busy
    BY <2>1, <2>2, ApplierBusy, Zenon
  <2>4. Quiet /\ UNCHANGED <<events, evt>>
    BY <1>1 DEF LookHit, listenerVars, Quiet, CdcInv, CdcType
  <2> QED BY <2>3, <2>4, QuietKeeps
<1>2. CASE Fetch
  <2> DEFINE r == [job[Applier] EXCEPT !.pc = "decide", !.val = Absent]
  <2>1. IsJob(r) /\ r.pc = "decide"
    BY <1>0 DEF IsJob
  <2>2. \A a, l : IsJob([r EXCEPT !.cached = a, !.late = l])
                  /\ [r EXCEPT !.cached = a, !.late = l].pc = "decide"
    BY <2>1 DEF IsJob
  <2> HIDE DEF r
  <2>3. Returned(Applier) = r
    BY DEF Returned, r
  <2>4. PICK j : IsJob(j) /\ j.pc = "decide" /\ job' = [job EXCEPT ![Applier] = j]
    <3>1. CASE held
      <4>1. job' = [job EXCEPT ![Applier] = [r EXCEPT !.cached = local[evt.path], !.late = evt.late]]
        BY <1>2, <2>3, <3>1 DEF Fetch
      <4> QED BY <2>2, <4>1, Zenon
    <3>2. CASE ~held
      <4>1. job' = [job EXCEPT ![Applier] = r]
        BY <1>2, <2>3, <3>2 DEF Fetch
      <4> QED BY <2>1, <4>1, Zenon
    <3> QED BY <3>1, <3>2
  <2>5. Busy
    BY <2>4, ApplierBusy, Zenon
  <2>6. Quiet /\ UNCHANGED <<events, evt>>
    BY <1>2 DEF Fetch, listenerVars, Quiet, CdcInv, CdcType
  <2> QED BY <2>5, <2>6, QuietKeeps
<1>3. CASE Bury
  BY <1>0, <1>3, PutFacts, FinishKeeps DEF Bury
<1>4. CASE Decide
  <2>1. CASE Suppressed
    BY <1>0, <1>4, <2>1, FinishKeeps DEF Decide
  <2>2. CASE ~Suppressed
    BY <1>0, <1>4, <2>2, PutFacts, FinishKeeps DEF Decide
  <2> QED BY <2>1, <2>2
<1> QED BY <1>1, <1>2, <1>3, <1>4, TakeKeeps DEF Apply

LEMMA RestartKeeps ==
  ASSUME CdcInv, NEW file, Restart(file)
  PROVE  CdcInv'
<1>1. IsJob(Idle)
  BY DEF IsJob, Idle
<1>2. job' = [w \in Proc |-> Idle] /\ job'[Applier] = Idle
  BY DEF Restart, Proc
<1>3. /\ events' \in Seq(Event) /\ evt' = Absent /\ UNCHANGED <<wal, acked>>
      /\ pos' \in 0..MaxWal /\ lastLSN' = Absent
  BY ListenerAssumption DEF Restart, LoseListener
<1>4. conn' = FALSE /\ mid' = FALSE /\ reborn' = TRUE
  BY DEF Restart, LoseListener
<1>5. CdcType'
  BY <1>1, <1>2, <1>3, <1>4, Zenon DEF CdcInv, CdcType
<1> QED BY <1>4, <1>5 DEF CdcInv

LEMMA CdcNextPreserves == CdcInv /\ [Next]_vars => CdcInv'
<1> SUFFICES ASSUME CdcInv, [Next]_vars PROVE CdcInv'
  OBVIOUS
<1>1. CASE UNCHANGED <<listenerVars, job, evt, done, reborn>>
  <2>1. Quiet /\ Busy /\ UNCHANGED <<events, evt>>
    BY <1>1 DEF listenerVars, Quiet, Busy, CdcInv, CdcType
  <2> QED BY <2>1, QuietKeeps
<1>2. CASE (\E p \in Path : Lose(p)) \/ SaveSnapshot
  BY <1>1, <1>2 DEF Lose, SaveSnapshot
<1>3. CASE UNCHANGED vars
  BY <1>1, <1>3 DEF vars, cacheVars
<1>4. CASE \E p \in Path, v \in Written : \E c \in Client : WriteRefused(c, p, v)
  BY <1>3, <1>4 DEF WriteRefused
<1>5. CASE Crash \/ Exit
  BY <1>5, RestartKeeps DEF Crash, Exit
<1> QED BY <1>2, <1>3, <1>4, <1>5, ListenKeeps, ApplyKeeps, WriterKeeps, ReaderKeeps, SeedKeeps
        DEF Next

(* As long as the process lives, the transactions the stream is past are   *)
(* applied, in work or queued, whatever happens to its connections and     *)
(* wherever the log puts its records (run, connectAndConsume,              *)
(* processXLogData, sendStatusUpdate), except those whose commit record an *)
(* overshooting WALStart + len(WALData) of an earlier message covers.      *)
THEOREM ReconnectSafe == Spec => []ReconnectMissesNothing
<1>1. CdcInv => ReconnectMissesNothing
  BY DEF CdcInv, Streamed, Covered, ReconnectMissesNothing
<1> QED BY <1>1, CdcInitially, CdcNextPreserves, PTL DEF Spec

-----------------------------------------------------------------------------
(* The types, and that the cache makes nothing up.  What the cache shows   *)
(* for a committed change:                                                 *)
Cell(v) == IF v = Absent THEN Null ELSE v

Committed(log, p, v) == \E i \in 1..Len(log) : log[i].path = p /\ v = Cell(log[i].val)

(* An event is the change at its position in the log.                      *)
FromLog(log, e) ==
  /\ e.lsn \in 1..Len(log)
  /\ log[e.lsn].path = e.path
  /\ log[e.lsn].val = e.val

(* The queue and the applier's event come from the log.                    *)
LogInv ==
  /\ ListenerTypeOK
  /\ evt \in Event \cup {Absent}
  /\ done \subseteq 1..MaxWal
  /\ mid => conn /\ pos < Len(wal)
  /\ \A n \in 1..Len(events) : FromLog(wal, events[n])
  /\ evt # Absent => FromLog(wal, evt)

(* Where a goroutine may be.  The applier, when it is not idle, is at work *)
(* on its event e.                                                         *)
Works(j, e) ==
  j.pc # "idle" =>
    /\ e # Absent
    /\ j.path = e.path
    /\ j.pc # "local"
    /\ j.pc = "tomb" <=> e.val = Absent

JobFits(w, j, e) ==
  /\ j \in Job
  /\ j.pc \in {"local", "select", "seed"} => j.path \in Path
  /\ w = Applier => Works(j, e)

JobInv ==
  /\ job = [w \in Proc |-> job[w]]
  /\ \A w \in Proc : JobFits(w, job[w], evt)

CacheInv ==
  /\ local \in [Path -> Atom]
  /\ snap \in [Path -> Val \cup {NilText, Absent}]
  /\ held \in BOOLEAN
  /\ reborn \in BOOLEAN

TypeInv == LogInv /\ JobInv /\ CacheInv

(* Two copies of one event, which may differ in being late.                *)
SameChange(e, f) == e.path = f.path /\ e.val = f.val /\ e.lsn = f.lsn

LEMMA TouchedSame ==
  ASSUME NEW p, NEW v, NEW e \in Event
  PROVE  /\ Touched(e, p, v) \in Event
         /\ Touched(e, p, v) # Absent
         /\ SameChange(Touched(e, p, v), e)
<1>1. Touched(e, p, v) \in Event
  BY TouchedFacts
<1>2. CASE Touched(e, p, v) = e
  BY <1>1, <1>2, WriteThroughAssumption DEF SameChange
<1>3. CASE Touched(e, p, v) = [e EXCEPT !.late = TRUE]
  <2>1. SameChange([e EXCEPT !.late = TRUE], e)
    BY DEF SameChange, Event
  <2> QED BY <1>1, <1>3, <2>1, WriteThroughAssumption, Zenon
<1> QED BY <1>2, <1>3 DEF Touched

(* The queue is the same but for lateness.                                 *)
SameQueue ==
  /\ events' \in Seq(Event)
  /\ Len(events') = Len(events)
  /\ \A n \in 1..Len(events) : SameChange(events'[n], events[n])

LEMMA PutSame ==
  ASSUME events \in Seq(Event), NEW p, NEW v, Put(p, v)
  PROVE  SameQueue
<1>1. DOMAIN events = 1..Len(events) /\ \A n \in 1..Len(events) : events[n] \in Event
  OBVIOUS
<1>2. events' = [n \in 1..Len(events) |-> Touched(events[n], p, v)]
  BY <1>1 DEF Put
<1>3. \A n \in 1..Len(events) : SameChange(Touched(events[n], p, v), events[n])
  BY <1>1, TouchedSame
<1>4. \A n \in 1..Len(events) : SameChange(events'[n], events[n])
  BY <1>2, <1>3
<1> QED BY <1>4, PutFacts, Zenon DEF SameQueue

LEMMA FromLogSame ==
  ASSUME NEW log, NEW e, NEW f, SameChange(e, f), FromLog(log, f)
  PROVE  FromLog(log, e)
BY DEF SameChange, FromLog

LEMMA LogGrows ==
  ASSUME NEW log \in Seq(Change), NEW c \in Change, NEW more, more = Append(log, c)
  PROVE  /\ more \in Seq(Change)
         /\ Len(more) = Len(log) + 1
         /\ \A i \in 1..Len(log) : more[i] = log[i]
         /\ more[Len(log) + 1] = c
         /\ \A e : FromLog(log, e) => FromLog(more, e)
         /\ \A p, v : Committed(log, p, v) => Committed(more, p, v)
<1>1. /\ more \in Seq(Change)
      /\ Len(more) = Len(log) + 1 /\ Len(log) \in Nat
      /\ \A i \in 1..Len(log) : more[i] = log[i]
      /\ more[Len(log) + 1] = c
  OBVIOUS
<1>2. \A i \in 1..Len(log) : i \in 1..Len(more)
  BY <1>1
<1>3. \A e : FromLog(log, e) => FromLog(more, e)
  BY <1>1, <1>2 DEF FromLog
<1>4. \A p, v : Committed(log, p, v) => Committed(more, p, v)
  BY <1>1, <1>2, Zenon DEF Committed
<1> QED BY <1>1, <1>3, <1>4

(* Steps that leave the listener and touch the channel at most; the        *)
(* applier may have worked its event through.                              *)
LEMMA LogKept ==
  ASSUME LogInv, UNCHANGED <<wal, acked, conn, pos, mid, lastLSN, stopped>>,
         faults' \in 0..MaxFaults, SameQueue,
         evt' = Absent \/ (evt # Absent /\ evt' \in Event /\ SameChange(evt', evt)),
         done' = done \/ (evt # Absent /\ done' = done \cup {evt.lsn})
  PROVE  LogInv'
<1>1. ListenerTypeOK'
  BY Zenon DEF LogInv, ListenerTypeOK, SameQueue
<1>2. done' \subseteq 1..MaxWal
  <2>1. evt # Absent => evt.lsn \in 1..MaxWal
    BY DEF LogInv, Event
  <2>2. done \subseteq 1..MaxWal
    BY DEF LogInv
  <2> QED BY <2>1, <2>2, Zenon
<1>3. \A n \in 1..Len(events') : FromLog(wal, events'[n])
  BY FromLogSame DEF LogInv, SameQueue
<1>4. evt' # Absent => FromLog(wal, evt')
  BY FromLogSame DEF LogInv
<1>5. evt' \in Event \cup {Absent}
  BY Zenon
<1> QED BY <1>1, <1>2, <1>3, <1>4, <1>5, Zenon DEF LogInv, FromLog

LEMMA LogTransact ==
  ASSUME LogInv, NEW p \in Path, NEW v \in Written, Transact(p, v),
         UNCHANGED <<acked, conn, pos, mid, lastLSN, events, stopped, faults, evt, done>>
  PROVE  LogInv'
<1> DEFINE c == [path |-> p, val |-> v]
<1>1. c \in Change
  BY WriteThroughAssumption DEF Change
<1>2. wal \in Seq(Change) /\ wal' = Append(wal, c) /\ Len(wal) < MaxWal /\ Len(wal) \in Nat
  BY DEF LogInv, ListenerTypeOK, Transact
<1> HIDE DEF c
<1>3. /\ wal' \in Seq(Change) /\ Len(wal') = Len(wal) + 1
      /\ \A e : FromLog(wal, e) => FromLog(wal', e)
  BY <1>1, <1>2, LogGrows, Zenon
<1>4. ListenerTypeOK' /\ done' \subseteq 1..MaxWal /\ (mid' => conn' /\ pos' < Len(wal'))
  BY <1>2, <1>3, ListenerAssumption DEF LogInv, ListenerTypeOK
<1>5. \A e : FromLog(wal, e)' <=> FromLog(wal', e)
  BY DEF FromLog
<1>6. \A n \in 1..Len(events) : FromLog(wal', events[n])
  BY <1>3 DEF LogInv
<1>7. evt # Absent => FromLog(wal', evt)
  BY <1>3 DEF LogInv
<1> QED BY <1>4, <1>6, <1>7 DEF LogInv, FromLog

LEMMA LogListen ==
  ASSUME LogInv, Listen
  PROVE  LogInv'
<1>0. /\ UNCHANGED <<evt, done>> /\ ListenerNext
      /\ Len(wal) \in Nat /\ wal \in Seq(Change) /\ MaxWal \in Nat /\ MaxFaults \in Nat
  BY ListenerAssumption DEF Listen, cacheVars, LogInv, ListenerTypeOK
<1>1. CASE UNCHANGED <<wal, events>> /\ ListenerTypeOK' /\ (mid' => conn' /\ pos' < Len(wal))
  BY <1>0, <1>1, Zenon DEF LogInv, FromLog
<1>2. CASE Connect
  <2>1. acked \in 0..MaxWal /\ lastLSN \in 0..MaxWal \cup {Absent}
    BY DEF LogInv, ListenerTypeOK
  <2>2. lastLSN' \in 0..MaxWal \cup {Absent}
    <3>1. lastLSN' \in 0..acked \cup {lastLSN, Absent}
      BY <1>2, Zenon DEF Connect
    <3>2. 0..acked \subseteq 0..MaxWal
      BY <1>0, <2>1
    <3> QED BY <2>1, <3>1, <3>2, Zenon
  <2>3. pos' \in 0..MaxWal
    <3>1. CASE lastLSN' = Absent
      BY <1>2, <2>1, <3>1 DEF Connect
    <3>2. CASE lastLSN' # Absent
      <4>1. lastLSN' \in 0..MaxWal /\ pos' = Max({lastLSN', acked})
        BY <1>2, <2>2, <3>2 DEF Connect
      <4> QED BY <2>1, <4>1, MaxOfTwo
    <3> QED BY <3>1, <3>2
  <2>4. ~mid /\ mid' = mid /\ conn' = TRUE /\ UNCHANGED <<wal, acked, events, stopped, faults>>
    BY <1>2 DEF Connect, Listening, LogInv
  <2> QED BY <1>1, <2>2, <2>3, <2>4, Zenon DEF LogInv, ListenerTypeOK
<1>3. CASE Disconnect
  <2>1. faults' \in 0..MaxFaults /\ pos' \in 0..MaxWal
    BY <1>0, <1>3 DEF Disconnect, Fault, LogInv, ListenerTypeOK
  <2>2. /\ conn' = FALSE /\ mid' = FALSE
        /\ UNCHANGED <<wal, acked, lastLSN, events, stopped>>
    BY <1>3, Zenon DEF Disconnect, Listening
  <2>3. ListenerTypeOK'
    BY <2>1, <2>2, Zenon DEF LogInv, ListenerTypeOK
  <2> QED BY <1>1, <2>2, <2>3, Zenon
<1>4. CASE Receive
  <2> DEFINE e == [path |-> wal[pos + 1].path, val |-> wal[pos + 1].val,
                   lsn |-> pos + 1, late |-> FALSE]
  <2>1. /\ events' = Append(events, e) /\ pos < Len(wal) /\ Len(events) < ChanCap /\ conn
        /\ UNCHANGED <<wal, acked, conn, pos, stopped, faults>> /\ mid' = TRUE
        /\ lastLSN' = Reach[pos + 1]
    BY <1>4, Zenon DEF Receive
  <2>2. pos \in Nat /\ pos + 1 \in 1..Len(wal) /\ Len(wal) <= MaxWal
    BY <1>0, <2>1 DEF LogInv, ListenerTypeOK
  <2>3. wal[pos + 1] \in Change
    BY <1>0, <2>2
  <2>4. e \in Event /\ FromLog(wal, e)
    BY <1>0, <2>2, <2>3 DEF Event, Change, FromLog
  <2> HIDE DEF e
  <2>5. events \in Seq(Event) /\ ChanCap \in Nat
    BY ListenerAssumption DEF LogInv, ListenerTypeOK
  <2>6. /\ events' \in Seq(Event) /\ Len(events') = Len(events) + 1 /\ Len(events) \in Nat
        /\ \A n \in 1..Len(events) : events'[n] = events[n]
        /\ events'[Len(events) + 1] = e
    BY <2>1, <2>4, <2>5
  <2>7. ASSUME NEW n \in 1..Len(events') PROVE FromLog(wal, events'[n])
    <3>1. CASE n \in 1..Len(events)
      BY <2>6, <3>1 DEF LogInv
    <3>2. CASE n = Len(events) + 1
      BY <2>4, <2>6, <3>2, Zenon
    <3> QED BY <2>6, <3>1, <3>2
  <2>8. lastLSN' \in 0..MaxWal
    <3>1. pos + 1 \in 1..MaxWal
      BY <1>0, <2>2
    <3> QED BY <2>1, <3>1, ListenerAssumption
  <2>9. ListenerTypeOK'
    BY <2>1, <2>5, <2>6, <2>8 DEF LogInv, ListenerTypeOK
  <2> QED BY <1>0, <2>1, <2>7, <2>9, Zenon DEF LogInv, FromLog
<1>5. CASE ReceiveCommit
  <2>1. pos' \in 0..MaxWal /\ lastLSN' \in 0..MaxWal
    BY <1>0, <1>5, ListenerAssumption DEF ReceiveCommit, LogInv, ListenerTypeOK
  <2>2. mid' = FALSE /\ UNCHANGED <<wal, acked, events, stopped, conn, faults>>
    BY <1>5 DEF ReceiveCommit, Listening
  <2> QED BY <1>1, <2>1, <2>2, Zenon DEF LogInv, ListenerTypeOK
<1>6. CASE SendStatus
  <2>1. /\ acked' \in 0..MaxWal
        /\ UNCHANGED <<wal, conn, pos, mid, lastLSN, events, stopped, faults>>
    BY <1>6 DEF SendStatus, LogInv, ListenerTypeOK
  <2> QED BY <1>1, <2>1, Zenon DEF LogInv, ListenerTypeOK
<1>7. CASE CloseListener
  <2>1. acked' \in 0..MaxWal /\ faults' \in 0..MaxFaults
    <3>1. acked' \in {acked} \cup (Received \ {Absent}) /\ Fault
      BY <1>7 DEF CloseListener
    <3>2. pos < Len(wal) => Reach[pos + 1] \in 0..MaxWal
      <4>1. pos < Len(wal) => pos + 1 \in 1..MaxWal
        BY <1>0 DEF LogInv, ListenerTypeOK
      <4> QED BY <4>1, ListenerAssumption
    <3>3. Received \subseteq 0..MaxWal \cup {Absent}
      BY <3>2 DEF Received, LogInv, ListenerTypeOK
    <3> QED BY <1>0, <3>1, <3>3 DEF Fault, LogInv, ListenerTypeOK
  <2>2. /\ conn' = FALSE /\ mid' = FALSE /\ stopped' = TRUE /\ pos' = 0
        /\ UNCHANGED <<wal, lastLSN, events>>
    BY <1>7, Zenon DEF CloseListener
  <2>3. pos' \in 0..MaxWal
    BY <1>0, <2>2
  <2>4. ListenerTypeOK'
    BY <2>1, <2>2, <2>3, Zenon DEF LogInv, ListenerTypeOK
  <2> QED BY <1>1, <2>2, <2>4
<1> QED BY <1>0, <1>2, <1>3, <1>4, <1>5, <1>6, <1>7 DEF ListenerNext

LEMMA LogTake ==
  ASSUME LogInv, Take
  PROVE  LogInv'
<1>1. /\ events # <<>> /\ evt' = Head(events) /\ events' = Tail(events)
      /\ UNCHANGED <<wal, acked, conn, pos, mid, lastLSN, stopped, faults, done>>
  BY DEF Take
<1>2. events \in Seq(Event) /\ Len(events) <= ChanCap /\ ChanCap \in Nat
  BY ListenerAssumption DEF LogInv, ListenerTypeOK
<1>3. /\ Len(events) \in Nat \ {0} /\ evt' = events[1] /\ evt' \in Event
      /\ events' \in Seq(Event) /\ Len(events') = Len(events) - 1
      /\ \A n \in 1..Len(events') : events'[n] = events[n + 1]
  BY <1>1, <1>2
<1>4. FromLog(wal, evt') /\ \A n \in 1..Len(events') : FromLog(wal, events'[n])
  BY <1>3 DEF LogInv
<1>5. ListenerTypeOK'
  BY <1>1, <1>2, <1>3 DEF LogInv, ListenerTypeOK
<1> QED BY <1>1, <1>3, <1>4, <1>5 DEF LogInv, FromLog

LEMMA LogRestart ==
  ASSUME LogInv, NEW file, Restart(file), faults' \in 0..MaxFaults
  PROVE  LogInv'
<1>1. /\ events' = <<>> /\ evt' = Absent /\ UNCHANGED <<wal, acked, done>>
      /\ pos' = 0 /\ lastLSN' = Absent
      /\ conn' = FALSE /\ mid' = FALSE /\ stopped' = FALSE
  BY Zenon DEF Restart, LoseListener
<1>2. /\ events' \in Seq(Event) /\ Len(events') = 0 /\ Len(events') <= ChanCap
      /\ pos' \in 0..MaxWal
  BY <1>1, ListenerAssumption DEF LogInv, ListenerTypeOK
<1>3. ListenerTypeOK'
  BY <1>1, <1>2, Zenon DEF LogInv, ListenerTypeOK
<1> QED BY <1>1, <1>2, <1>3 DEF LogInv, FromLog

-----------------------------------------------------------------------------
(* The goroutines.                                                         *)
LEMMA IdleFits ==
  ASSUME NEW w, NEW e
  PROVE  JobFits(w, Idle, e)
<1>1. Idle \in Job
  BY Zenon DEF Idle, Job, Atom
<1>2. Idle.pc = "idle"
  BY DEF Idle
<1> QED BY <1>1, <1>2 DEF JobFits, Works

(* The event a goroutine sees is the same, but for lateness.               *)
SameEvent == evt' = evt \/ (evt # Absent /\ evt' # Absent /\ SameChange(evt', evt))

LEMMA JobSet ==
  ASSUME JobInv, NEW w \in Proc, NEW j, job' = [job EXCEPT ![w] = j],
         JobFits(w, j, evt'), SameEvent \/ w = Applier
  PROVE  JobInv'
<1>1. job' = [u \in Proc |-> job'[u]] /\ job'[w] = j /\ \A u \in Proc \ {w} : job'[u] = job[u]
  BY DEF JobInv
<1>2. ASSUME NEW u \in Proc PROVE JobFits(u, job'[u], evt')
  <2>1. CASE u = w
    BY <1>1, <2>1
  <2>2. CASE u # w
    <3>1. JobFits(u, job[u], evt) /\ job'[u] = job[u]
      BY <1>1, <2>2 DEF JobInv
    <3>2. u = Applier => Works(job[u], evt')
      BY <2>2, <3>1 DEF JobFits, Works, SameEvent, SameChange
    <3> QED BY <3>1, <3>2 DEF JobFits
  <2> QED BY <2>1, <2>2
<1> QED BY <1>1, <1>2 DEF JobInv

LEMMA JobKept ==
  ASSUME JobInv, job' = job, SameEvent
  PROVE  JobInv'
<1>1. ASSUME NEW u \in Proc PROVE JobFits(u, job[u], evt')
  <2>1. JobFits(u, job[u], evt)
    BY Zenon DEF JobInv
  <2>2. u = Applier => Works(job[u], evt')
    BY <2>1 DEF JobFits, Works, SameEvent, SameChange
  <2> QED BY <2>1, <2>2 DEF JobFits
<1> QED BY <1>1, Zenon DEF JobInv

(* The applier at work has an event.                                       *)
LEMMA ApplierWorks ==
  ASSUME JobInv, LogInv, job[Applier].pc # "idle"
  PROVE  /\ job[Applier] \in Job /\ evt \in Event /\ evt # Absent
         /\ job[Applier].path = evt.path /\ evt.path \in Path
         /\ job[Applier].pc # "local"
         /\ job[Applier].pc = "tomb" <=> evt.val = Absent
<1>1. JobFits(Applier, job[Applier], evt)
  BY DEF JobInv, Proc
<1>2. Works(job[Applier], evt) /\ job[Applier] \in Job
  BY <1>1 DEF JobFits
<1>3. evt \in Event /\ evt # Absent
  BY <1>2, Zenon DEF Works, LogInv
<1>4. evt.path \in Path
  BY <1>3 DEF Event
<1> QED BY <1>2, <1>3, <1>4 DEF Works

INSTANCE WellFoundedInduction

(* The last committed change of a path.                                    *)
LEMMA LastOf ==
  ASSUME NEW n \in Nat, NEW S \in SUBSET (1..n), S # {}
  PROVE  Max(S) \in S
<1> DEFINE T == {k \in 0..n : n - k \in S}
<1>1. T \in SUBSET Nat /\ T # {}
  <2>1. PICK i \in S : TRUE
    BY Zenon
  <2>2. n - i \in T
    BY <2>1
  <2>3. T \in SUBSET Nat
    OBVIOUS
  <2> HIDE DEF T
  <2> QED BY <2>2, <2>3
<1>2. PICK x \in T : \A y \in T : <<y, x>> \notin OpToRel(<, Nat)
  BY <1>1, WFMin, NatLessThanWellFounded, Zenon
<1>3. \A y \in T : ~(y < x)
  BY <1>1, <1>2, Zenon DEF OpToRel
<1>4. \A i \in S : n - i \in T
  OBVIOUS
<1>5. n - x \in S /\ x \in 0..n
  OBVIOUS
<1>6. \A i \in S : n - x >= i
  <2> TAKE i \in S
  <2>1. n - i \in T /\ i \in 1..n
    BY <1>4
  <2>2. ~(n - i < x)
    BY <1>3, <2>1
  <2> QED BY <1>5, <2>1, <2>2
<1> QED BY <1>5, <1>6, Zenon DEF Max

LEMMA RowType ==
  ASSUME wal \in Seq(Change), NEW p
  PROVE  /\ Row(p) \in Val \cup {Null, Absent}
         /\ Row(p) # Absent => Committed(wal, p, Row(p))
<1> DEFINE writes == {i \in 1..Len(wal) : wal[i].path = p}
<1>1. CASE writes = {}
  BY <1>1, Zenon DEF Row
<1>2. CASE writes # {}
  <2>1. Len(wal) \in Nat /\ writes \in SUBSET (1..Len(wal))
    OBVIOUS
  <2>2. Max(writes) \in writes
    <3> HIDE DEF writes
    <3> QED BY <1>2, <2>1, LastOf, Zenon
  <2>3. PICK m : m = Max(writes)
    BY Zenon
  <2>4. m \in 1..Len(wal) /\ wal[m].path = p /\ Row(p) = wal[m].val
    BY <1>2, <2>2, <2>3 DEF Row
  <2>5. wal[m] \in Change
    BY <2>4
  <2>6. wal[m].val \in Val \cup {Null, Absent}
    BY <2>5 DEF Change
  <2> QED BY <2>4, <2>6 DEF Committed, Cell
<1> QED BY <1>1, <1>2

(* The jobs the actions make.                                              *)
LEMMA WriteFits ==
  ASSUME NEW c \in Client, NEW p \in Path, NEW v \in Written, NEW e
  PROVE  JobFits(c, [Idle EXCEPT !.pc = "local", !.path = p, !.val = v], e)
<1> DEFINE j == [Idle EXCEPT !.pc = "local", !.path = p, !.val = v]
<1>1. v \in Val \cup {Null, Absent} /\ Absent \in Atom /\ c # Applier
  BY WriteThroughAssumption DEF Atom
<1>2. j \in Job
  BY <1>1, Zenon DEF Idle, Job
<1>3. j.path = p
  BY DEF Idle
<1> QED BY <1>1, <1>2, <1>3 DEF JobFits

LEMMA LookFits ==
  ASSUME JobInv, LogInv, CacheInv, NEW w \in Proc, NEW p \in Path, Look(w, p)
  PROVE  \E j : job' = [job EXCEPT ![w] = j] /\ j.pc = "select" /\ JobFits(w, j, evt)
<1> DEFINE b == (w = Applier /\ evt.late)
           j == [Idle EXCEPT !.pc = "select", !.path = p, !.cached = local[p], !.late = b]
<1>1. job' = [job EXCEPT ![w] = j]
  BY Zenon DEF Look
<1>2. b \in BOOLEAN
  <2>1. CASE w = Applier
    <3>1. evt \in Event
      BY <2>1, ApplierWorks DEF Look
    <3> QED BY <2>1, <3>1, Zenon DEF Event
  <2>2. CASE w # Applier
    BY <2>2, Zenon
  <2> QED BY <2>1, <2>2
<1> HIDE DEF b
<1>3. local[p] \in Atom
  BY DEF CacheInv
<1>4. j \in Job
  BY <1>2, <1>3, Zenon DEF Idle, Job
<1>5. j \in Job /\ j.path = p /\ j.pc = "select"
  BY <1>4, Zenon DEF Idle
<1>6. w = Applier => Works(j, evt)
  <2> SUFFICES ASSUME w = Applier PROVE Works(j, evt)
    OBVIOUS
  <2>1. job[Applier].pc = "look" /\ job[Applier].path = p
    BY DEF Look
  <2>2. evt # Absent /\ evt.path = p /\ evt.val # Absent
    BY <2>1, ApplierWorks
  <2> HIDE DEF j
  <2> QED BY <1>5, <2>2 DEF Works
<1> HIDE DEF j
<1>7. JobFits(w, j, evt)
  BY <1>5, <1>6 DEF JobFits
<1> QED BY <1>1, <1>5, <1>7, Zenon

(* A job that moves on along the same path.                                *)
LEMMA MovedFits ==
  ASSUME NEW w, NEW e, NEW j, JobFits(w, j, e), j.pc \notin {"idle", "tomb"}, j.path \in Path,
         NEW i \in Job, i.pc \in {"select", "seed", "fetch", "decide"}, i.path = j.path
  PROVE  JobFits(w, i, e)
BY DEF JobFits, Works

LEMMA ReturnedFits ==
  ASSUME NEW w \in Proc, JobFits(w, job[w], evt), job[w].pc \in {"select", "seed", "fetch"},
         job[w].path \in Path
  PROVE  JobFits(w, Returned(w), evt) /\ Returned(w).pc \in {"idle", "decide"}
<1>1. CASE w # Applier
  <2>1. Returned(w) = Idle
    BY <1>1, Zenon DEF Returned
  <2>2. Idle.pc = "idle"
    BY Zenon DEF Idle
  <2> QED BY <2>1, <2>2, IdleFits
<1>2. CASE w = Applier
  <2> DEFINE i == [job[w] EXCEPT !.pc = "decide", !.val = Absent]
  <2>1. job[w] \in Job
    BY DEF JobFits
  <2>2. Returned(w) = i
    BY <1>2 DEF Returned
  <2>3. i \in Job
    BY <2>1, Zenon DEF Job
  <2>4. i.pc = "decide" /\ i.path = job[w].path
    BY <2>1 DEF Job
  <2> HIDE DEF i
  <2> QED BY <2>2, <2>3, <2>4, MovedFits, Zenon
<1> QED BY <1>1, <1>2, Zenon

LEMMA SelectFits ==
  ASSUME JobInv, LogInv, NEW w \in Proc, Select(w)
  PROVE  \E j : /\ job' = [job EXCEPT ![w] = j]
                /\ JobFits(w, j, evt)
                /\ \/ j.pc \in {"idle", "decide"}
                   \/ j.pc = "seed" /\ Committed(wal, j.path, j.val)
<1> DEFINE j == job[w]
           p == j.path
<1>1. JobFits(w, j, evt) /\ j.pc = "select" /\ p \in Path /\ j \in Job
  BY Zenon DEF JobInv, JobFits, Select
<1>2. JobFits(w, Returned(w), evt) /\ Returned(w).pc \in {"idle", "decide"}
  BY <1>1, ReturnedFits
<1>3. CASE job' = [job EXCEPT ![w] = Returned(w)]
  BY <1>2, <1>3, Zenon
<1>4. CASE Found(p) /\ job' = [job EXCEPT ![w].pc = "seed", ![w].val = Row(p)]
  <2>1. wal \in Seq(Change)
    BY DEF LogInv, ListenerTypeOK
  <2>2. Row(p) \in Val \cup {Null, Absent} /\ Committed(wal, p, Row(p))
    BY <1>4, <2>1, RowType, Zenon DEF Found
  <2> DEFINE v == Row(p)
             i == [j EXCEPT !.pc = "seed", !.val = v]
  <2>3. job' = [job EXCEPT ![w] = i]
    BY <1>4, Zenon
  <2> HIDE DEF v
  <2>4. i \in Job
    BY <1>1, <2>2, Zenon DEF Job, v
  <2>5. i.pc = "seed" /\ i.path = p /\ i.val = v
    BY <1>1 DEF Job
  <2> HIDE DEF i, p
  <2>6. JobFits(w, i, evt)
    BY <1>1, <2>4, <2>5, MovedFits DEF p
  <2> QED BY <2>2, <2>3, <2>5, <2>6, Zenon DEF v
<1> QED BY <1>3, <1>4 DEF Select

LEMMA LookHitFits ==
  ASSUME JobInv, LogInv, CacheInv, LookHit
  PROVE  \E j : job' = [job EXCEPT ![Applier] = j] /\ JobFits(Applier, j, evt) /\ j.pc = "decide"
<1> DEFINE a == local[job[Applier].path]
           b == evt.late
           j == [job[Applier] EXCEPT !.pc = "decide", !.late = b, !.cached = a]
<1>1. job' = [job EXCEPT ![Applier] = j]
  BY Zenon DEF LookHit
<1>2. job[Applier].pc = "look" /\ Applier \in Proc
  BY DEF LookHit, Proc
<1>3. /\ job[Applier] \in Job /\ evt \in Event /\ job[Applier].path \in Path
      /\ JobFits(Applier, job[Applier], evt)
  BY <1>2, ApplierWorks DEF JobInv
<1>4. a \in Atom
  BY <1>3 DEF CacheInv
<1>5. b \in BOOLEAN
  BY <1>3, Zenon DEF Event
<1> HIDE DEF a, b
<1>6. j \in Job
  BY <1>3, <1>4, <1>5, Zenon DEF Job
<1>7. j.pc = "decide" /\ j.path = job[Applier].path
  BY <1>3, Zenon DEF Job
<1> HIDE DEF j
<1>8. JobFits(Applier, j, evt)
  BY <1>2, <1>3, <1>6, <1>7, MovedFits, Zenon
<1> QED BY <1>1, <1>7, <1>8, Zenon

LEMMA FetchFits ==
  ASSUME JobInv, LogInv, CacheInv, Fetch
  PROVE  \E j : job' = [job EXCEPT ![Applier] = j] /\ JobFits(Applier, j, evt) /\ j.pc = "decide"
<1> DEFINE r == Returned(Applier)
           a == local[evt.path]
           b == evt.late
           j == [r EXCEPT !.cached = a, !.late = b]
<1>1. job[Applier].pc = "fetch" /\ Applier \in Proc
  BY Zenon DEF Fetch, Proc
<1>2. /\ job[Applier] \in Job /\ evt \in Event /\ job[Applier].path \in Path /\ evt.path \in Path
      /\ JobFits(Applier, job[Applier], evt) /\ job[Applier].path = evt.path
  BY <1>1, ApplierWorks, Zenon DEF JobInv
<1>3. JobFits(Applier, r, evt) /\ r.pc \in {"idle", "decide"}
  BY <1>1, <1>2, ReturnedFits
<1>4. r = [job[Applier] EXCEPT !.pc = "decide", !.val = Absent]
  BY DEF Returned
<1>5. r.pc = "decide" /\ r.path = evt.path
  BY <1>2, <1>4, Zenon DEF Job
<1>6. CASE held
  <2>1. job' = [job EXCEPT ![Applier] = j]
    BY <1>6, Zenon DEF Fetch
  <2>2. a \in Atom
    BY <1>2 DEF CacheInv
  <2>3. b \in BOOLEAN
    BY <1>2, Zenon DEF Event
  <2>4. r \in Job
    BY <1>3 DEF JobFits
  <2> HIDE DEF a, b, r
  <2>5. j \in Job
    BY <2>2, <2>3, <2>4, Zenon DEF Job
  <2>6. j.pc = "decide" /\ j.path = r.path
    BY <1>5, <2>4 DEF Job
  <2> HIDE DEF j
  <2>7. JobFits(Applier, j, evt)
    BY <1>2, <1>3, <1>5, <2>5, <2>6, MovedFits, Zenon
  <2> QED BY <2>1, <2>6, <2>7, Zenon
<1>7. CASE ~held
  <2>1. job' = [job EXCEPT ![Applier] = r]
    BY <1>7, Zenon DEF Fetch
  <2> QED BY <1>3, <1>5, <2>1, Zenon
<1> QED BY <1>6, <1>7

LEMMA TakeFits ==
  ASSUME JobInv, LogInv, Take
  PROVE  \E j : job' = [job EXCEPT ![Applier] = j] /\ JobFits(Applier, j, evt')
                /\ j.pc \in {"tomb", "look"}
<1>1. events # <<>> /\ evt' = Head(events) /\ events \in Seq(Event)
  BY DEF Take, LogInv, ListenerTypeOK
<1>2. evt' \in Event
  BY <1>1
<1>3. evt'.path \in Path /\ evt' # Absent
  BY <1>2, WriteThroughAssumption DEF Event
<1>4. PICK l \in {"tomb", "look"} :
        /\ job' = [job EXCEPT ![Applier] = [Idle EXCEPT !.pc = l, !.path = evt'.path]]
        /\ l = "tomb" <=> evt'.val = Absent
  BY Zenon DEF Take
<1> DEFINE j == [Idle EXCEPT !.pc = l, !.path = evt'.path]
<1>5. j \in Job
  BY <1>3, Zenon DEF Idle, Job, Atom
<1>6. j.pc = l /\ j.path = evt'.path
  BY DEF Idle
<1>7. job' = [job EXCEPT ![Applier] = j]
  BY <1>4
<1> HIDE DEF j
<1>8. Works(j, evt')
  BY <1>3, <1>4, <1>6 DEF Works
<1>9. JobFits(Applier, j, evt')
  BY <1>4, <1>5, <1>6, <1>8 DEF JobFits
<1> QED BY <1>4, <1>6, <1>7, <1>9, Zenon

LEMMA SeedFits ==
  ASSUME JobInv, LogInv, job[Applier].pc = "seed", NEW e, e # Absent, SameChange(e, evt)
  PROVE  LET j == [job[Applier] EXCEPT !.pc = "fetch"]
         IN  JobFits(Applier, j, e) /\ j.pc = "fetch"
<1> DEFINE j == [job[Applier] EXCEPT !.pc = "fetch"]
<1>1. /\ job[Applier] \in Job /\ evt \in Event /\ evt # Absent
      /\ job[Applier].path = evt.path /\ evt.path \in Path /\ evt.val # Absent
  BY ApplierWorks
<1>2. j \in Job
  BY <1>1, Zenon DEF Job
<1>3. j.pc = "fetch" /\ j.path = evt.path
  BY <1>1 DEF Job
<1> HIDE DEF j
<1>4. Works(j, e)
  BY <1>1, <1>3, Zenon DEF Works, SameChange
<1>5. JobFits(Applier, j, e) /\ j.pc = "fetch"
  BY <1>2, <1>3, <1>4, Zenon DEF JobFits
<1> QED BY <1>5 DEF j

-----------------------------------------------------------------------------
(* Whatever is, or is going to be, appended has been committed.            *)
Shows(log, f) == \A p \in Path : f[p] # Absent => Committed(log, p, f[p])

Brings(log, j) == j.pc \in {"local", "seed"} => Committed(log, j.path, j.val)

PubInv ==
  /\ \A i \in 1..Len(wal) : wal[i].val # Null
  /\ Shows(wal, local)
  /\ Shows(wal, snap)
  /\ \A w \in Proc : Brings(wal, job[w])

WInv == TypeInv /\ (Null \notin Written => PubInv)

LEMMA PubKept ==
  ASSUME PubInv, wal' = wal, Shows(wal, local'), Shows(wal, snap'),
         \A w \in Proc : Brings(wal, job'[w])
  PROVE  PubInv'
<1>1. Shows(wal, local)' /\ Shows(wal, snap)'
  BY DEF Shows, Committed
<1>2. \A w \in Proc : Brings(wal, job[w])'
  BY DEF Brings, Committed
<1> QED BY <1>1, <1>2, Zenon DEF PubInv

LEMMA BringsSet ==
  ASSUME PubInv, JobInv, NEW w \in Proc, NEW j, job' = [job EXCEPT ![w] = j], Brings(wal, j)
  PROVE  \A u \in Proc : Brings(wal, job'[u])
<1>1. job'[w] = j /\ \A u \in Proc \ {w} : job'[u] = job[u]
  BY DEF JobInv
<1>2. ASSUME NEW u \in Proc PROVE Brings(wal, job'[u])
  <2>1. CASE u = w
    BY <1>1, <2>1, Zenon
  <2>2. CASE u # w
    BY <1>1, <2>2 DEF PubInv
  <2> QED BY <2>1, <2>2
<1> QED BY <1>2

LEMMA PutShows ==
  ASSUME CacheInv, NEW p, NEW v \in Atom, Put(p, v)
  PROVE  /\ local' \in [Path -> Atom]
         /\ \A log : Shows(log, local) /\ Committed(log, p, v) => Shows(log, local')
<1>1. local' = [local EXCEPT ![p] = v] /\ local \in [Path -> Atom]
  BY DEF Put, CacheInv
<1>2. ASSUME NEW log, Shows(log, local), Committed(log, p, v) PROVE Shows(log, local')
  <2> SUFFICES ASSUME NEW q \in Path, local'[q] # Absent PROVE Committed(log, q, local'[q])
    BY DEF Shows
  <2>1. CASE q = p
    BY <1>1, <1>2, <2>1, Zenon
  <2>2. CASE q # p
    <3>1. local'[q] = local[q]
      BY <1>1, <2>2
    <3> QED BY <1>2, <3>1 DEF Shows
  <2> QED BY <2>1, <2>2
<1>3. local' \in [Path -> Atom]
  BY <1>1, Zenon
<1> QED BY <1>2, <1>3

(* Steps that leave the log and the cache alone; w goes on with j.         *)
LEMMA MoveKeeps ==
  ASSUME WInv, LogInv', UNCHANGED <<wal, local, snap, reborn>>, held' \in BOOLEAN,
         NEW w \in Proc, NEW j, job' = [job EXCEPT ![w] = j], JobFits(w, j, evt'),
         SameEvent \/ w = Applier, Brings(wal, j)
  PROVE  WInv'
<1>1. JobInv'
  BY JobSet, Zenon DEF WInv, TypeInv
<1>2. CacheInv'
  BY DEF WInv, TypeInv, CacheInv
<1>3. ASSUME Null \notin Written PROVE PubInv'
  <2>1. PubInv /\ JobInv
    BY <1>3 DEF WInv, TypeInv
  <2>2. \A u \in Proc : Brings(wal, job'[u])
    BY <2>1, BringsSet, Zenon
  <2>3. Shows(wal, local') /\ Shows(wal, snap')
    BY <2>1 DEF PubInv
  <2> QED BY <2>1, <2>2, <2>3, PubKept
<1> QED BY <1>1, <1>2, <1>3 DEF WInv, TypeInv

(* Appends to the local cache; w goes on with j.                           *)
LEMMA AppendKeeps ==
  ASSUME WInv, LogInv', UNCHANGED <<wal, snap, reborn>>, held' \in BOOLEAN,
         NEW p, NEW v \in Atom, Put(p, v),
         Null \notin Written => Committed(wal, p, v),
         NEW w \in Proc, NEW j, job' = [job EXCEPT ![w] = j], JobFits(w, j, evt'),
         SameEvent \/ w = Applier, j.pc \notin {"local", "seed"}
  PROVE  WInv'
<1>1. JobInv'
  BY JobSet, Zenon DEF WInv, TypeInv
<1>2. local' \in [Path -> Atom]
  BY PutShows DEF WInv, TypeInv
<1>3. CacheInv'
  BY <1>2 DEF WInv, TypeInv, CacheInv
<1>4. ASSUME Null \notin Written PROVE PubInv'
  <2>1. PubInv /\ JobInv /\ CacheInv
    BY <1>4 DEF WInv, TypeInv
  <2>2. Brings(wal, j)
    BY DEF Brings
  <2>3. \A u \in Proc : Brings(wal, job'[u])
    BY <2>1, <2>2, BringsSet, Zenon
  <2>4. Shows(wal, local')
    BY <1>4, <2>1, PutShows DEF PubInv
  <2>5. Shows(wal, snap')
    BY <2>1 DEF PubInv
  <2> QED BY <2>1, <2>3, <2>4, <2>5, PubKept
<1> QED BY <1>1, <1>3, <1>4 DEF WInv, TypeInv

LEMMA SameQueueKept ==
  ASSUME LogInv, events' = events
  PROVE  SameQueue
BY DEF SameQueue, SameChange, LogInv, ListenerTypeOK

(* A client's append leaves the applier's event what it is.                *)
LEMMA TouchedEvent ==
  ASSUME LogInv, NEW p, NEW v, evt' = Touched(evt, p, v)
  PROVE  /\ SameEvent
         /\ evt' = Absent \/ (evt # Absent /\ evt' \in Event /\ SameChange(evt', evt))
<1>1. CASE evt = Absent
  BY <1>1 DEF Touched, SameEvent
<1>2. CASE evt # Absent
  <2>1. evt \in Event
    BY <1>2 DEF LogInv
  <2> QED BY <1>2, <2>1, TouchedSame, Zenon DEF SameEvent
<1> QED BY <1>1, <1>2

LEMMA WInvListen ==
  ASSUME WInv, Listen
  PROVE  WInv'
<1>1. UNCHANGED <<local, job, evt, held, snap, done, reborn>> /\ wal' = wal
  BY DEF Listen, cacheVars, ListenerNext, Connect, Disconnect, Receive, ReceiveCommit,
         SendStatus, CloseListener, Listening
<1>2. LogInv'
  BY LogListen DEF WInv, TypeInv
<1>3. JobInv'
  BY <1>1, JobKept, Zenon DEF WInv, TypeInv, SameEvent
<1>4. CacheInv'
  BY <1>1, Zenon DEF WInv, TypeInv, CacheInv
<1>5. Null \notin Written => PubInv'
  BY <1>1, PubKept, Zenon DEF WInv, PubInv
<1> QED BY <1>2, <1>3, <1>4, <1>5, Zenon DEF WInv, TypeInv

LEMMA WInvTransact ==
  ASSUME WInv, NEW p \in Path, NEW v \in Written,
         External(p, v) \/ \E c \in Client : WritePrimary(c, p, v)
  PROVE  WInv'
<1>1. /\ Transact(p, v)
      /\ UNCHANGED <<acked, conn, pos, mid, lastLSN, events, stopped, faults>>
      /\ UNCHANGED <<local, evt, held, snap, done, reborn>>
  BY DEF External, WritePrimary, cacheVars
<1>2. LogInv'
  BY <1>1, LogTransact, Zenon DEF WInv, TypeInv
<1>3. CacheInv'
  BY <1>1 DEF WInv, TypeInv, CacheInv
<1> DEFINE new(j) == j = [Idle EXCEPT !.pc = "local", !.path = p, !.val = v]
<1>4. \/ job' = job
      \/ \E c \in Client : \E j : job' = [job EXCEPT ![c] = j] /\ new(j) /\ v # Absent
  BY Zenon DEF External, WritePrimary, cacheVars
<1>5. \A c \in Client : \A j : new(j) => JobFits(c, j, evt') /\ j.pc = "local" /\ j.path = p /\ j.val = v
  <2>1. \A c \in Client : \A j : new(j) => JobFits(c, j, evt')
    BY WriteFits, Zenon
  <2>2. \A j : new(j) => j.pc = "local" /\ j.path = p /\ j.val = v
    BY DEF Idle
  <2> QED BY <2>1, <2>2, Zenon
<1> HIDE DEF new
<1>6. JobInv'
  <2>1. CASE job' = job
    BY <1>1, <2>1, JobKept DEF WInv, TypeInv, SameEvent
  <2>2. ASSUME NEW c \in Client, NEW j, job' = [job EXCEPT ![c] = j], new(j)
        PROVE  JobInv'
    <3>1. c \in Proc /\ JobFits(c, j, evt') /\ SameEvent /\ JobInv
      BY <1>1, <1>5, <2>2 DEF Proc, SameEvent, WInv, TypeInv
    <3> QED BY <2>2, <3>1, JobSet, Zenon
  <2> QED BY <1>4, <2>1, <2>2
<1>7. ASSUME Null \notin Written PROVE PubInv'
  <2> DEFINE c0 == [path |-> p, val |-> v]
  <2>1. PubInv /\ JobInv /\ wal \in Seq(Change) /\ Len(wal) \in Nat
    BY <1>7 DEF WInv, TypeInv, LogInv, ListenerTypeOK
  <2>2. c0 \in Change /\ wal' = Append(wal, c0) /\ c0.path = p /\ c0.val = v
    BY <1>1, WriteThroughAssumption, Zenon DEF Change, Transact
  <2> HIDE DEF c0
  <2>3. /\ wal' \in Seq(Change)
        /\ Len(wal') = Len(wal) + 1
        /\ \A i \in 1..Len(wal) : wal'[i] = wal[i]
        /\ wal'[Len(wal) + 1] = c0
        /\ \A q, u : Committed(wal, q, u) => Committed(wal', q, u)
    <3>1. wal \in Seq(Change) /\ c0 \in Change /\ wal' = Append(wal, c0)
      BY <2>1, <2>2, Zenon
    <3>2. /\ wal' \in Seq(Change)
          /\ Len(wal') = Len(wal) + 1
          /\ \A i \in 1..Len(wal) : wal'[i] = wal[i]
          /\ wal'[Len(wal) + 1] = c0
      BY <3>1
    <3>3. \A q, u : Committed(wal, q, u) => Committed(wal', q, u)
      BY <3>1, LogGrows, Zenon
    <3> QED BY <3>2, <3>3, Zenon
  <2>4. \A i \in 1..Len(wal') : wal'[i].val # Null
    <3> SUFFICES ASSUME NEW i \in 1..Len(wal') PROVE wal'[i].val # Null
      OBVIOUS
    <3>1. CASE i \in 1..Len(wal)
      BY <2>1, <2>3, <3>1, Zenon DEF PubInv
    <3>2. CASE i = Len(wal) + 1
      BY <1>7, <2>2, <2>3, <3>2, Zenon
    <3> QED BY <2>1, <2>3, <3>1, <3>2
  <2>5. Shows(wal', local) /\ Shows(wal', snap) /\ \A w \in Proc : Brings(wal', job[w])
    BY <2>1, <2>3 DEF PubInv, Shows, Brings
  <2>6. v # Absent => Committed(wal', p, v)
    <3>1. Len(wal) + 1 \in 1..Len(wal')
      BY <2>1, <2>3
    <3>2. wal'[Len(wal) + 1].path = p /\ wal'[Len(wal) + 1].val = v
      BY <2>2, <2>3
    <3>3. v # Absent => v = Cell(wal'[Len(wal) + 1].val)
      BY <3>2, Zenon DEF Cell
    <3> QED BY <3>1, <3>2, <3>3, Zenon DEF Committed
  <2>7. \A w \in Proc : Brings(wal', job'[w])
    <3>1. ASSUME NEW c \in Client, NEW j, job' = [job EXCEPT ![c] = j], new(j), v # Absent
          PROVE  \A w \in Proc : Brings(wal', job'[w])
      <4>1. job'[c] = j /\ \A w \in Proc \ {c} : job'[w] = job[w]
        BY <2>1, <3>1 DEF JobInv, Proc
      <4>2. Brings(wal', j)
        BY <1>5, <2>6, <3>1 DEF Brings
      <4>3. ASSUME NEW w \in Proc PROVE Brings(wal', job'[w])
        <5>1. CASE w = c
          BY <4>1, <4>2, <5>1, Zenon
        <5>2. CASE w # c
          BY <2>5, <4>1, <5>2, Zenon
        <5> QED BY <5>1, <5>2
      <4> QED BY <4>3
    <3> QED BY <1>4, <2>5, <3>1
  <2>8. Shows(wal, local)' /\ Shows(wal, snap)'
    BY <1>1, <2>5 DEF Shows, Committed
  <2>9. \A w \in Proc : Brings(wal, job[w])'
    BY <2>7, Zenon DEF Brings, Committed
  <2> QED BY <2>4, <2>8, <2>9 DEF PubInv
<1> QED BY <1>2, <1>3, <1>6, <1>7 DEF WInv, TypeInv

LEMMA WInvRead ==
  ASSUME WInv, NEW w \in Proc, Select(w) \/ \E p \in Path : Look(w, p)
  PROVE  WInv'
<1>0. LogInv /\ JobInv /\ CacheInv
  BY DEF WInv, TypeInv
<1>1. /\ UNCHANGED <<wal, acked, conn, pos, mid, lastLSN, events, stopped>>
      /\ UNCHANGED <<local, evt, held, snap, done, reborn>>
  BY Zenon DEF Select, Look, listenerVars
<1>2. faults' \in 0..MaxFaults
  <2>1. faults \in 0..MaxFaults /\ MaxFaults \in Nat
    BY <1>0, ListenerAssumption DEF LogInv, ListenerTypeOK
  <2>2. faults' = faults \/ Fault
    BY Zenon DEF Select, Look, listenerVars
  <2> QED BY <2>1, <2>2 DEF Fault
<1>3. SameQueue /\ SameEvent /\ (evt' = Absent \/ (evt # Absent /\ evt' \in Event /\ SameChange(evt', evt)))
  BY <1>0, <1>1, SameQueueKept, Zenon DEF SameEvent, SameChange, LogInv
<1>4. LogInv'
  BY <1>0, <1>1, <1>2, <1>3, LogKept, Zenon
<1>5. PICK j : job' = [job EXCEPT ![w] = j] /\ JobFits(w, j, evt) /\ Brings(wal, j)
  <2>1. CASE Select(w)
    BY <1>0, <2>1, SelectFits, Zenon DEF Brings
  <2>2. CASE \E p \in Path : Look(w, p)
    BY <1>0, <2>2, LookFits, Zenon DEF Brings
  <2> QED BY <2>1, <2>2, Zenon
<1>6. held' \in BOOLEAN
  BY <1>0, <1>1, Zenon DEF CacheInv
<1>7. JobFits(w, j, evt')
  BY <1>1, <1>5, Zenon
<1> QED BY <1>1, <1>3, <1>4, <1>5, <1>6, <1>7, MoveKeeps, Zenon

LEMMA WInvAppend ==
  ASSUME WInv, (\E c \in Client : WriteLocal(c)) \/ (\E w \in Proc : Seed(w))
  PROVE  WInv'
<1>0. LogInv /\ JobInv /\ CacheInv /\ events \in Seq(Event)
  BY DEF WInv, TypeInv, LogInv, ListenerTypeOK
<1>1. UNCHANGED <<wal, acked, conn, pos, mid, lastLSN, stopped, faults, snap, done, reborn>>
  BY Zenon DEF WriteLocal, Seed
<1>2. faults' \in 0..MaxFaults
  BY <1>0, <1>1, Zenon DEF LogInv, ListenerTypeOK
<1>3. ASSUME NEW w \in Proc, job[w].pc \in {"local", "seed"}
      PROVE  /\ job[w].val \in Atom
             /\ Null \notin Written => Committed(wal, job[w].path, job[w].val)
  <2>1. job[w] \in Job
    BY <1>0 DEF JobInv, JobFits
  <2>2. job[w].val \in Atom
    BY <2>1, Zenon DEF Job, Atom
  <2> QED BY <1>3, <2>2, Zenon DEF WInv, PubInv, Brings
<1>4. ASSUME NEW p, NEW v, Put(p, v), evt' = Touched(evt, p, v)
      PROVE  LogInv' /\ SameEvent
  BY <1>0, <1>1, <1>2, <1>4, PutSame, TouchedEvent, LogKept, Zenon
<1>5. ASSUME NEW c \in Client, WriteLocal(c) \/ Seed(c) PROVE WInv'
  <2>1. /\ PutByClient(job[c].path, job[c].val) /\ job' = [job EXCEPT ![c] = Idle]
        /\ c \in Proc /\ job[c].pc \in {"local", "seed"}
    BY <1>5, WriteThroughAssumption, Zenon DEF WriteLocal, Seed, Proc
  <2>2. LogInv' /\ SameEvent /\ Put(job[c].path, job[c].val)
    BY <1>4, <2>1, Zenon DEF PutByClient
  <2>3. held' \in BOOLEAN
    BY <2>1, Zenon DEF PutByClient
  <2>4. JobFits(c, Idle, evt') /\ Idle.pc \notin {"local", "seed"}
    BY IdleFits, Zenon DEF Idle
  <2> QED BY <1>1, <1>3, <2>1, <2>2, <2>3, <2>4, AppendKeeps, Zenon
<1>6. CASE Seed(Applier)
  <2> DEFINE j == [job[Applier] EXCEPT !.pc = "fetch"]
  <2>1. /\ Put(evt.path, job[Applier].val) /\ evt' = Touched(evt, evt.path, job[Applier].val)
        /\ job' = [job EXCEPT ![Applier] = j] /\ Applier \in Proc /\ job[Applier].pc = "seed"
    BY <1>6, WriteThroughAssumption DEF Seed, Proc
  <2>2. held' \in BOOLEAN
    BY <1>6, WriteThroughAssumption, Zenon DEF Seed
  <2>3. LogInv' /\ SameEvent
    BY <1>4, <2>1, Zenon
  <2>4. evt \in Event /\ job[Applier].path = evt.path
    BY <1>0, <2>1, ApplierWorks, Zenon
  <2>5. evt' # Absent /\ SameChange(evt', evt)
    BY <2>1, <2>4, TouchedSame, Zenon
  <2>6. JobFits(Applier, j, evt') /\ j.pc = "fetch"
    BY <1>0, <2>1, <2>5, SeedFits, Zenon
  <2> HIDE DEF j
  <2>7. job[Applier].val \in Atom /\ (Null \notin Written => Committed(wal, evt.path, job[Applier].val))
    BY <1>3, <2>1, <2>4, Zenon
  <2> QED BY <1>1, <2>1, <2>2, <2>3, <2>6, <2>7, AppendKeeps, Zenon
<1> QED BY <1>5, <1>6 DEF Proc

LEMMA WInvApply ==
  ASSUME WInv, Apply
  PROVE  WInv'
<1>0. LogInv /\ JobInv /\ CacheInv /\ events \in Seq(Event) /\ Applier \in Proc
  BY Zenon DEF WInv, TypeInv, LogInv, ListenerTypeOK, Proc
<1>1. CASE LookHit \/ Fetch
  <2>1. UNCHANGED <<listenerVars, local, evt, snap, done, reborn>>
    BY <1>1, Zenon DEF LookHit, Fetch
  <2>2. held' \in BOOLEAN
    <3>1. held \in BOOLEAN
      BY <1>0 DEF CacheInv
    <3> QED BY <1>1, <3>1, Zenon DEF LookHit, Fetch
  <2>3. LogInv' /\ SameEvent
    <3>1. SameQueue /\ faults' \in 0..MaxFaults
      BY <1>0, <2>1, SameQueueKept, Zenon DEF listenerVars, LogInv, ListenerTypeOK
    <3>2. evt' = Absent \/ (evt # Absent /\ evt' \in Event /\ SameChange(evt', evt))
      BY <1>0, <2>1, Zenon DEF SameChange, LogInv
    <3>3. UNCHANGED <<wal, acked, conn, pos, mid, lastLSN, stopped>>
      BY <2>1, Zenon DEF listenerVars
    <3> QED BY <1>0, <2>1, <3>1, <3>2, <3>3, LogKept, Zenon DEF SameEvent
  <2>4. PICK j : job' = [job EXCEPT ![Applier] = j] /\ JobFits(Applier, j, evt) /\ j.pc = "decide"
    BY <1>0, <1>1, LookHitFits, FetchFits, Zenon
  <2>5. JobFits(Applier, j, evt') /\ Brings(wal, j) /\ UNCHANGED <<wal, local, snap, reborn>>
    BY <2>1, <2>4, Zenon DEF Brings, listenerVars
  <2> QED BY <1>0, <2>2, <2>3, <2>4, <2>5, MoveKeeps, Zenon
<1>2. CASE Take
  <2>1. UNCHANGED <<wal, local, held, snap, reborn>>
    BY <1>2 DEF Take
  <2>2. held' \in BOOLEAN
    BY <1>0, <2>1 DEF CacheInv
  <2>3. PICK j : job' = [job EXCEPT ![Applier] = j] /\ JobFits(Applier, j, evt')
                 /\ j.pc \in {"tomb", "look"}
    BY <1>0, <1>2, TakeFits
  <2>4. Brings(wal, j) /\ LogInv'
    BY <1>0, <1>2, <2>3, LogTake, Zenon DEF Brings
  <2> QED BY <1>0, <2>1, <2>2, <2>3, <2>4, MoveKeeps, Zenon
<1>3. ASSUME Finish, SameQueue, evt # Absent
      PROVE  /\ UNCHANGED <<wal, snap, reborn>> /\ held' \in BOOLEAN
             /\ LogInv' /\ job' = [job EXCEPT ![Applier] = Idle]
             /\ JobFits(Applier, Idle, evt') /\ Idle.pc = "idle"
  <2>1. /\ UNCHANGED <<wal, acked, conn, pos, mid, lastLSN, stopped, faults, held, snap, reborn>>
        /\ evt' = Absent /\ job' = [job EXCEPT ![Applier] = Idle]
        /\ done' = done \cup {evt.lsn}
    BY <1>3, Zenon DEF Finish
  <2>2. faults' \in 0..MaxFaults
    BY <1>0, <2>1, Zenon DEF LogInv, ListenerTypeOK
  <2>3. LogInv'
    BY <1>0, <1>3, <2>1, <2>2, LogKept, Zenon
  <2>4. held' \in BOOLEAN
    BY <1>0, <2>1, Zenon DEF CacheInv
  <2> QED BY <2>1, <2>3, <2>4, IdleFits, Zenon DEF Idle
<1>4. ASSUME job[Applier].pc \in {"tomb", "decide"}, Finish, NEW v \in Atom, Put(evt.path, v),
             evt # Absent, Null \notin Written => Committed(wal, evt.path, v)
      PROVE  WInv'
  <2>1. SameQueue
    BY <1>0, <1>4, PutSame, Zenon
  <2> QED BY <1>0, <1>3, <1>4, <2>1, AppendKeeps, Zenon
<1>5. ASSUME job[Applier].pc \in {"tomb", "decide"}
      PROVE  /\ evt \in Event /\ evt # Absent /\ evt.path \in Path
             /\ job[Applier].pc = "tomb" <=> evt.val = Absent
             /\ Committed(wal, evt.path, Cell(evt.val))
             /\ Null \notin Written => evt.val # Null
  <2>1. /\ evt \in Event /\ evt # Absent /\ evt.path \in Path
        /\ job[Applier].pc = "tomb" <=> evt.val = Absent
    BY <1>0, <1>5, ApplierWorks, Zenon
  <2>2. FromLog(wal, evt)
    BY <1>0, <2>1, Zenon DEF LogInv
  <2>3. Committed(wal, evt.path, Cell(evt.val))
    BY <2>2, Zenon DEF FromLog, Committed
  <2>4. Null \notin Written => evt.val # Null
    BY <2>2, Zenon DEF FromLog, WInv, PubInv
  <2> QED BY <2>1, <2>3, <2>4, Zenon
<1>6. CASE Bury
  <2>1. job[Applier].pc = "tomb" /\ Finish /\ Put(evt.path, Null) /\ Null \in Atom
    BY <1>6, Zenon DEF Bury, Atom
  <2>2. evt # Absent /\ Committed(wal, evt.path, Null)
    BY <1>5, <2>1, Zenon DEF Cell
  <2> QED BY <1>4, <2>1, <2>2, Zenon
<1>7. CASE Decide
  <2>1. job[Applier].pc = "decide" /\ Finish
    BY <1>7, Zenon DEF Decide
  <2>2. /\ evt \in Event /\ evt # Absent /\ evt.val # Absent
        /\ Null \notin Written => Committed(wal, evt.path, evt.val) /\ evt.val # Null
    BY <1>5, <2>1, Zenon DEF Cell
  <2>3. evt.val \in Val \cup {Null, Absent}
    BY <2>2, Zenon DEF Event
  <2>4. Text(evt.val) \in Atom /\ (Null \notin Written => Committed(wal, evt.path, Text(evt.val)))
    BY <2>2, <2>3, Zenon DEF Text, Atom
  <2>5. CASE Suppressed
    <3>1. UNCHANGED <<local, events>>
      BY <1>7, <2>5 DEF Decide
    <3>2. SameQueue
      BY <1>0, <3>1, SameQueueKept
    <3>3. /\ UNCHANGED <<wal, snap, reborn>> /\ held' \in BOOLEAN
          /\ LogInv' /\ job' = [job EXCEPT ![Applier] = Idle]
          /\ JobFits(Applier, Idle, evt') /\ Idle.pc = "idle"
      BY <1>3, <2>1, <2>2, <3>2
    <3>4. Brings(wal, Idle)
      BY <3>3, Zenon DEF Brings
    <3> QED BY <1>0, <3>1, <3>3, <3>4, MoveKeeps, Zenon
  <2>6. CASE ~Suppressed
    <3>1. Put(evt.path, Text(evt.val))
      BY <1>7, <2>6, Zenon DEF Decide
    <3> QED BY <1>4, <2>1, <2>2, <2>4, <3>1, Zenon
  <2> QED BY <2>5, <2>6
<1> QED BY <1>1, <1>2, <1>6, <1>7, Zenon DEF Apply

LEMMA WInvRestart ==
  ASSUME WInv, NEW file \in [Path -> Val \cup {NilText, Absent}], Restart(file),
         faults' \in 0..MaxFaults, snap' \in {snap, file},
         Null \notin Written => Shows(wal, file)
  PROVE  WInv'
<1>1. LogInv'
  BY LogRestart DEF WInv, TypeInv
<1>2. /\ local' = file /\ job' = [w \in Proc |-> Idle] /\ wal' = wal
      /\ held' = FALSE /\ reborn' = TRUE
  BY Zenon DEF Restart, LoseListener
<1>3. JobInv'
  BY <1>2, IdleFits, Zenon DEF JobInv
<1>4. local' \in [Path -> Atom]
  BY <1>2, Zenon DEF Atom
<1>5. snap' \in [Path -> Val \cup {NilText, Absent}]
  BY DEF WInv, TypeInv, CacheInv
<1>6. CacheInv'
  BY <1>2, <1>4, <1>5, Zenon DEF CacheInv
<1>7. ASSUME Null \notin Written PROVE PubInv'
  <2>1. PubInv
    BY <1>7, Zenon DEF WInv
  <2>2. Idle.pc = "idle" /\ \A w \in Proc : job'[w] = Idle
    BY <1>2, Zenon DEF Idle
  <2>3. \A w \in Proc : Brings(wal, job'[w])
    BY <2>2, Zenon DEF Brings
  <2>4. Shows(wal, local') /\ Shows(wal, snap')
    BY <1>2, <1>7, <2>1, Zenon DEF PubInv
  <2> QED BY <1>2, <2>1, <2>3, <2>4, PubKept, Zenon
<1> QED BY <1>1, <1>3, <1>6, <1>7, Zenon DEF WInv, TypeInv

LEMMA SavedFacts ==
  ASSUME WInv
  PROVE  /\ Saved \in [Path -> Val \cup {NilText, Absent}]
         /\ Null \notin Written => Shows(wal, Saved)
<1>1. \A p \in Path : local[p] \in Atom
  BY Zenon DEF WInv, TypeInv, CacheInv
<1>2. Saved \in [Path -> Val \cup {NilText, Absent}]
  BY <1>1, Zenon DEF Saved, Atom
<1>3. ASSUME Null \notin Written PROVE Shows(wal, Saved)
  BY <1>3 DEF WInv, PubInv, Shows, Saved
<1> QED BY <1>2, <1>3, Zenon

LEMMA WInvEnvironment ==
  ASSUME WInv, (\E p \in Path : Lose(p)) \/ SaveSnapshot \/ Crash \/ Exit
  PROVE  WInv'
<1>0. LogInv /\ JobInv /\ CacheInv
  BY DEF WInv, TypeInv
<1>1. CASE (\E p \in Path : Lose(p)) \/ SaveSnapshot
  <2>1. UNCHANGED <<listenerVars, job, evt, done, reborn>>
    BY <1>1, Zenon DEF Lose, SaveSnapshot
  <2>2. LogInv'
    <3>1. SameQueue /\ faults' \in 0..MaxFaults
      BY <1>0, <2>1, SameQueueKept, Zenon DEF listenerVars, LogInv, ListenerTypeOK
    <3>2. evt' = Absent \/ (evt # Absent /\ evt' \in Event /\ SameChange(evt', evt))
      BY <1>0, <2>1, Zenon DEF SameChange, LogInv
    <3> QED BY <1>0, <2>1, <3>1, <3>2, LogKept, Zenon DEF listenerVars
  <2>3. JobInv'
    BY <1>0, <2>1, JobKept, Zenon DEF SameEvent
  <2>4. held' \in BOOLEAN
    BY <1>0, <1>1, Zenon DEF Lose, SaveSnapshot, CacheInv
  <2>5. CASE \E p \in Path : Lose(p)
    <3>1. PICK p \in Path : local' = [local EXCEPT ![p] = Absent] /\ snap' = snap
      BY <2>5, Zenon DEF Lose
    <3>2. local' \in [Path -> Atom]
      BY <1>0, <3>1 DEF CacheInv, Atom
    <3>3. CacheInv'
      BY <1>0, <2>1, <2>4, <3>1, <3>2, Zenon DEF CacheInv
    <3>4. ASSUME Null \notin Written PROVE PubInv'
      <4>1. PubInv
        BY <3>4, Zenon DEF WInv
      <4>2. \A q \in Path : local'[q] \in {Absent, local[q]}
        BY <1>0, <3>1, Zenon DEF CacheInv
      <4>3. Shows(wal, local')
        BY <4>1, <4>2, Zenon DEF PubInv, Shows
      <4>4. Shows(wal, snap') /\ wal' = wal /\ \A w \in Proc : Brings(wal, job'[w])
        BY <2>1, <3>1, <4>1, Zenon DEF PubInv, listenerVars
      <4> QED BY <4>1, <4>3, <4>4, PubKept
    <3> QED BY <2>2, <2>3, <3>3, <3>4, Zenon DEF WInv, TypeInv
  <2>6. CASE SaveSnapshot
    <3>1. snap' = Saved /\ local' = local
      BY <2>6 DEF SaveSnapshot
    <3>2. CacheInv'
      BY <1>0, <2>1, <2>4, <3>1, SavedFacts, Zenon DEF CacheInv
    <3>3. ASSUME Null \notin Written PROVE PubInv'
      <4>1. PubInv
        BY <3>3, Zenon DEF WInv
      <4>2. Shows(wal, local') /\ Shows(wal, snap') /\ wal' = wal
        BY <2>1, <3>1, <3>3, <4>1, SavedFacts, Zenon DEF PubInv, listenerVars
      <4>3. \A w \in Proc : Brings(wal, job'[w])
        BY <2>1, <4>1, Zenon DEF PubInv
      <4> QED BY <4>1, <4>2, <4>3, PubKept, Zenon
    <3> QED BY <2>2, <2>3, <3>2, <3>3, Zenon DEF WInv, TypeInv
  <2> QED BY <1>1, <2>5, <2>6, Zenon
<1>2. faults \in 0..MaxFaults /\ MaxFaults \in Nat
  BY <1>0, ListenerAssumption, Zenon DEF LogInv, ListenerTypeOK
<1>3. CASE Crash
  <2>1. Restart(snap) /\ faults' \in 0..MaxFaults /\ snap' = snap
    BY <1>2, <1>3 DEF Crash, Fault
  <2>2. snap \in [Path -> Val \cup {NilText, Absent}] /\ (Null \notin Written => Shows(wal, snap))
    BY <1>0, Zenon DEF CacheInv, WInv, PubInv
  <2> QED BY <2>1, <2>2, WInvRestart, Zenon
<1>4. CASE Exit
  <2>1. Restart(Saved) /\ faults' \in 0..MaxFaults /\ snap' = Saved
    BY <1>2, <1>4 DEF Exit
  <2> QED BY <2>1, SavedFacts, WInvRestart, Zenon
<1> QED BY <1>1, <1>3, <1>4, Zenon

LEMMA WInvInitially == Init => WInv
<1> SUFFICES ASSUME Init PROVE WInv
  OBVIOUS
<1>1. /\ wal = <<>> /\ events = <<>> /\ evt = Absent /\ done = {} /\ acked = 0 /\ pos = 0
      /\ lastLSN = Absent /\ faults = 0
      /\ local = [p \in Path |-> Absent] /\ snap = [p \in Path |-> Absent]
      /\ job = [w \in Proc |-> Idle]
  BY DEF Init, ListenerInit
<1>2. conn = FALSE /\ mid = FALSE /\ stopped = FALSE /\ held = FALSE /\ reborn = FALSE
  BY Zenon DEF Init, ListenerInit
<1>3. /\ wal \in Seq(Change) /\ Len(wal) = 0 /\ Len(wal) <= MaxWal
      /\ events \in Seq(Event) /\ Len(events) = 0 /\ Len(events) <= ChanCap
      /\ 0 \in 0..MaxWal /\ 0 \in 0..MaxFaults
  BY <1>1, ListenerAssumption
<1>4. ListenerTypeOK
  BY <1>1, <1>2, <1>3, Zenon DEF ListenerTypeOK
<1>5. LogInv
  BY <1>1, <1>2, <1>3, <1>4 DEF LogInv
<1>6. JobInv
  BY <1>1, IdleFits, Zenon DEF JobInv
<1>7. CacheInv
  BY <1>1, <1>2, Zenon DEF CacheInv, Atom
<1>8. PubInv
  <2>1. Idle.pc = "idle"
    BY DEF Idle
  <2> QED BY <1>1, <1>3, <2>1 DEF PubInv, Shows, Brings
<1> QED BY <1>5, <1>6, <1>7, <1>8, Zenon DEF WInv, TypeInv

LEMMA WInvNext == WInv /\ [Next]_vars => WInv'
<1> SUFFICES ASSUME WInv, [Next]_vars PROVE WInv'
  OBVIOUS
<1>1. CASE UNCHANGED vars
  <2>1. UNCHANGED <<listenerVars, cacheVars>>
    BY <1>1, Zenon DEF vars
  <2>2. TypeInv'
    BY <2>1, Zenon DEF WInv, TypeInv, LogInv, ListenerTypeOK, FromLog, JobInv, JobFits, Works,
                CacheInv, listenerVars, cacheVars
  <2>3. PubInv => PubInv'
    BY <2>1, Zenon DEF PubInv, Shows, Brings, Committed, listenerVars, cacheVars
  <2> QED BY <2>2, <2>3 DEF WInv
<1>2. CASE \E p \in Path, v \in Written : \E c \in Client : WriteRefused(c, p, v)
  BY <1>1, <1>2 DEF WriteRefused
<1> QED BY <1>1, <1>2, WInvListen, WInvApply, WInvTransact, WInvAppend, WInvRead,
           WInvEnvironment, Zenon DEF Next

(* Type correctness of the write-through store and its CDC path.           *)
THEOREM WriteThroughTypeCorrect == Spec => []TypeOK
<1>1. WInv => TypeOK
  <2> SUFFICES ASSUME WInv PROVE TypeOK
    OBVIOUS
  <2>1. job \in [Proc -> Job]
    BY DEF WInv, TypeInv, JobInv, JobFits
  <2> QED BY <2>1, Zenon DEF WInv, TypeInv, LogInv, CacheInv, TypeOK
<1> QED BY <1>1, WInvInitially, WInvNext, PTL DEF Spec

(* adapter.go, main.go: if no column is ever set to NULL (which the applier*)
(* turns into the text "<nil>"), the local cache shows only values that    *)
(* were committed in PostgreSQL under that path, whatever upserts failed,  *)
(* events came late or twice, snapshots were loaded or entries were lost.  *)
THEOREM PublishedOnly == Null \notin Written /\ Spec => []Published
<1> SUFFICES ASSUME Null \notin Written PROVE Spec => []Published
  BY Zenon
<1>1. WInv => Published
  BY Zenon DEF WInv, PubInv, Shows, Committed, Cell, Published
<1> QED BY <1>1, WInvInitially, WInvNext, PTL DEF Spec
=============================================================================
