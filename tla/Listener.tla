------------------------------ MODULE Listener ------------------------------
(***************************************************************************)
(* PGListener (internal/replication/postgres.go): the consumer of a        *)
(* PostgreSQL logical replication slot.  It streams committed changes into *)
(* the events channel, tracks lastLSN, reports it to the server as flushed *)
(* and writes it to a checkpoint file, and reconnects after an error.      *)
(*                                                                         *)
(* The server's log is the sequence wal of committed transactions, one     *)
(* change each, in the order of their commit records.  A position (LSN) is *)
(* given by the number of commit records that start before it.  The server *)
(* is external: it streams a transaction as its change followed by its     *)
(* commit, and StartReplication skips every transaction whose commit       *)
(* record starts before the later of the requested position and the        *)
(* flushed position of the slot.                                           *)
(*                                                                         *)
(* The listener takes WALStart + len(WALData) for the position after a     *)
(* message.  WALData is the message as pgoutput encodes it, not the log,   *)
(* so that the sum may lie beyond records the listener has not been sent:  *)
(* Adjoining and Reach say where it lands.                                 *)
(***************************************************************************)
EXTENDS Naturals, FiniteSetsExt, Sequences

CONSTANTS
  Path,       \* table:id:column paths
  Val,        \* texts a column can hold
  Null,       \* SQL NULL, and VNull{} in the cache
  Absent,     \* no row; no atom; nothing
  ChanCap,    \* capacity of the events channel (10000 in the code)
  MaxWal,     \* bound: transactions committed
  Adjoining,  \* transactions whose commit record starts within the length of
              \* a commit message from the end of the one before
  Reach,      \* Reach[i]: the position after the change message of i
  MaxFaults   \* bound: lost connections, failed queries, crashes, restarts

ASSUME ListenerAssumption ==
  /\ Null \notin Val
  /\ Absent \notin Val
  /\ Null # Absent
  /\ ChanCap \in Nat \ {0}
  /\ MaxWal \in Nat
  /\ Adjoining \subseteq 2..MaxWal
  /\ Reach \in [1..MaxWal -> 0..MaxWal]
  /\ Absent \notin 0..MaxWal
  /\ MaxFaults \in Nat

VARIABLES
  wal,      \* server: committed changes
  acked,    \* where a new process resumes: the checkpoint file or the slot's
            \* confirmed_flush_lsn, whichever is later
  conn,     \* a replication connection is streaming
  pos,      \* transactions streamed to their commit record, or skipped
            \* (0 while disconnected)
  mid,      \* the change of transaction pos + 1 has been streamed
  lastLSN,  \* listener, in memory; Absent is the zero LSN: nothing received
  events,   \* the events channel
  stopped,  \* Close has been called
  faults    \* faults so far

listenerVars ==
  <<wal, acked, conn, pos, mid, lastLSN, events, stopped, faults>>

(* A change sets a column (Null included) or deletes its row (Absent).     *)
Change == [path : Path, val : Val \cup {Null, Absent}]

(* ChangeEvent: lsn is the position of its transaction.  Its CommitTime is *)
(* the server's clock when it sent the change (ServerTime); all the code   *)
(* asks is whether the path's current atom is younger than that, and late  *)
(* is the answer.                                                          *)
Event == [path : Path, val : Val \cup {Null, Absent}, lsn : 1..MaxWal, late : BOOLEAN]

ListenerTypeOK ==
  /\ wal \in Seq(Change) /\ Len(wal) <= MaxWal
  /\ acked \in 0..MaxWal
  /\ conn \in BOOLEAN
  /\ pos \in 0..MaxWal
  /\ mid \in BOOLEAN
  /\ lastLSN \in 0..MaxWal \cup {Absent}
  /\ events \in Seq(Event) /\ Len(events) <= ChanCap
  /\ stopped \in BOOLEAN
  /\ faults \in 0..MaxFaults

ListenerInit ==
  /\ wal = <<>>
  /\ acked = 0
  /\ conn = FALSE
  /\ pos = 0
  /\ mid = FALSE
  /\ lastLSN = Absent
  /\ events = <<>>
  /\ stopped = FALSE
  /\ faults = 0

(* The row as SELECT shows it: the last committed change of the path.      *)
Row(p) ==
  LET writes == {i \in 1..Len(wal) : wal[i].path = p}
  IN  IF writes = {} THEN Absent ELSE wal[Max(writes)].val

(* A transaction on the server, by Wavicle or by anyone else.              *)
Transact(p, v) ==
  /\ Len(wal) < MaxWal
  /\ wal' = Append(wal, [path |-> p, val |-> v])

(* Losing a connection, a query, a process.                                *)
Fault ==
  /\ faults < MaxFaults
  /\ faults' = faults + 1

Listening == UNCHANGED <<wal, acked, events, stopped>>

(* connectAndConsume up to its loop: resume from lastLSN, or, in a new     *)
(* process, from the checkpoint file, which may be missing or older than   *)
(* the slot; the server starts no earlier than the slot's flushed position.*)
Connect ==
  /\ ~conn /\ ~stopped
  /\ lastLSN' \in IF lastLSN = Absent THEN 0..acked \cup {Absent} ELSE {lastLSN}
  /\ pos' = IF lastLSN' = Absent THEN acked ELSE Max({lastLSN', acked})
  /\ conn' = TRUE
  /\ Listening
  /\ UNCHANGED <<mid, faults>>

(* A receive or status error: connectAndConsume returns, run retries.      *)
Disconnect ==
  /\ conn
  /\ Fault
  /\ conn' = FALSE
  /\ pos' = 0
  /\ mid' = FALSE
  /\ Listening
  /\ UNCHANGED lastLSN

(* A mutant of Receive: the channel never fills up.                        *)
ReceiveUnbounded ==
  /\ conn /\ ~mid
  /\ pos < Len(wal)
  /\ events' = Append(events, [path |-> wal[pos + 1].path, val |-> wal[pos + 1].val,
                               lsn |-> pos + 1, late |-> FALSE])
  /\ lastLSN' = Reach[pos + 1]
  /\ mid' = TRUE
  /\ UNCHANGED <<wal, acked, conn, pos, stopped, faults>>

(* processXLogData with a change: move lastLSN, build the event and queue  *)
(* it; the send blocks while the channel is full.  Transactions overlap,   *)
(* so a change may lie before the commit of one streamed earlier: lastLSN  *)
(* then goes back, and what follows is sent again after a reconnect.       *)
Receive ==
  /\ conn /\ ~mid
  /\ pos < Len(wal)
  /\ Len(events) < ChanCap
  /\ events' = Append(events, [path |-> wal[pos + 1].path, val |-> wal[pos + 1].val,
                               lsn |-> pos + 1, late |-> FALSE])
  /\ lastLSN' = Reach[pos + 1]
  /\ mid' = TRUE
  /\ UNCHANGED <<wal, acked, conn, pos, stopped, faults>>

(* processXLogData with the commit record: only lastLSN moves.  WALStart   *)
(* is the end of the record, and the length of the message is added to it. *)
ReceiveCommit ==
  /\ conn /\ mid
  /\ pos' = pos + 1
  /\ lastLSN' = IF pos + 2 \in Adjoining THEN pos + 2 ELSE pos + 1
  /\ mid' = FALSE
  /\ Listening
  /\ UNCHANGED <<conn, faults>>

(* A mutant of SendStatus: it confirms the end of the server's log, as the *)
(* keepalive message reports it.                                           *)
ConfirmWalEnd ==
  /\ conn
  /\ lastLSN # Absent
  /\ acked' = Len(wal)
  /\ UNCHANGED <<wal, conn, pos, mid, lastLSN, events, stopped, faults>>

(* sendStatusUpdate, on a timer or when a keepalive asks for a reply: the  *)
(* server's flushed position and then the checkpoint file.  The message    *)
(* may be lost, the file not written, or the slot keep a later position.   *)
SendStatus ==
  /\ conn
  /\ lastLSN # Absent
  /\ acked' \in {acked, lastLSN}
  /\ UNCHANGED <<wal, conn, pos, mid, lastLSN, events, stopped, faults>>

(* What Close can find in lastLSN: the listener may be on its way from     *)
(* moving it to queueing the event, which is then dropped.                 *)
Received ==
  IF conn /\ ~mid /\ pos < Len(wal) THEN {lastLSN, Reach[pos + 1]} ELSE {lastLSN}

(* Close, at a graceful shutdown: a last status and checkpoint.            *)
CloseListener ==
  /\ ~stopped
  /\ Fault
  /\ stopped' = TRUE
  /\ acked' \in {acked} \cup (Received \ {Absent})
  /\ conn' = FALSE
  /\ pos' = 0
  /\ mid' = FALSE
  /\ UNCHANGED <<wal, lastLSN, events>>

(* What the end of the process does to it: the channel and lastLSN go.     *)
LoseListener ==
  /\ conn' = FALSE
  /\ pos' = 0
  /\ mid' = FALSE
  /\ lastLSN' = Absent
  /\ events' = <<>>
  /\ stopped' = FALSE
  /\ UNCHANGED <<wal, acked>>

ListenerNext ==
  \/ Connect
  \/ Disconnect
  \/ Receive
  \/ ReceiveCommit
  \/ SendStatus
  \/ CloseListener
=============================================================================
