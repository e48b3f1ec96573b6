---------------------------- MODULE SlotMonitor ----------------------------
(***************************************************************************)
(* The replication slot as the slot monitor sees it                        *)
(* (internal/replication/slotmon.go), and what the monitor shares with the *)
(* stale guard.  The server's log is external: records that the            *)
(* publication covers are streamed to the listener, the others (of other   *)
(* databases, of tables outside it) are not.  An LSN is a count of         *)
(* records, and so is a lag.                                               *)
(***************************************************************************)
EXTENDS Integers

CONSTANTS
  PageLag,  \* PageBytes
  MaxLsn,   \* bound: records of the server's log
  None      \* nothing

ASSUME SlotAssumption ==
  /\ PageLag \in Nat
  /\ MaxLsn \in Nat
  /\ None \notin Int

(* Values of the shared state that are not lags.                           *)
Unknown == -1
Broken == -2

(* An answer that is none: the query returned an error.                    *)
Failed == -3

VARIABLES
  slot,       \* "active", "inactive" or "missing"
  walEnd,     \* pg_current_wal_lsn
  published,  \* the last record the publication covers
  lsn,        \* the listener's lastLSN
  confirmed,  \* confirmed_flush_lsn of the slot
  answer,     \* what the running CheckOnce has read, or None
  slotState   \* shared with the stale guard

slotVars == <<slot, walEnd, published, lsn, confirmed, answer, slotState>>

SlotTypeOK ==
  /\ slot \in {"active", "inactive", "missing"}
  /\ walEnd \in 0..MaxLsn
  /\ published \in 0..walEnd
  /\ lsn \in 0..walEnd
  /\ confirmed \in 0..walEnd
  /\ answer \in {None, Broken, Failed} \cup 0..MaxLsn
  /\ slotState \in {Unknown, Broken} \cup 0..MaxLsn

SlotInit ==
  /\ slot \in {"active", "missing"}
  /\ walEnd = 0
  /\ published = 0
  /\ lsn = 0
  /\ confirmed = 0
  /\ answer = None
  /\ slotState = Unknown

-----------------------------------------------------------------------------
(* The server writes a record.                                             *)
WriteWal ==
  /\ walEnd < MaxLsn
  /\ walEnd' = walEnd + 1
  /\ published' \in {published, walEnd + 1}
  /\ UNCHANGED <<slot, lsn, confirmed, answer, slotState>>

(* The connection is lost, or someone drops the slot.                      *)
LoseSlot ==
  /\ slot = "active"
  /\ slot' \in {"inactive", "missing"}
  /\ UNCHANGED <<walEnd, published, lsn, confirmed, answer, slotState>>

(* connectAndConsume: CreateReplicationSlot, whose slot starts at the end  *)
(* of the log, and whose error is ignored if there is one; then            *)
(* StartReplication.                                                       *)
ConnectSlot ==
  /\ slot # "active"
  /\ slot' = "active"
  /\ confirmed' = IF slot = "missing" THEN walEnd ELSE confirmed
  /\ UNCHANGED <<walEnd, published, lsn, answer, slotState>>

(* processXLogData: lastLSN follows the stream.                            *)
ReceiveWal ==
  /\ slot = "active"
  /\ lsn < published
  /\ lsn' = published
  /\ UNCHANGED <<slot, walEnd, published, confirmed, answer, slotState>>

(* A mutant of ConfirmWal: it confirms the start of the last record.       *)
ConfirmStart ==
  /\ slot = "active"
  /\ confirmed < lsn - 1
  /\ confirmed' = lsn - 1
  /\ UNCHANGED <<slot, walEnd, published, lsn, answer, slotState>>

(* sendStatusUpdate; the server never moves the slot back.                 *)
ConfirmWal ==
  /\ slot = "active"
  /\ confirmed < lsn
  /\ confirmed' = lsn
  /\ UNCHANGED <<slot, walEnd, published, lsn, answer, slotState>>

-----------------------------------------------------------------------------
Lag == walEnd - confirmed

(* QuerySlotInfo and ClassifySlot, with one threshold: what the slot check *)
(* of /readyz fails on.                                                    *)
Paged == slot # "active" \/ Lag >= PageLag

(* A mutant of QuerySlot: the inactive slot is reported by its lag.        *)
QueryLag ==
  /\ answer = None
  /\ answer' = IF slot = "missing" THEN Broken ELSE Lag
  /\ UNCHANGED <<slot, walEnd, published, lsn, confirmed, slotState>>

(* CheckOnce reads the slot: no slot and an inactive slot are Broken ...   *)
QuerySlot ==
  /\ answer = None
  /\ answer' = IF slot # "active" THEN Broken ELSE Lag
  /\ UNCHANGED <<slot, walEnd, published, lsn, confirmed, slotState>>

(* ... or the query itself returns an error.                               *)
QueryFails ==
  /\ answer = None
  /\ answer' = Failed
  /\ UNCHANGED <<slot, walEnd, published, lsn, confirmed, slotState>>

(* CheckOnce shares what it read; an error is a broken slot as well.       *)
ShareState ==
  /\ answer # None
  /\ slotState' = IF answer = Failed THEN Broken ELSE answer
  /\ answer' = None
  /\ UNCHANGED <<slot, walEnd, published, lsn, confirmed>>

(* staleRefused, the PostgreSQL half.                                      *)
SlotRefused == slotState = Broken \/ (slotState >= 0 /\ slotState >= PageLag)

SlotNext ==
  \/ WriteWal \/ LoseSlot \/ ConnectSlot \/ ReceiveWal \/ ConfirmWal
  \/ QuerySlot \/ QueryFails \/ ShareState
=============================================================================
