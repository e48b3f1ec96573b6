------------------------------- MODULE Poller -------------------------------
(***************************************************************************)
(* MySQLListener (internal/replication/mysql.go): every tick it asks each  *)
(* table for the rows above the highest id it has seen, sends them to the  *)
(* applier's channel without waiting, and stamps lastOK if no table        *)
(* failed.                                                                 *)
(*                                                                         *)
(* MySQL is external: a transaction takes an AUTO_INCREMENT id when it     *)
(* inserts, and its row is there when it commits, which need not be in the *)
(* order of the ids.  Of lastOK only its age matters, up to MaxSilence.    *)
(***************************************************************************)
EXTENDS Integers, FiniteSetsExt

CONSTANTS
  MaxId,       \* bound: ids of each table
  Limit,       \* rows of one query (1000 in the code)
  ChanCap,     \* capacity of the events channel (10000 in the code)
  MaxSilence,  \* max_staleness
  Never,       \* lastOK is 0
  NoTable      \* no rows are being read

Table == DOMAIN MaxId

ASSUME PollerAssumption ==
  /\ \A t \in Table : MaxId[t] \in Nat
  /\ Limit \in Nat \ {0}
  /\ ChanCap \in Nat
  /\ MaxSilence \in Nat
  /\ Never \notin Int
  /\ NoTable \notin DOMAIN MaxId

VARIABLES
  dbUp,     \* queries succeed
  row,      \* each id: "free", "open" or "row"
  jumped,   \* history: the tables with a commit below a committed id
  wm,       \* watermarks, in memory
  ppc,      \* "boot", "off", "idle", "tick" or "rows"
  left,     \* tables the tick has still to poll
  table,    \* the table being read
  result,   \* ids the query returned and that are still to be read
  tickOK,
  sent,     \* each id: "no", "bad", "queued", "applied" or "dropped"
  age       \* time since lastOK

pollVars == <<dbUp, row, jumped, wm, ppc, left, table, result, tickOK, sent, age>>

Ids(t) == 1..MaxId[t]

PollTypeOK ==
  /\ dbUp \in BOOLEAN
  /\ jumped \subseteq Table
  /\ ppc \in {"boot", "off", "idle", "tick", "rows"}
  /\ left \subseteq Table
  /\ table \in Table \cup {NoTable}
  /\ result = {} \/ (table \in Table /\ result \subseteq Ids(table))
  /\ tickOK \in BOOLEAN
  /\ age \in {Never} \cup 0..(MaxSilence + 1)
  /\ \A t \in Table :
       /\ row[t] \in [Ids(t) -> {"free", "open", "row"}]
       /\ wm[t] \in 0..MaxId[t]
       /\ sent[t] \in [Ids(t) -> {"no", "bad", "queued", "applied", "dropped"}]

PollInit ==
  /\ dbUp \in BOOLEAN
  /\ row = [t \in Table |-> [i \in Ids(t) |-> "free"]]
  /\ jumped = {}
  /\ wm = [t \in Table |-> 0]
  /\ ppc = "boot"
  /\ left = {}
  /\ table = NoTable
  /\ result = {}
  /\ tickOK = TRUE
  /\ sent = [t \in Table |-> [i \in Ids(t) |-> "no"]]
  /\ age = Never

-----------------------------------------------------------------------------
DbChanges == UNCHANGED <<wm, ppc, left, table, result, tickOK, sent, age>>

Insert(t, i) ==
  /\ row[t][i] = "free"
  /\ \A j \in 1..(i - 1) : row[t][j] # "free"
  /\ row' = [row EXCEPT ![t][i] = "open"]
  /\ UNCHANGED <<dbUp, jumped>>
  /\ DbChanges

Commit(t, i) ==
  /\ row[t][i] = "open"
  /\ row' = [row EXCEPT ![t][i] = "row"]
  /\ jumped' = IF \E j \in Ids(t) : j > i /\ row[t][j] = "row" THEN jumped \cup {t} ELSE jumped
  /\ UNCHANGED dbUp
  /\ DbChanges

DbFlips ==
  /\ dbUp' = ~dbUp
  /\ UNCHANGED <<row, jumped>>
  /\ DbChanges

-----------------------------------------------------------------------------
(* run: Ping at the start; without an answer it never polls.               *)
Ping ==
  /\ ppc = "boot"
  /\ ppc' = IF dbUp THEN "idle" ELSE "off"
  /\ UNCHANGED <<dbUp, row, jumped, wm, left, table, result, tickOK, sent, age>>

(* A mutant of TickStart: only one of the tables is polled.                *)
TickOneTable ==
  /\ ppc = "idle"
  /\ ppc' = "tick"
  /\ left' = {CHOOSE t \in Table : TRUE}
  /\ UNCHANGED <<dbUp, row, jumped, wm, table, result, tickOK, sent, age>>

TickStart ==
  /\ ppc = "idle"
  /\ ppc' = "tick"
  /\ left' = Table
  /\ UNCHANGED <<dbUp, row, jumped, wm, table, result, tickOK, sent, age>>

Above(t) == {i \in Ids(t) : row[t][i] = "row" /\ i > wm[t]}

(* A mutant of PollTable: without ORDER BY.                                *)
PollUnordered(t) ==
  /\ ppc = "tick" /\ t \in left /\ dbUp
  /\ table' = t
  /\ left' = left \ {t}
  /\ \E s \in SUBSET Above(t) :
       /\ Cardinality(s) = IF Cardinality(Above(t)) < Limit THEN Cardinality(Above(t)) ELSE Limit
       /\ result' = s
  /\ ppc' = "rows"
  /\ UNCHANGED <<dbUp, row, jumped, wm, tickOK, sent, age>>

(* A mutant of PollTable: from the watermark on, the last row again.       *)
PollFromWatermark(t) ==
  /\ ppc = "tick" /\ t \in left /\ dbUp
  /\ table' = t
  /\ left' = left \ {t}
  /\ result' = {i \in Ids(t) : row[t][i] = "row" /\ i >= wm[t]}
  /\ ppc' = "rows"
  /\ UNCHANGED <<dbUp, row, jumped, wm, tickOK, sent, age>>

(* pollTable's query: the Limit lowest ids above the watermark.            *)
PollTable(t) ==
  /\ ppc = "tick" /\ t \in left /\ dbUp
  /\ table' = t
  /\ left' = left \ {t}
  /\ result' = {i \in Above(t) : Cardinality({j \in Above(t) : j < i}) < Limit}
  /\ ppc' = "rows"
  /\ UNCHANGED <<dbUp, row, jumped, wm, tickOK, sent, age>>

(* It fails: the tick goes on with the next table.                         *)
PollFails(t) ==
  /\ ppc = "tick" /\ t \in left /\ ~dbUp
  /\ left' = left \ {t}
  /\ tickOK' = FALSE
  /\ UNCHANGED <<dbUp, row, jumped, wm, ppc, table, result, sent, age>>

Queued == {p \in UNION {{<<t, i>> : i \in Ids(t)} : t \in Table} : sent[p[1]][p[2]] = "queued"}

(* rows.Next: the rows come in the order of their ids.                     *)
Fetched(i) ==
  /\ ppc = "rows" /\ i \in result
  /\ \A j \in result : i <= j

(* A mutant of ReadRow: the watermark is the id to read next.              *)
ReadRowAndStep(i) ==
  /\ Fetched(i)
  /\ result' = result \ {i}
  /\ sent' = [sent EXCEPT ![table][i] = "queued"]
  /\ wm' = [wm EXCEPT ![table] = i + 1]
  /\ UNCHANGED <<dbUp, row, jumped, ppc, left, table, tickOK, age>>

(* A row: sent if the channel has room and dropped if not, and the         *)
(* watermark moves in either case.                                         *)
ReadRow(i) ==
  /\ Fetched(i)
  /\ result' = result \ {i}
  /\ sent' = [sent EXCEPT ![table][i] =
                IF Cardinality(Queued) < ChanCap THEN "queued" ELSE "dropped"]
  /\ wm' = [wm EXCEPT ![table] = Max({@, i})]
  /\ UNCHANGED <<dbUp, row, jumped, ppc, left, table, tickOK, age>>

(* Scan fails: the row is passed over.                                     *)
ScanFails(i) ==
  /\ Fetched(i)
  /\ result' = result \ {i}
  /\ sent' = [sent EXCEPT ![table][i] = "bad"]
  /\ UNCHANGED <<dbUp, row, jumped, wm, ppc, left, table, tickOK, age>>

(* The end of the rows; rows.Err if the connection broke off on the way.   *)
RowsEnd ==
  /\ ppc = "rows"
  /\ result = {} \/ ~dbUp
  /\ result' = {}
  /\ tickOK' = (tickOK /\ result = {})
  /\ table' = NoTable
  /\ ppc' = "tick"
  /\ UNCHANGED <<dbUp, row, jumped, wm, left, sent, age>>

(* A mutant of TickEnd: every tick is stamped.                             *)
TickEndStamps ==
  /\ ppc = "tick" /\ left = {}
  /\ ppc' = "idle"
  /\ age' = 0
  /\ tickOK' = TRUE
  /\ UNCHANGED <<dbUp, row, jumped, wm, left, table, result, sent>>

(* Only a clean tick is stamped.                                           *)
TickEnd ==
  /\ ppc = "tick" /\ left = {}
  /\ ppc' = "idle"
  /\ age' = IF tickOK THEN 0 ELSE age
  /\ tickOK' = TRUE
  /\ UNCHANGED <<dbUp, row, jumped, wm, left, table, result, sent>>

(* runCDCApplier takes an event.                                           *)
ApplyRow(t, i) ==
  /\ sent[t][i] = "queued"
  /\ sent' = [sent EXCEPT ![t][i] = "applied"]
  /\ UNCHANGED <<dbUp, row, jumped, wm, ppc, left, table, result, tickOK, age>>

TimePasses ==
  /\ age # Never /\ age <= MaxSilence
  /\ age' = age + 1
  /\ UNCHANGED <<dbUp, row, jumped, wm, ppc, left, table, result, tickOK, sent>>

(* staleRefused, the MySQL half.                                           *)
PollRefused == age # Never /\ age > MaxSilence

PollStep ==
  \/ Ping \/ TickStart \/ RowsEnd \/ TickEnd
  \/ \E i \in result : ReadRow(i) \/ ScanFails(i)
  \/ \E t \in Table : PollTable(t) \/ PollFails(t)

PollNext ==
  \/ PollStep \/ DbFlips \/ TimePasses
  \/ \E t \in Table : \E i \in Ids(t) : Insert(t, i) \/ Commit(t, i) \/ ApplyRow(t, i)
=============================================================================
