-------------------------- MODULE StaleGuardProofs --------------------------
(***************************************************************************)
(* The poller of StaleGuard passes over no row and sends none twice, and   *)
(* the types of its state, for any number of tables and ids, any LIMIT and *)
(* any capacity.                                                           *)
(***************************************************************************)
EXTENDS StaleGuard, FiniteSetTheorems, TLAPS

LEMMA MaxFacts ==
  ASSUME NEW a \in Int, NEW b \in Int
  PROVE  Max({a, b}) = IF a >= b THEN a ELSE b
<1> DEFINE m == IF a >= b THEN a ELSE b
<1>1. m \in {a, b} /\ \A y \in {a, b} : m >= y
  OBVIOUS
<1>2. \A x \in {a, b} : (\A y \in {a, b} : x >= y) => x = m
  OBVIOUS
<1> QED BY <1>1, <1>2 DEF Max

(* What holds of a table with rows r, watermark w and fates s.             *)
TableInv(t, r, w, s, jumps) ==
  /\ r \in [Ids(t) -> {"free", "open", "row"}]
  /\ w \in 0..MaxId[t]
  /\ s \in [Ids(t) -> {"no", "bad", "queued", "applied", "dropped"}]
  /\ w = 0 \/ r[w] = "row"
  /\ t \in jumps \/ \A i \in Ids(t) : r[i] = "row" /\ i <= w => s[i] # "no"
  /\ \A i \in Ids(t) : s[i] \in {"queued", "applied", "dropped"} => i <= w

(* What holds of the rows the poller is reading from it: they are above    *)
(* the watermark, and no unread row is below them.                         *)
ResultInv(t, r, w, s, jumps, ids) ==
  /\ ids \subseteq Ids(t)
  /\ \A i \in ids : r[i] = "row" /\ i > w
  /\ t \in jumps \/ \A i \in ids : \A j \in Ids(t) :
                          j < i /\ r[j] = "row" /\ s[j] = "no" => j \in ids

PollInv ==
  /\ row = [t \in Table |-> row[t]]
  /\ wm = [t \in Table |-> wm[t]]
  /\ sent = [t \in Table |-> sent[t]]
  /\ \A t \in Table : TableInv(t, row[t], wm[t], sent[t], jumped)
  /\ result = {} \/
       (table \in Table /\
        ResultInv(table, row[table], wm[table], sent[table], jumped, result))

LEMMA PollInitially == PollInit => PollInv
BY PollerAssumption DEF PollInit, PollInv, TableInv, ResultInv, Ids

(* Each step on one table, as it changes r, w, s and the rows being read.  *)
LEMMA CommitKeeps ==
  ASSUME NEW t \in Table, NEW r, NEW w, NEW s, NEW jumps, NEW jumps2, NEW ids,
         NEW i \in Ids(t), r[i] = "open", TableInv(t, r, w, s, jumps),
         t \in jumps2 <=> (t \in jumps \/ \E j \in Ids(t) : j > i /\ r[j] = "row")
  PROVE  LET r2 == [r EXCEPT ![i] = "row"]
         IN  /\ TableInv(t, r2, w, s, jumps2)
             /\ ResultInv(t, r, w, s, jumps, ids) => ResultInv(t, r2, w, s, jumps2, ids)
<1> DEFINE r2 == [r EXCEPT ![i] = "row"]
<1>1. MaxId[t] \in Nat
  BY PollerAssumption
<1>2. TableInv(t, r2, w, s, jumps2)
  BY <1>1 DEF TableInv, Ids
<1>3. ASSUME ResultInv(t, r, w, s, jumps, ids) PROVE ResultInv(t, r2, w, s, jumps2, ids)
  BY <1>1, <1>3 DEF TableInv, ResultInv, Ids
<1> QED BY <1>2, <1>3

LEMMA InsertKeeps ==
  ASSUME NEW t \in Table, NEW r, NEW w, NEW s, NEW jumps, NEW ids,
         NEW i \in Ids(t), r[i] = "free", TableInv(t, r, w, s, jumps)
  PROVE  LET r2 == [r EXCEPT ![i] = "open"]
         IN  /\ TableInv(t, r2, w, s, jumps)
             /\ ResultInv(t, r, w, s, jumps, ids) => ResultInv(t, r2, w, s, jumps, ids)
<1>1. MaxId[t] \in Nat
  BY PollerAssumption
<1> QED BY <1>1 DEF TableInv, ResultInv, Ids

LEMMA FateKeeps ==
  ASSUME NEW t \in Table, NEW r, NEW w, NEW s, NEW jumps, NEW ids,
         NEW i \in Ids(t), s[i] = "queued", TableInv(t, r, w, s, jumps)
  PROVE  LET s2 == [s EXCEPT ![i] = "applied"]
         IN  /\ TableInv(t, r, w, s2, jumps)
             /\ ResultInv(t, r, w, s, jumps, ids) => ResultInv(t, r, w, s2, jumps, ids)
<1>1. MaxId[t] \in Nat
  BY PollerAssumption
<1> QED BY <1>1 DEF TableInv, ResultInv, Ids

LEMMA ReadKeeps ==
  ASSUME NEW t \in Table, NEW r, NEW w, NEW s, NEW jumps, NEW ids,
         NEW i \in ids, \A j \in ids : i <= j, NEW f \in {"queued", "dropped"},
         TableInv(t, r, w, s, jumps), ResultInv(t, r, w, s, jumps, ids)
  PROVE  LET s2 == [s EXCEPT ![i] = f]
         IN  /\ TableInv(t, r, i, s2, jumps)
             /\ ResultInv(t, r, i, s2, jumps, ids \ {i})
<1>1. MaxId[t] \in Nat
  BY PollerAssumption
<1> QED BY <1>1 DEF TableInv, ResultInv, Ids

LEMMA PassKeeps ==
  ASSUME NEW t \in Table, NEW r, NEW w, NEW s, NEW jumps, NEW ids,
         NEW i \in ids, \A j \in ids : i <= j,
         TableInv(t, r, w, s, jumps), ResultInv(t, r, w, s, jumps, ids)
  PROVE  LET s2 == [s EXCEPT ![i] = "bad"]
         IN  /\ TableInv(t, r, w, s2, jumps)
             /\ ResultInv(t, r, w, s2, jumps, ids \ {i})
<1>1. MaxId[t] \in Nat
  BY PollerAssumption
<1> QED BY <1>1 DEF TableInv, ResultInv, Ids

(* The lowest ids up to the LIMIT have no unread row below them.           *)
LEMMA QueryKeeps ==
  ASSUME NEW t \in Table, PollInv
  PROVE  ResultInv(t, row[t], wm[t], sent[t], jumped,
                   {i \in Above(t) : Cardinality({j \in Above(t) : j < i}) < Limit})
<1> DEFINE below(i) == {j \in Above(t) : j < i}
           ids == {i \in Above(t) : Cardinality(below(i)) < Limit}
<1>1. MaxId[t] \in Nat /\ Limit \in Nat
  BY PollerAssumption
<1>2. TableInv(t, row[t], wm[t], sent[t], jumped)
  BY DEF PollInv
<1>3. \A i \in ids : row[t][i] = "row" /\ i > wm[t] /\ i \in Ids(t)
  BY DEF Above
<1>4. ASSUME t \notin jumped, NEW i \in ids, NEW j \in Ids(t),
             j < i, row[t][j] = "row", sent[t][j] = "no"
      PROVE  j \in ids
  <2>1. j \in Above(t)
    BY <1>1, <1>2, <1>4 DEF Above, TableInv, Ids
  <2>2. below(j) \subseteq below(i)
    BY <1>1, <1>4 DEF Above, Ids
  <2>3. IsFiniteSet(below(i))
    <3>1. IsFiniteSet(Ids(t))
      BY <1>1, FS_Interval DEF Ids
    <3> QED BY <3>1, FS_Subset DEF Above
  <2>4. /\ Cardinality(below(j)) <= Cardinality(below(i))
        /\ Cardinality(below(j)) \in Nat /\ Cardinality(below(i)) \in Nat
    BY <2>2, <2>3, FS_Subset, FS_CardinalityType
  <2> QED BY <1>1, <2>1, <2>4
<1> HIDE DEF ids
<1>5. ResultInv(t, row[t], wm[t], sent[t], jumped, ids)
  BY <1>3, <1>4, SMTT(20) DEF ResultInv
<1> QED BY <1>5 DEF ids

LEMMA PollNextPreserves == PollInv /\ PollNext => PollInv'
<1> SUFFICES ASSUME PollInv, PollNext PROVE PollInv'
  OBVIOUS
<1> USE DEF PollInv
<1>1. CASE Ping \/ TickStart \/ TickEnd \/ DbFlips \/ TimePasses
  BY <1>1 DEF Ping, TickStart, TickEnd, DbFlips, DbChanges, TimePasses
<1>2. CASE RowsEnd
  BY <1>2 DEF RowsEnd
<1>3. ASSUME NEW i \in result, ReadRow(i) PROVE PollInv'
  <2>1. /\ table \in Table
        /\ TableInv(table, row[table], wm[table], sent[table], jumped)
        /\ ResultInv(table, row[table], wm[table], sent[table], jumped, result)
        /\ \A j \in result : i <= j
    BY <1>3 DEF ReadRow, Fetched
  <2>2. PICK f \in {"queued", "dropped"} : sent' = [sent EXCEPT ![table][i] = f]
    BY <1>3, Zenon DEF ReadRow
  <2>3. Max({wm[table], i}) = i
    <3>1. MaxId[table] \in Nat
      BY <2>1, PollerAssumption
    <3>2. i \in Int /\ wm[table] \in Int /\ i > wm[table]
      BY <2>1, <3>1 DEF TableInv, ResultInv, Ids
    <3> QED BY <3>2, MaxFacts
  <2>4. /\ wm' = [wm EXCEPT ![table] = i] /\ result' = result \ {i}
        /\ row' = row /\ table' = table /\ jumped' = jumped
    BY <1>3, <2>3, Zenon DEF ReadRow
  <2>5. sent'[table] = [sent[table] EXCEPT ![i] = f] /\ wm'[table] = i
    BY <2>1, <2>2, <2>4
  <2>6. /\ TableInv(table, row[table], i, sent'[table], jumped)
        /\ ResultInv(table, row[table], i, sent'[table], jumped, result \ {i})
    BY <2>1, <2>2, <2>5, ReadKeeps, Zenon
  <2> QED BY <2>1, <2>2, <2>4, <2>5, <2>6, Zenon
<1>4. ASSUME NEW i \in result, ScanFails(i) PROVE PollInv'
  <2>1. /\ table \in Table
        /\ TableInv(table, row[table], wm[table], sent[table], jumped)
        /\ ResultInv(table, row[table], wm[table], sent[table], jumped, result)
        /\ \A j \in result : i <= j
    BY <1>4 DEF ScanFails, Fetched
  <2>2. /\ sent' = [sent EXCEPT ![table][i] = "bad"] /\ result' = result \ {i}
        /\ row' = row /\ table' = table /\ jumped' = jumped /\ wm' = wm
    BY <1>4 DEF ScanFails
  <2>3. sent'[table] = [sent[table] EXCEPT ![i] = "bad"]
    BY <2>1, <2>2
  <2>4. /\ TableInv(table, row[table], wm[table], sent'[table], jumped)
        /\ ResultInv(table, row[table], wm[table], sent'[table], jumped, result \ {i})
    BY <2>1, <2>3, PassKeeps
  <2> QED BY <2>1, <2>2, <2>4, Zenon
<1>5. ASSUME NEW t \in Table, PollTable(t) PROVE PollInv'
  BY <1>5, QueryKeeps DEF PollTable
<1>6. ASSUME NEW t \in Table, PollFails(t) PROVE PollInv'
  BY <1>6 DEF PollFails
<1>7. ASSUME NEW t \in Table, NEW i \in Ids(t), Insert(t, i) PROVE PollInv'
  <2>1. /\ row' = [row EXCEPT ![t] = [row[t] EXCEPT ![i] = "open"]] /\ row[t][i] = "free"
        /\ UNCHANGED <<jumped, wm, sent, table, result>>
    BY <1>7 DEF Insert, DbChanges
  <2>2. row'[t] = [row[t] EXCEPT ![i] = "open"]
    BY <2>1
  <2>3. /\ TableInv(t, row'[t], wm[t], sent[t], jumped)
        /\ ResultInv(t, row[t], wm[t], sent[t], jumped, result)
             => ResultInv(t, row'[t], wm[t], sent[t], jumped, result)
    BY <2>1, <2>2, InsertKeeps, Zenon
  <2> QED BY <2>1, <2>3, Zenon
<1>8. ASSUME NEW t \in Table, NEW i \in Ids(t), Commit(t, i) PROVE PollInv'
  <2>1. /\ row' = [row EXCEPT ![t] = [row[t] EXCEPT ![i] = "row"]] /\ row[t][i] = "open"
        /\ UNCHANGED <<wm, sent, table, result>>
    BY <1>8 DEF Commit, DbChanges
  <2>2. /\ t \in jumped' <=> (t \in jumped \/ \E j \in Ids(t) : j > i /\ row[t][j] = "row")
        /\ \A u \in Table \ {t} : u \in jumped' <=> u \in jumped
    BY <1>8 DEF Commit
  <2>3. row'[t] = [row[t] EXCEPT ![i] = "row"]
    BY <2>1
  <2>4. /\ TableInv(t, row'[t], wm[t], sent[t], jumped')
        /\ ResultInv(t, row[t], wm[t], sent[t], jumped, result)
             => ResultInv(t, row'[t], wm[t], sent[t], jumped', result)
    BY <2>1, <2>2, <2>3, CommitKeeps, Zenon
  <2>5. ASSUME NEW u \in Table \ {t}
        PROVE  /\ row'[u] = row[u]
               /\ TableInv(u, row[u], wm[u], sent[u], jumped')
               /\ ResultInv(u, row[u], wm[u], sent[u], jumped, result)
                    => ResultInv(u, row[u], wm[u], sent[u], jumped', result)
    BY <2>1, <2>2 DEF TableInv, ResultInv
  <2> QED BY <2>1, <2>4, <2>5, Zenon
<1>9. ASSUME NEW t \in Table, NEW i \in Ids(t), ApplyRow(t, i) PROVE PollInv'
  <2>1. /\ sent' = [sent EXCEPT ![t] = [sent[t] EXCEPT ![i] = "applied"]]
        /\ sent[t][i] = "queued" /\ UNCHANGED <<row, jumped, wm, table, result>>
    BY <1>9 DEF ApplyRow
  <2>2. sent'[t] = [sent[t] EXCEPT ![i] = "applied"]
    BY <2>1
  <2>3. /\ TableInv(t, row[t], wm[t], sent'[t], jumped)
        /\ ResultInv(t, row[t], wm[t], sent[t], jumped, result)
             => ResultInv(t, row[t], wm[t], sent'[t], jumped, result)
    BY <2>1, <2>2, FateKeeps, Zenon
  <2> QED BY <2>1, <2>3, Zenon
<1> QED BY <1>1, <1>2, <1>3, <1>4, <1>5, <1>6, <1>7, <1>8, <1>9 DEF PollNext, PollStep

LEMMA PollInvariant == Spec => []PollInv
<1>1. Init => PollInv
  BY PollInitially DEF Init
<1>2. PollInv /\ [Next]_vars => PollInv'
  <2>1. CASE UNCHANGED pollVars
    BY <2>1 DEF PollInv, pollVars
  <2> QED BY <2>1, PollNextPreserves DEF Next, Postgres, MySQL, vars
<1> QED BY <1>1, <1>2, PTL DEF Spec

(* The watermark of pollTable passes over no committed row of a table      *)
(* whose transactions commit in the order of their ids.                    *)
THEOREM PollerSkipsNothing == Spec => []NothingSkipped
<1>1. PollInv => NothingSkipped
  BY DEF PollInv, TableInv, NothingSkipped
<1> QED BY <1>1, PollInvariant, PTL

(* A row that went into the channel of pollTable, or was dropped at it, is *)
(* never read again.                                                       *)
THEOREM PollerSendsOnce == Spec => SentOnce
<1> DEFINE Keeps == \A t \in Table : \A i \in Ids(t) :
                      sent[t][i] \in {"applied", "dropped"} => sent'[t][i] = sent[t][i]
<1>1. PollInv /\ [Next]_vars => [Keeps]_vars
  <2> SUFFICES ASSUME PollInv, Next PROVE Keeps
    OBVIOUS
  <2>1. ASSUME NEW i \in result, ReadRow(i) \/ ScanFails(i) PROVE Keeps
    <3>1. table \in Table /\ i \in Ids(table) /\ i > wm[table]
      BY DEF PollInv, ResultInv
    <3>2. MaxId[table] \in Nat /\ wm[table] \in Nat
      BY <3>1, PollerAssumption DEF PollInv, TableInv
    <3>3. sent[table][i] \notin {"applied", "dropped"}
      BY <3>1, <3>2 DEF PollInv, TableInv, Ids
    <3>4. PICK f : sent' = [sent EXCEPT ![table][i] = f]
      BY <2>1 DEF ReadRow, ScanFails
    <3>5. ASSUME NEW t \in Table, NEW j \in Ids(t), sent[t][j] \in {"applied", "dropped"}
          PROVE  sent'[t][j] = sent[t][j]
      <4>1. t # table \/ j # i
        BY <3>3, <3>5
      <4>2. sent = [u \in Table |-> sent[u]] /\ sent[t] = [n \in Ids(t) |-> sent[t][n]]
        BY DEF PollInv, TableInv
      <4> QED BY <3>1, <3>4, <4>1, <4>2
    <3> QED BY <3>5
  <2>2. ASSUME NEW t \in Table, NEW i \in Ids(t), ApplyRow(t, i) PROVE Keeps
    BY <2>2 DEF ApplyRow, PollInv, TableInv
  <2>3. CASE sent' = sent
    BY <2>3
  <2> QED BY <2>1, <2>2, <2>3
          DEF Next, Postgres, MySQL, PollNext, PollStep, pollVars, Ping, TickStart, TickEnd,
              RowsEnd, PollTable, PollFails, DbFlips, Insert, Commit, DbChanges, TimePasses
<1> QED BY <1>1, PollInvariant, PTL DEF Spec, SentOnce

-----------------------------------------------------------------------------
(* The types.  Those of the rows, watermarks, fates and results are part   *)
(* of PollInv.                                                             *)

ControlInv ==
  /\ jumped \subseteq Table
  /\ ppc \in {"boot", "off", "idle", "tick", "rows"}
  /\ left \subseteq Table
  /\ table \in Table \cup {NoTable}
  /\ age \in {Never} \cup 0..(MaxSilence + 1)

FlagInv == dbUp \in BOOLEAN /\ tickOK \in BOOLEAN

KindInv == mode \in {"postgres", "mysql"} /\ SlotTypeOK /\ ControlInv /\ FlagInv

LEMMA KindInitially == Init => KindInv
<1> SUFFICES ASSUME Init PROVE KindInv
  OBVIOUS
<1>1. SlotTypeOK
  BY SlotAssumption DEF Init, SlotInit, SlotTypeOK
<1>2. ControlInv
  BY DEF Init, PollInit, ControlInv
<1>3. FlagInv
  BY Zenon DEF Init, PollInit, FlagInv
<1> QED BY <1>1, <1>2, <1>3 DEF Init, KindInv

(* No record is confirmed or received that the log does not hold, so the   *)
(* lag the monitor computes is never negative, and never taken for one of  *)
(* the two values that are not lags.                                       *)
LEMMA SlotTypes == SlotTypeOK /\ SlotNext => SlotTypeOK'
<1> SUFFICES ASSUME SlotTypeOK, SlotNext PROVE SlotTypeOK'
  OBVIOUS
<1>1. CASE WriteWal
  BY <1>1, SlotAssumption DEF WriteWal, SlotTypeOK
<1>2. CASE LoseSlot \/ ConnectSlot
  BY <1>2 DEF LoseSlot, ConnectSlot, SlotTypeOK
<1>3. CASE ReceiveWal \/ ConfirmWal
  BY <1>3 DEF ReceiveWal, ConfirmWal, SlotTypeOK
<1>4. CASE QuerySlot
  BY <1>4, SlotAssumption DEF QuerySlot, Lag, SlotTypeOK
<1>5. CASE QueryFails \/ ShareState
  BY <1>5 DEF QueryFails, ShareState, SlotTypeOK, Failed
<1> QED BY <1>1, <1>2, <1>3, <1>4, <1>5 DEF SlotNext

LEMMA ControlTypes == ControlInv /\ PollNext => ControlInv'
<1> SUFFICES ASSUME ControlInv, PollNext PROVE ControlInv'
  OBVIOUS
<1>1. CASE Ping \/ TickStart \/ RowsEnd
  BY <1>1 DEF Ping, TickStart, RowsEnd, ControlInv
<1>2. CASE TickEnd
  BY <1>2, PollerAssumption DEF TickEnd, ControlInv
<1>3. ASSUME NEW t \in Table, PollTable(t) \/ PollFails(t) PROVE ControlInv'
  BY <1>3 DEF PollTable, PollFails, ControlInv
<1>4. ASSUME NEW i, ReadRow(i) \/ ScanFails(i) PROVE ControlInv'
  BY <1>4 DEF ReadRow, ScanFails, ControlInv
<1>5. CASE DbFlips
  BY <1>5 DEF DbFlips, DbChanges, ControlInv
<1>6. CASE TimePasses
  BY <1>6, PollerAssumption DEF TimePasses, ControlInv
<1>7. ASSUME NEW t \in Table, NEW i, Insert(t, i) \/ Commit(t, i) \/ ApplyRow(t, i)
      PROVE  ControlInv'
  BY <1>7 DEF Insert, Commit, ApplyRow, DbChanges, ControlInv
<1> QED BY <1>1, <1>2, <1>3, <1>4, <1>5, <1>6, <1>7 DEF PollNext, PollStep

LEMMA FlagTypes == FlagInv /\ PollNext => FlagInv'
<1> SUFFICES ASSUME FlagInv, PollNext PROVE FlagInv'
  OBVIOUS
<1>1. dbUp' = dbUp \/ dbUp' = ~dbUp
  BY Zenon DEF PollNext, PollStep, Ping, TickStart, RowsEnd, TickEnd, PollTable, PollFails, ReadRow,
     ScanFails, DbFlips, TimePasses, Insert, Commit, ApplyRow, DbChanges
<1>2. \/ tickOK' = tickOK \/ tickOK' = TRUE \/ tickOK' = FALSE
      \/ tickOK' = (tickOK /\ result = {})
  BY Zenon DEF PollNext, PollStep, Ping, TickStart, RowsEnd, TickEnd, PollTable, PollFails, ReadRow,
     ScanFails, DbFlips, TimePasses, Insert, Commit, ApplyRow, DbChanges
<1>3. (~dbUp) \in BOOLEAN /\ (tickOK /\ result = {}) \in BOOLEAN
  OBVIOUS
<1> QED BY <1>1, <1>2, <1>3, Zenon DEF FlagInv

LEMMA KindNext == KindInv /\ [Next]_vars => KindInv'
<1> SUFFICES ASSUME KindInv, [Next]_vars PROVE KindInv'
  OBVIOUS
<1>1. CASE Postgres
  <2>1. SlotTypeOK'
    BY <1>1, SlotTypes DEF Postgres, KindInv
  <2>2. ControlInv' /\ FlagInv'
    BY <1>1 DEF Postgres, pollVars, KindInv, ControlInv, FlagInv
  <2> QED BY <1>1, <2>1, <2>2 DEF Postgres, KindInv
<1>2. CASE MySQL
  <2>1. SlotTypeOK'
    BY <1>2 DEF MySQL, slotVars, KindInv, SlotTypeOK
  <2>2. ControlInv' /\ FlagInv'
    BY <1>2, ControlTypes, FlagTypes DEF MySQL, KindInv
  <2> QED BY <1>2, <2>1, <2>2 DEF MySQL, KindInv
<1>3. CASE UNCHANGED vars
  BY <1>3 DEF vars, slotVars, pollVars, KindInv, SlotTypeOK, ControlInv, FlagInv
<1> QED BY <1>1, <1>2, <1>3 DEF Next

(* Every variable keeps its type.  In particular the slot is confirmed no  *)
(* further than the log goes, so that the lag QuerySlotInfo reports is     *)
(* never one of the negative numbers by which SlotMonitor says "unknown"   *)
(* and "broken", and what pollTable reads are ids of the table it asked.   *)
THEOREM GuardTypeCorrect == Spec => []TypeOK
<1>1. KindInv /\ PollInv => TypeOK
  BY DEF KindInv, ControlInv, FlagInv, PollInv, TableInv, ResultInv, TypeOK, PollTypeOK
<1>2. Spec => []KindInv
  BY KindInitially, KindNext, PTL DEF Spec
<1> QED BY <1>1, <1>2, PollInvariant, PTL
=============================================================================
