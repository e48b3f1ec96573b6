----------------------------- MODULE StaleGuard -----------------------------
(***************************************************************************)
(* Fail-closed reads (staleRefused in internal/protocol/resp3/server.go):  *)
(* data reads are refused when the change feed is known to be behind or    *)
(* blind.  main.go arms the guard with the state of the slot monitor in    *)
(* PostgreSQL mode and with the clock of the poller in MySQL mode.         *)
(***************************************************************************)
EXTENDS SlotMonitor, Poller

VARIABLE mode  \* cfg.DB.Type

vars == <<mode, slotVars, pollVars>>

Init ==
  /\ mode \in {"postgres", "mysql"}
  /\ SlotInit
  /\ PollInit

Postgres ==
  /\ mode = "postgres"
  /\ SlotNext
  /\ UNCHANGED <<mode, pollVars>>

MySQL ==
  /\ mode = "mysql"
  /\ PollNext
  /\ UNCHANGED <<mode, slotVars>>

Next == Postgres \/ MySQL

Spec == Init /\ [][Next]_vars

(* staleRefused.                                                           *)
Refused ==
  \/ mode = "postgres" /\ SlotRefused
  \/ mode = "mysql" /\ PollRefused

(* A connected listener reads and confirms; the check that has an answer   *)
(* shares it; the poller polls; time passes.  That the listener gets its   *)
(* connection back, or the monitor an answer, is not assumed: the server   *)
(* may be gone, and the monitor's query has no timeout.                    *)
Fairness ==
  /\ mode = "postgres" =>
       /\ WF_vars(Postgres /\ (ReceiveWal \/ ConfirmWal))
       /\ WF_vars(Postgres /\ ShareState)
  /\ mode = "mysql" =>
       /\ WF_vars(MySQL /\ PollStep)
       /\ WF_vars(MySQL /\ TimePasses)

FairSpec == Spec /\ Fairness

-----------------------------------------------------------------------------
(* Every variable has its type.                                            *)
TypeOK == mode \in {"postgres", "mysql"} /\ SlotTypeOK /\ PollTypeOK

ChecksGoOn == []<><<QuerySlot>>_vars /\ <>[][~QueryFails]_vars

(* The gate and the probe agree in the end: as long as the monitor's       *)
(* queries return, a slot on which /readyz fails for good has its reads    *)
(* refused for good, and one on which it passes has them served.           *)
GateFollowsSlot ==
  /\ ChecksGoOn /\ <>[]Paged /\ mode = "postgres" => <>[]Refused
  /\ ChecksGoOn /\ <>[]~Paged => <>[]~SlotRefused

(* A poller whose database is gone for good has its reads refused for good *)
(* if it ever had a clean tick, and one whose database is there serves     *)
(* again and again.                                                        *)
GateFollowsPoller ==
  /\ <>[]~dbUp /\ <>(age # Never) /\ mode = "mysql" => <>[]Refused
  /\ <>[]dbUp => []<>~PollRefused

(* Unless transactions commit out of the order of their ids, the watermark *)
(* passes no committed row that pollTable has not read, whatever the LIMIT,*)
(* the errors and the ticks that break off.                                *)
NothingSkipped ==
  \A t \in Table \ jumped : \A i \in Ids(t) :
    row[t][i] = "row" /\ i <= wm[t] => sent[t][i] # "no"

(* A row is sent to the applier once.                                      *)
SentOnce ==
  [][\A t \in Table : \A i \in Ids(t) :
       sent[t][i] \in {"applied", "dropped"} => sent'[t][i] = sent[t][i]]_vars

(* In a database that is there for good every committed row is read in the *)
(* end, unless its table's commits jump or the poller never started.  It   *)
(* takes that rows can be scanned: a query full of rows that cannot would  *)
(* return to pollTable for ever.                                           *)
RowsArrive ==
  <>[]dbUp /\ <>[][\A i \in result : ~ScanFails(i)]_vars =>
    <>[](\A t \in Table \ jumped : \A i \in Ids(t) :
           row[t][i] = "row" => sent[t][i] # "no" \/ ppc = "off")

(* A healthy listener keeps the gate open: once the slot stays active,     *)
(* reads are served for good, provided less than a page of the log is left *)
(* that the publication does not cover.  That part is never confirmed, as  *)
(* lastLSN only follows the stream, and counts as lag for ever.            *)
HealthyServes ==
  ChecksGoOn /\ <>[](slot = "active" /\ walEnd - published < PageLag) => <>[]~SlotRefused
=============================================================================
