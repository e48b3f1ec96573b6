--------------------------- MODULE MCWriteThrough ---------------------------
(* Instances of WriteThrough for TLC.                                      *)
EXTENDS WriteThrough, TLC

CONSTANTS k, x, y, c1

(* Three transactions: the change of the second precedes the commit of the *)
(* first in the log, and the commit of the third adjoins the second's, so  *)
(* that a reconnect may send 1 again and skip 3.                           *)
MCReach == <<0, 0, 1>>

(* Two transactions, one after the other, and room between them.           *)
ApartReach == <<0, 1>>

(* Bound: the histories of the row, and the beginnings of these: written,  *)
(* changed and deleted; deleted and written anew; written twice the same.  *)
Histories ==
  \E h \in {<<x, y, Absent>>, <<x, Absent, y>>, <<x, x>>} :
    /\ Len(wal) <= Len(h)
    /\ \A i \in DOMAIN wal : wal[i].val = h[i]

(* Bound: a snapshot is taken only if the one fault is a crash, after it,  *)
(* that reads it; the one a shutdown ends with (Exit) is always taken.     *)
SnapshotMatters ==
  /\ snap' = snap \/ faults < MaxFaults \/ stopped' # stopped
  /\ faults' # faults /\ snap # [p \in Path |-> Absent] => reborn'
=============================================================================
