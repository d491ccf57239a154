-------------------------- MODULE ReconcileProofs --------------------------
(***************************************************************************)
(* Proofs about the reconciler, for every number of rows, records, zones   *)
(* and disturbances.                                                       *)
(***************************************************************************)
EXTENDS ReconcileProps, TLAPS

(* What the run pushes is a DNS record.                                    *)
LEMMA WantType ==
    ASSUME TypeOK, WorkerInv, pc \in InRecord
    PROVE  /\ run.cur \in Rids /\ run.zone \in Zones
           /\ CurRow \in Row
           /\ ValueOf(CurRow) \in Values
           /\ Want \in Remote
<1>1. /\ run.cur \in Rids /\ run.zone \in Zones
      /\ CurRow \in Row
  BY DEF TypeOK, Run, WorkerInv, CurRow
<1>2. ValueOf(CurRow) \in Values
  BY <1>1 DEF TypeOK, Run, WorkerInv, ValueOf, Row
<1> QED
  BY <1>1, <1>2 DEF Want, Desired, Row, Remote

(* Before anything has happened.                                           *)
LEMMA InitInv == Init => IInv
<1> SUFFICES ASSUME Init PROVE IInv
  OBVIOUS
<1> USE NoneAssumption, BoundAssumption
<1>1. TypeOK
  BY DEF Init, TypeOK, NoRows, NoRemotes, NoReq, NoRun, NoOutcome, NoDel,
         Run, Outcome, Sources, Running, Listing
<1>2. /\ LockInv /\ WorkerInv /\ DeleterInv /\ LinkInv /\ StaleInv
      /\ SnapLinks /\ SnapshotFresh
  BY DEF Init, NoRows, NoRemotes, NoReq, NoRun, NoOutcome, NoDel, LockInv,
         WorkerInv, DeleterInv, LinkInv, StaleInv, SnapLinks, Reached,
         SnapshotFresh, Running, Listing, InRecord
<1>3. ZoneInv
  BY DEF Init, NoRows, NoRemotes, NoRun, ZoneInv, Mentioned
<1> QED
  BY <1>1, <1>2, <1>3 DEF IInv

-----------------------------------------------------------------------------
(* Types. *)

(* The worker's three variables after a row has failed or is done.         *)
WorkerTyped == /\ pc \in Running \cup {"idle", "lock"}
               /\ run \in Run /\ outcome \in Outcome

(* An error counted is still an outcome (sync.rs:491).                     *)
LEMMA CountErrorType ==
    ASSUME TypeOK, CountError
    PROVE  outcome' \in Outcome
<1>1. outcome \in Outcome /\ outcome.failed + 1 \in Nat
  BY DEF TypeOK, Outcome
<1> DEFINE n == outcome.failed + 1
<1>2. outcome' = [outcome EXCEPT !.failed = n, !.error = TRUE]
  BY DEF CountError
<1> HIDE DEF n
<1> QED
  BY <1>1, <1>2 DEF n, Outcome

(* So is a run that has left a row.                                        *)
LEMMA NextRowType ==
    ASSUME TypeOK
    PROVE  NextRow \in Run
<1>1. NoRemotes \in [Pids -> Remote \cup {None}]
  BY DEF NoRemotes
<1> QED
  BY <1>1 DEF TypeOK, NextRow, Run

(* A row that fails leaves the worker well typed.                          *)
LEMMA RowFailsType ==
    ASSUME TypeOK, RowFails
    PROVE  WorkerTyped'
<1>1. run' \in Run
  BY NextRowType DEF RowFails
<1>2. outcome' \in Outcome
  BY CountErrorType DEF RowFails
<1> QED
  BY <1>1, <1>2 DEF WorkerTyped, RowFails, Running, Listing

(* So does a row that is done.                                             *)
LEMMA RowDoneType ==
    ASSUME TypeOK, NEW what \in Counters,
           NEW seen \in [Pids -> Remote \cup {None}], RowDone(what, seen)
    PROVE  WorkerTyped'
<1>1. run' \in Run
  BY NextRowType DEF RowDone, Run
<1>2. outcome' \in Outcome
  BY DEF TypeOK, RowDone, Count, Counters, Outcome
<1> QED
  BY <1>1, <1>2 DEF WorkerTyped, RowDone, Running, Listing

LedgerTyped == /\ used \in [Disturbances -> Nat] /\ quiet \in BOOLEAN
               /\ touched \subseteq Rids

(* Disturbances are counted.                                               *)
LEMMA SpendType ==
    ASSUME TypeOK, NEW k \in Disturbances, Spend(k)
    PROVE  LedgerTyped'
<1>1. used' \in [Disturbances -> Nat]
  BY DEF TypeOK, Spend
<1>2. quiet' \in BOOLEAN
  BY DEF TypeOK, Spend, Disturb
<1>3. touched' \subseteq Rids
  BY DEF TypeOK, Spend
<1> QED
  BY <1>1, <1>2, <1>3 DEF LedgerTyped

(* A step of the worker alone disturbs only the types of its own locals.   *)
LEMMA LocalType ==
    ASSUME TypeOK, Local, WorkerTyped'
    PROVE  TypeOK'
BY DEF TypeOK, Local, WorkerTyped, db, cloud, account, deleter, ledger

(* The cached listing, with what was pushed put into it.                   *)
LEMMA PushedType ==
    ASSUME TypeOK, WorkerInv, pc \in InRecord, NEW p \in Pids
    PROVE  PushedTo(p) \in [Pids -> Remote \cup {None}]
<1>1. Want \in Remote
  BY WantType
<1> QED
  BY <1>1 DEF PushedTo, TypeOK, Run

(* A row whose link is written or cleared is still a row.                  *)
LEMMA SetIdType ==
    ASSUME TypeOK, NEW r \in Rids, rows[r] # None,
           NEW z \in Zones \cup {None}, NEW p \in Pids \cup {None},
           SetProviderId(r, z, p)
    PROVE  rows' \in [Rids -> Row \cup {None}]
<1>1. rows[r] \in Row
  BY DEF TypeOK
<1>2. [rows[r] EXCEPT !.zone = z, !.pid = p] \in Row
  BY <1>1 DEF Row
<1> QED
  BY <1>2 DEF TypeOK, SetProviderId

CloudTyped == /\ cf \in [Pids -> Remote \cup {None}]
              /\ issued \subseteq Pids
              /\ origin \in [Pids -> Rids \cup {None}]
              /\ shifted \in BOOLEAN /\ missed \subseteq Pids

(* A created record is a record.                                           *)
LEMMA PostType ==
    ASSUME TypeOK, NEW p \in Pids, NEW rem \in Remote,
           NEW r \in Rids \cup {None}, PostRemote(p, rem, r)
    PROVE  CloudTyped'
BY DEF TypeOK, PostRemote, CloudTyped

(* And so is an edited one, and the place of one that is deleted.          *)
LEMMA PutRemoteType ==
    ASSUME TypeOK, NEW p \in Pids, NEW rem \in Remote \cup {None},
           PutRemote(p, rem)
    PROVE  CloudTyped'
BY DEF TypeOK, PutRemote, Shift, CloudTyped

(* Every outcome of an update of a record is well typed.                   *)
LEMMA PutType ==
    ASSUME TypeOK, WorkerInv, pc \in InRecord, NEW p \in Pids, Put(p)
    PROVE  TypeOK'
<1> DEFINE w == [op |-> "put", pid |-> p, rem |-> Want]
<1>1. Want \in Remote
  BY WantType
<1>2. ASSUME PutRemote(p, Want), Answer(RowDone("updated", PushedTo(p))),
             UNCHANGED late
      PROVE  TypeOK'
  <2>1. WorkerTyped'
    BY <1>2, PushedType, RowFailsType, RowDoneType DEF Answer, Counters
  <2>2. LedgerTyped'
    BY <1>2, SpendType DEF Answer, ledger, Disturbances, TypeOK, LedgerTyped
  <2>3. CloudTyped'
    BY <1>1, <1>2, PutRemoteType
  <2> QED
    BY <1>2, <2>1, <2>2, <2>3
    DEF Put, TypeOK, WorkerTyped, LedgerTyped, CloudTyped, db, account, deleter
<1>3. ASSUME RowFails, UNCHANGED <<cloud, late, ledger>>
      PROVE  TypeOK'
  BY <1>3, RowFailsType
  DEF Put, TypeOK, WorkerTyped, db, cloud, account, deleter, ledger
<1>4. ASSUME TimesOut(w), UNCHANGED cloud
      PROVE  TypeOK'
  <2>1. late' \subseteq Write
    BY <1>1, <1>4 DEF TimesOut, TypeOK, Write
  <2>2. LedgerTyped'
    BY <1>4, SpendType DEF TimesOut, Disturbances
  <2>3. WorkerTyped'
    BY <1>4, RowFailsType DEF TimesOut
  <2> QED
    BY <1>4, <2>1, <2>2, <2>3
    DEF Put, TypeOK, WorkerTyped, LedgerTyped, db, cloud, account, deleter
<1> QED
  BY <1>2, <1>3, <1>4 DEF Put

(* What a task starts from.                                                *)
LEMMA ResetType ==
    /\ NoRun \in Run /\ NoOutcome \in Outcome
    /\ NoReq \in [source : Sources, myip : Values \cup {None}]
    /\ NoDel \in [id : Rids \cup {None}, row : Row \cup {None}]
BY DEF NoRun, NoOutcome, NoReq, NoDel, NoRows, NoRemotes, Run, Outcome,
       Sources

(* Every step keeps every variable in its type.                            *)
LEMMA TypeStep ==
    ASSUME IInv, Next
    PROVE  TypeOK'
<1> USE NoneAssumption, BoundAssumption, KeyAssumption
<1> TypeOK /\ WorkerInv /\ DeleterInv
  BY DEF IInv
<1> USE DEF db, cloud, account, deleter, ledger, worker, LedgerTyped, CloudTyped
<1>1. ASSUME NEW s \in Sources, NEW m \in Values \cup {None}, TakeRequest(s, m)
      PROVE  TypeOK'
  BY <1>1 DEF TypeOK, TakeRequest
<1>2. CASE LockForSync
  BY <1>2 DEF TypeOK, LockForSync, StartRun, Running
<1>3. CASE ListRows
  <2>1. run' \in Run
    BY <1>3 DEF TypeOK, ListRows, Run
  <2> QED
    BY <1>3, <2>1 DEF ListRows, TypeOK, Running, Listing
<1>4. CASE ResolveIpv4
  <2>1. run' \in Run
    BY <1>4 DEF TypeOK, ResolveIpv4, Run
  <2>2. LedgerTyped'
    BY <1>4, SpendType DEF ResolveIpv4, Disturbances, TypeOK
  <2> QED
    BY <1>4, <2>1, <2>2 DEF ResolveIpv4, TypeOK, Running, Listing
<1>5. CASE ListZones
  <2>1. run' \in Run
    BY <1>5 DEF TypeOK, ListZones, Run
  <2> QED
    BY <1>5, <2>1, LocalType
    DEF ListZones, WorkerTyped, TypeOK, Running, Listing
<1>6. ASSUME NEW r \in Rids, SkipStatic(r) \/ CannotPush(r)
      PROVE  TypeOK'
  <2>1. run' \in Run
    BY <1>6 DEF TypeOK, SkipStatic, CannotPush, Run
  <2>2. outcome' \in Outcome
    BY <1>6, CountErrorType
    DEF TypeOK, SkipStatic, CannotPush, Count, Outcome
  <2> QED
    BY <1>6, <2>1, <2>2, LocalType
    DEF SkipStatic, CannotPush, WorkerTyped, TypeOK
<1>7. ASSUME NEW r \in Rids, NEW z \in Zones, BeginRecord(r, z)
      PROVE  TypeOK'
  <2>1. run' \in Run
    BY <1>7 DEF TypeOK, BeginRecord, Run
  <2> QED
    BY <1>7, <2>1, LocalType
    DEF BeginRecord, WorkerTyped, TypeOK, Running, Listing
<1>8. ASSUME NEW S \in SUBSET InZoneNow, ListPage(S) \/ ListLastPage(S)
      PROVE  TypeOK'
  <2>1. run.zone \in Zones
    BY <1>8 DEF ListPage, ListLastPage, WorkerInv, InRecord, TypeOK, Run
  <2>2. /\ GotWith(S) \in [Pids -> Remote \cup {None}]
        /\ DueWithout(S) \subseteq Pids
    BY DEF TypeOK, Run, GotWith, DueWithout, InZoneNow
  <2> DEFINE seen == [p \in Pids |-> IF GotWith(S)[p] # None
                                     THEN GotWith(S)[p] ELSE run.seen[p]]
  <2>3. seen \in [Pids -> Remote \cup {None}]
    BY <2>2 DEF TypeOK, Run
  <2>4. ListPage(S) => run' \in Run
    BY <2>2 DEF ListPage, TypeOK, Run
  <2>5. ListLastPage(S) =>
           run' = [run EXCEPT !.cached = @ \cup {run.zone}, !.seen = seen,
                              !.got = NoRemotes, !.due = {}]
    BY DEF ListLastPage
  <2> HIDE DEF seen
  <2>6. ListLastPage(S) => run' \in Run
    <3>1. NoRemotes \in [Pids -> Remote \cup {None}]
      BY DEF NoRemotes
    <3>2. run \in Run /\ run.cached \cup {run.zone} \subseteq Zones
      BY <2>1 DEF TypeOK, Run
    <3> QED
      BY <2>3, <2>5, <3>1, <3>2 DEF Run
  <2>7. ListPage(S) => TypeOK'
    BY <2>4 DEF ListPage, TypeOK, Running, Listing
  <2>8. ListLastPage(S) => TypeOK'
    BY <2>2, <2>6 DEF ListLastPage, LeftOut, TypeOK, Running, Listing
  <2> QED
    BY <1>8, <2>7, <2>8
<1>9. CASE Refuse
  BY <1>9, RowFailsType, LocalType DEF Refuse
<1>10. CASE LeaveUnchanged
  <2>1. run.seen \in [Pids -> Remote \cup {None}]
    BY DEF TypeOK, Run
  <2> QED
    BY <1>10, <2>1, RowDoneType, LocalType DEF LeaveUnchanged, Counters
<1>11. CASE ClearStaleId
  <2>1. rows' \in [Rids -> Row \cup {None}]
    BY <1>11, WantType, SetIdType DEF ClearStaleId, InRecord, TypeOK
  <2>2. WorkerTyped'
    BY <1>11, RowFailsType
    DEF ClearStaleId, Answer, WorkerTyped, TypeOK, Running, Listing
  <2>3. LedgerTyped'
    BY <1>11, SpendType DEF ClearStaleId, Answer, Disturbances, TypeOK
  <2> QED
    BY <1>11, <2>1, <2>2, <2>3 DEF ClearStaleId, TypeOK, WorkerTyped
<1>12. CASE PutOwned
  <2>1. CurRow.pid \in Pids
    BY <1>12 DEF PutOwned, Listed
  <2> QED
    BY <1>12, <2>1, PutType DEF PutOwned, InRecord
<1>13. CASE PutAdopted
  <2>1. run.target \in Pids
    BY <1>13 DEF PutAdopted, WorkerInv, TypeOK, Run
  <2> QED
    BY <1>13, <2>1, PutType DEF PutAdopted, InRecord
<1>14. ASSUME NEW p \in Pids, Adopt(p)
       PROVE  TypeOK'
  <2>1. run.cur \in Rids /\ run.zone \in Zones
    BY <1>14, WantType DEF Adopt, InRecord
  <2>2. rows' \in [Rids -> Row \cup {None}]
    BY <1>14, <2>1, SetIdType DEF Adopt, CanLink, TypeOK
  <2>3. run.seen \in [Pids -> Remote \cup {None}]
    BY DEF TypeOK, Run
  <2>4. run' = [run EXCEPT !.target = p] => run' \in Run
    BY DEF TypeOK, Run
  <2>5. WorkerTyped'
    BY <1>14, <2>3, <2>4, RowFailsType, RowDoneType
    DEF Adopt, Answer, WorkerTyped, TypeOK, Running, Listing, Counters
  <2>6. LedgerTyped'
    BY <1>14, SpendType DEF Adopt, Answer, Disturbances, TypeOK
  <2> QED
    BY <1>14, <2>2, <2>5, <2>6 DEF Adopt, TypeOK, WorkerTyped
<1>15. CASE Post
  <2>1. pc \in InRecord /\ run.cur \in Rids /\ Want \in Remote
    BY <1>15, WantType DEF Post, InRecord
  <2>2. ASSUME NEW p \in Pids, PostRemote(p, Want, run.cur), UNCHANGED late,
               Answer(/\ pc' = "save"
                      /\ run' = [run EXCEPT !.target = p]
                      /\ UNCHANGED outcome)
        PROVE  TypeOK'
    <3>1. run' = [run EXCEPT !.target = p] => run' \in Run
      BY DEF TypeOK, Run
    <3>2. WorkerTyped'
      BY <2>2, <3>1, RowFailsType
      DEF Answer, WorkerTyped, TypeOK, Running, Listing
    <3>3. LedgerTyped'
      BY <2>2, SpendType DEF Answer, Disturbances, TypeOK
    <3> QED
      BY <1>15, <2>1, <2>2, <3>2, <3>3, PostType
      DEF Post, TypeOK, WorkerTyped
  <2>3. ASSUME TimesOut([op |-> "post", rid |-> run.cur, rem |-> Want]),
               UNCHANGED cloud
        PROVE  TypeOK'
    <3>1. late' \subseteq Write
      BY <2>1, <2>3 DEF TimesOut, TypeOK, Write
    <3>2. LedgerTyped'
      BY <2>3, SpendType DEF TimesOut, Disturbances, TypeOK
    <3>3. WorkerTyped'
      BY <2>3, RowFailsType DEF TimesOut
    <3> QED
      BY <1>15, <2>3, <3>1, <3>2, <3>3 DEF Post, TypeOK, WorkerTyped
  <2> QED
    BY <1>15, <2>2, <2>3 DEF Post
<1>16. CASE SaveId
  <2>1. run.cur \in Rids /\ run.zone \in Zones
    BY <1>16, WantType DEF SaveId, InRecord
  <2>2. run.target \in Pids
    BY <1>16 DEF SaveId, WorkerInv, TypeOK, Run
  <2>3. rows' \in [Rids -> Row \cup {None}]
    BY <1>16, <2>1, <2>2, SetIdType DEF SaveId, CanLink, TypeOK
  <2>4. PushedTo(run.target) \in [Pids -> Remote \cup {None}]
    BY <1>16, <2>2, PushedType DEF SaveId, InRecord
  <2>5. WorkerTyped'
    BY <1>16, <2>4, RowFailsType, RowDoneType DEF SaveId, Answer, Counters
  <2>6. LedgerTyped'
    BY <1>16, SpendType DEF SaveId, Answer, Disturbances, TypeOK
  <2> QED
    BY <1>16, <2>3, <2>5, <2>6 DEF SaveId, TypeOK, WorkerTyped
<1>17. CASE CallFails
  <2>1. RunFails => WorkerTyped'
    BY DEF RunFails, WorkerTyped, TypeOK, Outcome, Running
  <2>2. WorkerTyped'
    BY <1>17, <2>1, RowFailsType DEF CallFails
  <2>3. LedgerTyped'
    BY <1>17, SpendType DEF CallFails, Disturbances
  <2> QED
    BY <1>17, <2>2, <2>3 DEF CallFails, TypeOK, WorkerTyped
<1>18. CASE EndRun
  BY <1>18, LocalType DEF EndRun, WorkerTyped, TypeOK, Running
<1>19. CASE ReleaseLock
  BY <1>19, ResetType DEF ReleaseLock, TypeOK
<1>20. ASSUME NEW r \in Rids, NEW k \in Keys, NEW v \in Values \cup {None},
              NEW a \in Attrs, Insert(r, k, v, a)
       PROVE  rows' \in [Rids -> Row \cup {None}] /\ rowIds' \subseteq Rids
  <2>1. [key |-> k, value |-> v, attr |-> a, zone |-> None, pid |-> None] \in Row
    BY DEF Row
  <2> QED
    BY <1>20, <2>1 DEF Insert, TypeOK
<1>21. ASSUME NEW r \in Rids, NEW v \in Values \cup {None}, NEW a \in Attrs,
              Update(r, v, a)
       PROVE  rows' \in [Rids -> Row \cup {None}] /\ rowIds' \subseteq Rids
  <2> rows[r] \in Row
    BY <1>21 DEF Update, TypeOK
  <2>1. [rows[r] EXCEPT !.value = v, !.attr = a] \in Row
    BY DEF Row
  <2> QED
    BY <1>21, <2>1 DEF Update, TypeOK
<1>40. ASSUME NEW r \in Rids, NEW v \in Values \cup {None}, NEW a \in Attrs,
              \/ \E k \in Keys : CreateRecord(r, k, v, a)
              \/ UpdateRecord(r, v, a)
       PROVE  TypeOK'
  BY <1>20, <1>21, <1>40, SpendType
  DEF CreateRecord, UpdateRecord, TypeOK, Disturbances
<1>41. ASSUME NEW v \in Values \cup {None}, NEW a \in Attrs,
              \/ \E k \in Keys : CreateDropped(k, v, a)
              \/ \E r \in Rids : UpdateDropped(r, v, a)
       PROVE  TypeOK'
  <2>1. sent' \subseteq Statement
    BY <1>41 DEF CreateDropped, UpdateDropped, TypeOK, Statement
  <2> QED
    BY <1>41, <2>1, SpendType
    DEF CreateDropped, UpdateDropped, TypeOK, Disturbances
<1>42. ASSUME NEW s \in sent, NEW r \in Rids, Lands(s, r)
       PROVE  TypeOK'
  <2>1. s \in Statement
    BY DEF TypeOK
  <2>2. rows' \in [Rids -> Row \cup {None}] /\ rowIds' \subseteq Rids
    <3>1. CASE s.op = "insert" /\ Insert(r, s.key, s.value, s.attr)
      BY <1>20, <2>1, <3>1 DEF Statement
    <3>2. CASE s.op = "update" /\ Update(r, s.value, s.attr)
      BY <1>21, <2>1, <3>2 DEF Statement
    <3>3. CASE rows' = [rows EXCEPT ![r] = None] /\ UNCHANGED rowIds
      BY <3>3 DEF TypeOK
    <3> QED
      BY <1>42, <3>1, <3>2, <3>3 DEF Lands
  <2> QED
    BY <1>42, <2>2 DEF Lands, TypeOK, Disturb
<1>43. CASE ResolveHangs
  BY <1>43, SpendType DEF ResolveHangs, TypeOK, Disturbances, Running, Listing
<1>22. ASSUME NEW r \in Rids, DeleteBegin(r)
       PROVE  TypeOK'
  <2>1. del' \in [id : Rids \cup {None}, row : Row \cup {None}]
    BY <1>22 DEF DeleteBegin, NoDel
  <2> QED
    BY <1>22, <2>1, SpendType DEF DeleteBegin, TypeOK, Disturbances
<1>23. CASE DeleteRead
  <2>1. del' \in [id : Rids \cup {None}, row : Row \cup {None}]
    BY <1>23, ResetType DEF DeleteRead, DeleteEnds, DeleterInv, TypeOK
  <2> QED
    BY <1>23, <2>1 DEF DeleteRead, DeleteEnds, TypeOK
<1>24. CASE DeleteCheck
  BY <1>24, ResetType DEF DeleteCheck, DeleteEnds, TypeOK
<1>25. CASE DeleteRemote
  <2> DEFINE w == [op |-> "delete", pid |-> del.row.pid]
  <2>1. del.row.pid \in Pids
    BY <1>25 DEF DeleteRemote, DeleterInv, TypeOK, Row
  <2>2. late' \subseteq Write
    BY <1>25, <2>1 DEF DeleteRemote, TypeOK, Write
  <2>3. CloudTyped'
    BY <1>25, <2>1, PutRemoteType DEF DeleteRemote, TypeOK
  <2>4. LedgerTyped'
    BY <1>25, SpendType DEF DeleteRemote, Disturbances, TypeOK
  <2>5. /\ lock' \in {"free", "sync", "delete"}
        /\ dpc' \in {"idle", "read", "check", "remote", "forget"}
        /\ del' \in [id : Rids \cup {None}, row : Row \cup {None}]
    BY <1>25, ResetType DEF DeleteRemote, DeleteEnds, TypeOK
  <2> QED
    BY <1>25, <2>2, <2>3, <2>4, <2>5 DEF DeleteRemote, TypeOK
<1>26. CASE DeleteRow
  BY <1>26, ResetType DEF DeleteRow, DeleteEnds, TypeOK
<1>27. CASE DeleteAborts \/ DeleteDropped
  <2>1. DeleteDropped => sent' \subseteq Statement
    BY DEF DeleteDropped, DeleterInv, TypeOK, Statement
  <2> QED
    BY <1>27, <2>1, ResetType, SpendType
    DEF DeleteAborts, DeleteDropped, DeleteEnds, TypeOK, Disturbances
<1>28. ASSUME NEW p \in Pids, NEW rem \in Remote, DashboardCreate(p, rem)
       PROVE  TypeOK'
  BY <1>28, PostType, SpendType DEF DashboardCreate, TypeOK, Disturbances
<1>29. ASSUME NEW p \in Pids, NEW rem \in Remote, DashboardEdit(p, rem)
       PROVE  TypeOK'
  BY <1>29, SpendType DEF DashboardEdit, Shift, TypeOK, Disturbances
<1>30. ASSUME NEW p \in Pids, DashboardDelete(p)
       PROVE  TypeOK'
  BY <1>30, SpendType, PutRemoteType DEF DashboardDelete, TypeOK, Disturbances
<1>31. ASSUME NEW z \in Zones, AddZone(z)
       PROVE  TypeOK'
  BY <1>31, SpendType DEF AddZone, TypeOK, Disturbances
<1>32. ASSUME NEW v \in Values, WanChanges(v)
       PROVE  TypeOK'
  BY <1>32, SpendType DEF WanChanges, TypeOK, Disturbances
<1>33. ASSUME NEW w \in late, LateArrives(w)
       PROVE  TypeOK'
  <2>1. w \in Write
    BY DEF TypeOK
  <2>2. CloudTyped'
    <3>1. CASE w.op = "post"
      BY <1>33, <2>1, <3>1, PostType DEF LateArrives, Write
    <3>2. CASE w.op = "put"
      BY <1>33, <2>1, <3>2, PutRemoteType DEF LateArrives, Write
    <3>3. CASE w.op = "delete"
      BY <1>33, <2>1, <3>3, PutRemoteType DEF LateArrives, Write
    <3> QED
      BY <1>33, <3>1, <3>2, <3>3 DEF LateArrives
  <2> QED
    BY <1>33, <2>2 DEF LateArrives, Disturb, TypeOK
<1>34. CASE Crash
  BY <1>34, ResetType, SpendType DEF Crash, TypeOK, Disturbances
<1>35. CASE Requests
  BY <1>1, <1>35 DEF Requests
<1>36. CASE WorkerStep
  BY <1>2, <1>3, <1>4, <1>5, <1>6, <1>7, <1>8, <1>9, <1>10, <1>11, <1>12,
     <1>13, <1>14, <1>15, <1>16, <1>17, <1>18, <1>19, <1>36, <1>43
  DEF WorkerStep
<1>37. CASE Mutations
  BY <1>22, <1>37, <1>40, <1>41, <1>42 DEF Mutations
<1>38. CASE DeleteStep
  BY <1>23, <1>24, <1>25, <1>26, <1>27, <1>38 DEF DeleteStep
<1>39. CASE Environment
  BY <1>28, <1>29, <1>30, <1>31, <1>32, <1>33, <1>34, <1>39 DEF Environment
<1> QED
  BY <1>35, <1>36, <1>37, <1>38, <1>39 DEF Next

-----------------------------------------------------------------------------
(* Who may change what. *)

(* What the late statement of a dropped handler does to the table: it      *)
(* changes one row, which it may insert, edit or delete, and no link.      *)
Landing(r) ==
    /\ touched' = touched \cup {r}
    /\ rowIds \subseteq rowIds'
    /\ \A q \in Rids \ {r} : rows'[q] = rows[q]
    /\ rows'[r] # None =>
          \/ rows[r] # None /\ SameLink(rows'[r], rows[r])
          \/ r \notin rowIds /\ rows'[r].pid = None
    /\ UNCHANGED <<cloud, account, late, lock, worker, deleter>>

LEMMA LandsFrame ==
    ASSUME TypeOK, NEW s \in sent, NEW r \in Rids, Lands(s, r)
    PROVE  Landing(r)
<1> USE NoneAssumption
<1>0. UNCHANGED <<cloud, account, late, lock, worker, deleter>>
      /\ touched' = touched \cup {r}
  BY DEF Lands
<1>1. CASE Insert(r, s.key, s.value, s.attr)
  <2> DEFINE row == [key |-> s.key, value |-> s.value, attr |-> s.attr,
                     zone |-> None, pid |-> None]
  <2>1. rows' = [rows EXCEPT ![r] = row] /\ row.pid = None
    BY <1>1 DEF Insert
  <2> HIDE DEF row
  <2> QED
    BY <1>0, <1>1, <2>1 DEF Insert, Landing, TypeOK
<1>2. CASE Update(r, s.value, s.attr)
  <2> DEFINE row == [rows[r] EXCEPT !.value = s.value, !.attr = s.attr]
  <2>1. rows' = [rows EXCEPT ![r] = row] /\ rows[r] \in Row
    BY <1>2 DEF Update, TypeOK
  <2>2. SameLink(row, rows[r])
    BY <2>1 DEF SameLink, Row
  <2> HIDE DEF row
  <2> QED
    BY <1>0, <1>2, <2>1, <2>2 DEF Update, Landing, TypeOK
<1>3. CASE rows' = [rows EXCEPT ![r] = None] /\ UNCHANGED rowIds
  BY <1>0, <1>3 DEF Landing, TypeOK
<1> QED
  BY <1>1, <1>2, <1>3 DEF Lands

(* Handlers, the world outside and a crash leave the run alone, and touch  *)
(* the table only while the lock is not the run's; a statement that lands  *)
(* late may touch it at any time.                                          *)
LEMMA Outsider ==
    ASSUME IInv, Mutations \/ DeleteStep \/ Environment
    PROVE  \/ Crash
           \/ \E r \in Rids : Landing(r)
           \/ /\ UNCHANGED <<worker, touched>>
              /\ rowIds \subseteq rowIds'
              /\ (rows' = rows /\ rowIds' = rowIds) \/ lock # "sync"
<1> USE DEF db, worker, ledger
<1> TypeOK
  BY DEF IInv
<1>1. CASE Mutations
  BY <1>1, LandsFrame
  DEF Mutations, CreateRecord, CreateDropped, UpdateRecord, UpdateDropped,
      DeleteBegin, Insert, Update, Spend
<1>2. CASE DeleteStep
  <2>1. dpc # "idle" => lock = "delete"
    BY DEF IInv, LockInv
  <2> QED
    BY <1>2, <2>1 DEF DeleteStep, DeleteRead, DeleteCheck, DeleteRemote,
       DeleteRow, DeleteAborts, DeleteDropped, Spend
<1>3. CASE Environment
  BY <1>3 DEF Environment, DashboardCreate, DashboardEdit, DashboardDelete,
     AddZone, WanChanges, LateArrives, Spend
<1> QED
  BY <1>1, <1>2, <1>3

(* What the end of a row leaves of the run. *)
LEMMA RowFailsFrame ==
    ASSUME TypeOK, RowFails
    PROVE  /\ pc' = "next" /\ run'.todo = run.todo /\ run'.snap = run.snap
           /\ run'.cached = run.cached /\ run'.seen = run.seen
           /\ run'.got = NoRemotes /\ run'.due = {}
BY DEF TypeOK, Run, RowFails, NextRow

(* And of its listing.                                                     *)
LEMMA RowDoneFrame ==
    ASSUME TypeOK, NEW what, NEW seen, RowDone(what, seen)
    PROVE  /\ pc' = "next" /\ run'.todo = run.todo /\ run'.snap = run.snap
           /\ run'.cached = run.cached /\ run'.seen = seen
           /\ run'.got = NoRemotes /\ run'.due = {}
BY DEF TypeOK, Run, RowDone, NextRow

(* What a step of a run leaves alone.                                      *)
LEMMA WorkerFrame ==
    ASSUME WorkerStep
    PROVE  /\ UNCHANGED <<rowIds, sent, account, deleter>>
           /\ pc \in Listing => touched' = touched
<1> USE DEF db, cloud, account, deleter, ledger, Local
<1>1. ASSUME Answer(TRUE) \/ \E ok \in BOOLEAN : Answer(ok)
      PROVE  touched' = touched
  BY <1>1 DEF Answer, Spend
<1>2. ASSUME NEW r \in Rids,
             \/ SkipStatic(r) \/ CannotPush(r)
             \/ \E z \in Zones : BeginRecord(r, z)
      PROVE  UNCHANGED <<rowIds, sent, account, deleter, touched>>
  BY <1>2 DEF SkipStatic, CannotPush, BeginRecord
<1>3. CASE LockForSync \/ ListRows \/ ReleaseLock
  BY <1>3 DEF LockForSync, StartRun, ListRows, ReleaseLock, Listing
<1>4. CASE ResolveIpv4 \/ ResolveHangs \/ ListZones \/ EndRun \/ CallFails
  BY <1>4 DEF ResolveIpv4, ResolveHangs, ListZones, EndRun, CallFails, Spend
<1>5. ASSUME NEW S, ListPage(S) \/ ListLastPage(S)
      PROVE  UNCHANGED <<rowIds, sent, account, deleter, touched>>
  BY <1>5 DEF ListPage, ListLastPage
<1>6. CASE Refuse \/ LeaveUnchanged
  BY <1>6 DEF Refuse, LeaveUnchanged
<1>7. CASE PutOwned \/ PutAdopted
  BY <1>7 DEF PutOwned, PutAdopted, Put, Answer, TimesOut, Spend
<1>8. CASE ClearStaleId \/ SaveId \/ Post
  BY <1>8 DEF ClearStaleId, SaveId, Post, Answer, TimesOut, Spend
<1>9. ASSUME NEW p \in Pids, Adopt(p)
      PROVE  UNCHANGED <<rowIds, sent, account, deleter, touched>>
  BY <1>9 DEF Adopt, Answer, Spend
<1> QED
  BY <1>2, <1>3, <1>4, <1>5, <1>6, <1>7, <1>8, <1>9 DEF WorkerStep

-----------------------------------------------------------------------------
(* The lock. *)

(* The lock passes only from nobody to its new holder and back.            *)
LEMMA LockStep ==
    ASSUME IInv, Next
    PROVE  LockInv'
<1> LockInv /\ TypeOK
  BY DEF IInv
<1> USE DEF db, cloud, account, worker, deleter, ledger
<1>1. CASE Requests
  BY <1>1 DEF Requests, TakeRequest, LockInv, Running, Listing
<1>2. CASE WorkerStep
  <2>1. CASE LockForSync
    BY <2>1 DEF LockForSync, StartRun, LockInv, Running, Listing
  <2>2. CASE ReleaseLock
    BY <2>2 DEF ReleaseLock, LockInv, Running, Listing
  <2>3. CASE ~LockForSync /\ ~ReleaseLock
    <3>1. pc \in Running /\ pc' \in Running /\ UNCHANGED <<lock, dpc>>
      <4>1. ASSUME NEW r \in Rids,
                   \/ SkipStatic(r) \/ CannotPush(r)
                   \/ \E z \in Zones : BeginRecord(r, z)
            PROVE  <3>1
        BY <4>1 DEF SkipStatic, CannotPush, BeginRecord, Local, Running,
           Listing
      <4>2. CASE ListRows \/ ResolveIpv4 \/ ResolveHangs \/ ListZones \/ EndRun
        BY <4>2 DEF ListRows, ResolveIpv4, ResolveHangs, ListZones, EndRun,
           Local, Running, Listing
      <4>7. ASSUME NEW S, ListPage(S) \/ ListLastPage(S)
            PROVE  <3>1
        BY <4>7 DEF ListPage, ListLastPage, Running, Listing
      <4>3. CASE Refuse \/ LeaveUnchanged \/ CallFails
        BY <4>3 DEF Refuse, LeaveUnchanged, CallFails, Local, RowFails,
           RowDone, RunFails, Running, Listing
      <4>4. CASE PutOwned \/ PutAdopted
        BY <4>4 DEF PutOwned, PutAdopted, Put, Answer, TimesOut, RowFails,
           RowDone, Running, Listing
      <4>5. CASE ClearStaleId \/ SaveId \/ Post
        BY <4>5 DEF ClearStaleId, SaveId, Post, Answer, TimesOut, RowFails,
           RowDone, Running, Listing
      <4>6. ASSUME NEW p \in Pids, Adopt(p)
            PROVE  <3>1
        BY <4>6 DEF Adopt, Answer, RowFails, RowDone, Running, Listing
      <4> QED
        BY <1>2, <2>3, <4>1, <4>2, <4>3, <4>4, <4>5, <4>6, <4>7 DEF WorkerStep
    <3> QED
      BY <3>1 DEF LockInv
  <2> QED
    BY <2>1, <2>2, <2>3
<1>3. CASE Mutations
  BY <1>3, LandsFrame
  DEF Mutations, CreateRecord, CreateDropped, UpdateRecord, UpdateDropped,
      DeleteBegin, Landing, LockInv
<1>4. CASE DeleteStep
  BY <1>4 DEF DeleteStep, DeleteRead, DeleteCheck, DeleteRemote, DeleteRow,
     DeleteAborts, DeleteDropped, DeleteEnds, LockInv
<1>5. CASE Environment
  BY <1>5 DEF Environment, DashboardCreate, DashboardEdit, DashboardDelete,
     AddZone, WanChanges, LateArrives, Crash, LockInv, Running, Listing
<1> QED
  BY <1>1, <1>2, <1>3, <1>4, <1>5 DEF Next

-----------------------------------------------------------------------------
(* The run's snapshot and locals. *)

(* The only change a run makes to the table: the link of the row at hand.  *)
Linking == /\ run.cur \in Rids /\ rows[run.cur] # None
           /\ \E z \in Zones \cup {None}, p \in Pids \cup {None} :
                 SetProviderId(run.cur, z, p)

(* Writing a link changes one row, and no configuration.                   *)
LEMMA LinkingFrame ==
    ASSUME TypeOK, Linking
    PROVE  /\ \A r \in Rids : rows'[r] = None <=> rows[r] = None
           /\ \A r \in Rids \ {run.cur} : rows'[r] = rows[r]
           /\ \A r \in Rids : rows[r] # None => SameConfig(rows'[r], rows[r])
<1>1. PICK z \in Zones \cup {None}, p \in Pids \cup {None} :
          SetProviderId(run.cur, z, p)
  BY DEF Linking
<1> DEFINE new == [rows[run.cur] EXCEPT !.zone = z, !.pid = p]
<1>0. rows[run.cur] \in Row
  BY DEF TypeOK, Linking
<1>2. new \in Row /\ SameConfig(new, rows[run.cur])
  BY <1>0 DEF Row, SameConfig
<1>3. rows' = [rows EXCEPT ![run.cur] = new]
  BY <1>1 DEF SetProviderId
<1> HIDE DEF new
<1>4. \A r \in Rids : rows[r] # None => SameConfig(rows[r], rows[r])
  BY DEF SameConfig
<1> QED
  BY <1>2, <1>3, <1>4, NoneAssumption DEF TypeOK, Linking

RunInv == WorkerInv /\ SnapshotFresh /\ SnapLinks

(* A step of a run that leaves its listing alone keeps it fresh: at most   *)
(* the row at hand changes, and only in its link.                          *)
LEMMA FreshKept ==
    ASSUME IInv, pc \in Listing, run'.snap = run.snap,
           run'.todo \subseteq run.todo, Reached' \subseteq Reached,
           UNCHANGED <<rowIds, touched>>,
           \/ rows' = rows
           \/ Linking /\ pc \in InRecord /\ run.cur \notin Reached'
    PROVE  SnapshotFresh' /\ SnapLinks'
<1> TypeOK /\ SnapshotFresh /\ SnapLinks /\ WorkerInv
  BY DEF IInv
<1>1. CASE rows' = rows
  BY <1>1 DEF SnapshotFresh, SnapLinks
<1>2. CASE Linking /\ pc \in InRecord /\ run.cur \notin Reached'
  <2>1. run.snap[run.cur] # None /\ run.cur \notin run.todo
    BY <1>2 DEF WorkerInv
  <2>2. SnapshotFresh'
    BY <1>2, <2>1, LinkingFrame DEF SnapshotFresh, SameConfig, TypeOK, Run
  <2>3. SnapLinks'
    BY <1>2, <2>1, LinkingFrame DEF SnapLinks
  <2> QED
    BY <2>2, <2>3
<1> QED
  BY <1>1, <1>2

(* A row ends: nothing is left of it but its count. *)
LEMMA RowEnds ==
    ASSUME IInv, pc \in InRecord,
           \/ RowFails
           \/ \E what \in Counters, seen \in [Pids -> Remote \cup {None}] :
                 RowDone(what, seen),
           rows' = rows \/ Linking, UNCHANGED <<rowIds, touched>>
    PROVE  RunInv'
<1> TypeOK /\ WorkerInv
  BY DEF IInv
<1>1. /\ pc' = "next" /\ run'.todo = run.todo /\ run'.snap = run.snap
      /\ run'.got = NoRemotes /\ run'.due = {}
  BY RowFailsFrame, RowDoneFrame
<1>2. Reached' = run.todo /\ run.cur \notin run.todo /\ pc \in Listing
  BY <1>1 DEF Reached, WorkerInv, InRecord, Listing
<1>3. SnapshotFresh' /\ SnapLinks'
  BY <1>1, <1>2, FreshKept DEF Reached
<1> QED
  BY <1>1, <1>3 DEF RunInv, WorkerInv, InRecord

(* A statement that lands late spoils the listing of the row it changes,   *)
(* and of no other.                                                        *)
LEMMA LandingFresh ==
    ASSUME IInv, NEW r \in Rids, Landing(r)
    PROVE  RunInv'
<1> TypeOK /\ WorkerInv /\ SnapshotFresh /\ SnapLinks
  BY DEF IInv
<1> USE DEF Landing, worker
<1>1. WorkerInv'
  <2>1. pc \in {"records", "pages", "reconcile"} => run.cur \in Rids
    BY DEF WorkerInv, InRecord, TypeOK, Run
  <2> QED
    BY <2>1 DEF WorkerInv, CurRow, ValueOf
<1>2. SnapshotFresh'
  BY DEF SnapshotFresh
<1>3. SnapLinks'
  <2>1. Reached' = Reached /\ \A q \in Reached : run.snap[q] # None
    BY DEF Reached, WorkerInv, InRecord
  <2>2. ASSUME NEW q \in Rids, pc \in Listing, rows'[q] # None
        PROVE  /\ run.snap[q] = None => rows'[q].pid = None
               /\ q \in Reached => SameLink(rows'[q], run.snap[q])
    <3>1. CASE rows[q] # None /\ SameLink(rows'[q], rows[q])
      BY <2>2, <3>1 DEF SnapLinks, SameLink
    <3>2. CASE q \notin rowIds /\ rows'[q].pid = None
      BY <2>1, <3>2 DEF SnapLinks
    <3>3. CASE rows'[q] = rows[q]
      BY <2>2, <3>3 DEF SnapLinks
    <3> QED
      BY <2>2, <3>1, <3>2, <3>3
  <2> QED
    BY <2>1, <2>2 DEF SnapLinks
<1> QED
  BY <1>1, <1>2, <1>3 DEF RunInv

(* The locals of a run stay consistent, and its listing stays fresh.       *)
LEMMA WorkerInvStep ==
    ASSUME IInv, Next
    PROVE  RunInv'
<1> TypeOK /\ WorkerInv /\ SnapshotFresh /\ SnapLinks /\ LockInv
  BY DEF IInv
<1> USE DEF db, cloud, account, deleter, ledger, worker
<1>1. CASE Requests
  BY <1>1 DEF Requests, TakeRequest, RunInv, WorkerInv, SnapshotFresh,
     SnapLinks, CurRow, ValueOf, InRecord, Listing
<1>2. ASSUME UNCHANGED <<worker, touched>>, rowIds \subseteq rowIds',
             (rows' = rows /\ rowIds' = rowIds) \/ lock # "sync"
      PROVE  RunInv'
  <2>1. Reached' = Reached
    BY <1>2 DEF Reached
  <2> QED
    BY <1>2, <2>1 DEF RunInv, WorkerInv, SnapshotFresh, SnapLinks, LockInv,
       CurRow, ValueOf, InRecord, Listing, Running
<1>3. CASE Crash \/ ReleaseLock
  BY <1>3 DEF Crash, ReleaseLock, RunInv, WorkerInv, SnapshotFresh, SnapLinks,
     NoRun, NoRows, InRecord, Listing
<1>0. WorkerStep /\ pc \in Listing => UNCHANGED <<rowIds, touched>>
  BY WorkerFrame
<1>4. CASE LockForSync
  BY <1>4 DEF LockForSync, StartRun, RunInv, WorkerInv, SnapshotFresh,
     SnapLinks, InRecord, Listing
<1>6. CASE ListRows
  <2>1. /\ run'.snap = rows /\ run'.todo = {r \in Rids : rows[r] # None}
        /\ run'.got = run.got /\ run'.due = run.due /\ run = NoRun
        /\ rows' = rows /\ rowIds' = rowIds
        /\ pc' \in {"finish", "resolve", "zones"}
    BY <1>6 DEF ListRows, TypeOK, Run, WorkerInv
  <2>2. WorkerInv'
    BY <2>1 DEF WorkerInv, NoRun, InRecord
  <2>3. SnapshotFresh'
    BY <2>1 DEF SnapshotFresh, SameConfig, TypeOK
  <2>4. SnapLinks'
    <3>1. Reached' \subseteq run'.todo
      BY <2>1 DEF Reached
    <3> QED
      BY <2>1, <3>1 DEF IInv, SnapLinks, SameLink, LinkInv, TypeOK, Reached
  <2> QED
    BY <2>2, <2>3, <2>4 DEF RunInv
<1>7. CASE ResolveIpv4 \/ ResolveHangs \/ ListZones \/ EndRun
  <2>1. /\ pc \in Listing /\ pc # "pages" /\ pc \notin InRecord
        /\ run'.snap = run.snap /\ run'.todo = run.todo
        /\ run'.got = run.got /\ run'.due = run.due
        /\ rows' = rows /\ pc' \in {"finish", "hung", "zones", "next"}
    BY <1>7
    DEF ResolveIpv4, ResolveHangs, ListZones, EndRun, Local, TypeOK, Run,
        Listing, InRecord
  <2>2. Reached' = run.todo
    BY <2>1 DEF Reached
  <2>3. UNCHANGED <<rowIds, touched>>
    BY <1>0, <1>7, <2>1 DEF WorkerStep
  <2> QED
    BY <2>1, <2>2, <2>3, FreshKept DEF RunInv, WorkerInv, InRecord, Reached
<1>8. ASSUME NEW r \in Rids, SkipStatic(r) \/ CannotPush(r)
      PROVE  RunInv'
  <2>1. /\ pc = "next" /\ run'.snap = run.snap /\ run'.todo = run.todo \ {r}
        /\ run'.got = run.got /\ run'.due = run.due
        /\ rows' = rows /\ pc' = pc /\ UNCHANGED <<rowIds, touched>>
    BY <1>8 DEF SkipStatic, CannotPush, Local, TypeOK, Run
  <2> QED
    BY <2>1, FreshKept DEF RunInv, WorkerInv, InRecord, Listing, Reached
<1>9. ASSUME NEW r \in Rids, NEW z \in Zones, BeginRecord(r, z)
      PROVE  RunInv'
  <2>1. /\ pc = "next" /\ run'.snap = run.snap /\ run'.todo = run.todo \ {r}
        /\ run'.cur = r /\ run'.zone = z /\ run'.ip = run.ip
        /\ run'.got = run.got /\ run'.due = run.due
        /\ run'.cached = run.cached /\ rows' = rows /\ r \in run.todo
        /\ pc' = IF z \in run.cached THEN "reconcile" ELSE "records"
        /\ UNCHANGED <<rowIds, touched>>
    BY <1>9 DEF BeginRecord, Local, TypeOK, Run
  <2>2. SnapshotFresh' /\ SnapLinks'
    BY <2>1, FreshKept DEF Listing, Reached
  <2>3. run.snap[r] # None /\ (r \notin touched => rows[r] = run.snap[r])
    BY <2>1 DEF SnapshotFresh, Listing, WorkerInv
  <2> QED
    BY <1>9, <2>1, <2>2, <2>3, NoneAssumption
    DEF BeginRecord, RunInv, WorkerInv, CurRow, ValueOf, InRecord
<1>10. ASSUME NEW S, ListPage(S) \/ ListLastPage(S)
       PROVE  RunInv'
  <2>1. /\ pc \in {"records", "pages"}
        /\ run'.snap = run.snap /\ run'.todo = run.todo
        /\ run'.cur = run.cur /\ run'.zone = run.zone /\ run'.ip = run.ip
        /\ rows' = rows /\ UNCHANGED <<rowIds, touched>>
    BY <1>10 DEF ListPage, ListLastPage, TypeOK, Run
  <2>2. \/ pc' = "pages" /\ run'.cached = run.cached
        \/ /\ pc' = "reconcile" /\ run'.cached = run.cached \cup {run.zone}
           /\ run'.got = NoRemotes /\ run'.due = {}
    BY <1>10 DEF ListPage, ListLastPage, TypeOK, Run
  <2>3. SnapshotFresh' /\ SnapLinks'
    BY <2>1, <2>2, FreshKept DEF Listing, Reached
  <2> QED
    BY <2>1, <2>2, <2>3 DEF RunInv, WorkerInv, CurRow, ValueOf, InRecord
<1>11. CASE Refuse \/ LeaveUnchanged
  <2>1. run.seen \in [Pids -> Remote \cup {None}]
    BY DEF TypeOK, Run
  <2> QED
    BY <1>11, <2>1, RowEnds
    DEF Refuse, LeaveUnchanged, Local, Counters, InRecord
<1>12. ASSUME NEW p \in Pids, pc \in InRecord, Put(p), touched' = touched
       PROVE  RunInv'
  <2>1. PushedTo(p) \in [Pids -> Remote \cup {None}]
    BY <1>12, PushedType
  <2> QED
    BY <1>12, <2>1, RowEnds DEF Put, Answer, TimesOut, Counters
<1>13. CASE PutOwned \/ PutAdopted
  <2>1. pc \in InRecord /\ pc \in Listing
    BY <1>13 DEF PutOwned, PutAdopted, InRecord, Listing
  <2> QED
    BY <1>0, <1>12, <1>13, <2>1
    DEF PutOwned, PutAdopted, Listed, WorkerInv, TypeOK, Run, WorkerStep
<1>14. CASE ClearStaleId
  <2>1. pc \in InRecord /\ pc \in Listing /\ pc = "reconcile"
    BY <1>14 DEF ClearStaleId, InRecord, Listing
  <2>2. rows' = rows \/ Linking
    BY <1>14, <2>1, WantType DEF ClearStaleId, Linking
  <2>3. UNCHANGED <<rowIds, touched>>
    BY <1>0, <1>14, <2>1 DEF WorkerStep
  <2>4. CASE RowFails
    BY <2>1, <2>2, <2>3, <2>4, RowEnds
  <2>5. CASE pc' = "create" /\ UNCHANGED run
    <3>1. Reached' = run.todo /\ run.cur \notin run.todo
      BY <2>1, <2>5 DEF Reached, WorkerInv
    <3>2. SnapshotFresh' /\ SnapLinks'
      BY <2>1, <2>2, <2>3, <2>5, <3>1, FreshKept DEF Reached
    <3> QED
      BY <2>1, <2>5, <3>2
      DEF RunInv, WorkerInv, CurRow, ValueOf, InRecord
  <2> QED
    BY <1>14, <2>4, <2>5 DEF ClearStaleId, Answer
<1>20. ASSUME NEW p \in Pids, pc \in {"create", "reconcile"},
              pc' \in {"fixup", "save"}, run' = [run EXCEPT !.target = p],
              rows' = rows \/ Linking, UNCHANGED <<rowIds, touched>>,
              pc = "reconcile" => run.zone \in run.cached
       PROVE  RunInv'
  <2>1. /\ run'.snap = run.snap /\ run'.todo = run.todo
        /\ run'.cur = run.cur /\ run'.zone = run.zone /\ run'.ip = run.ip
        /\ run'.cached = run.cached /\ run'.target = p
        /\ run'.got = run.got /\ run'.due = run.due
    BY <1>20 DEF TypeOK, Run
  <2>2. pc \in InRecord /\ pc \in Listing
    BY <1>20 DEF InRecord, Listing
  <2>3. Reached' = run.todo /\ run.cur \notin run.todo
    BY <1>20, <2>1, <2>2 DEF Reached, WorkerInv
  <2>4. SnapshotFresh' /\ SnapLinks'
    BY <1>20, <2>1, <2>2, <2>3, FreshKept DEF Reached
  <2> QED
    BY <1>20, <2>1, <2>2, <2>4, NoneAssumption
    DEF RunInv, WorkerInv, CurRow, ValueOf, InRecord
<1>15. ASSUME NEW p \in Pids, Adopt(p)
       PROVE  RunInv'
  <2>1. pc \in InRecord /\ pc \in Listing /\ pc = "reconcile"
    BY <1>15 DEF Adopt, InRecord, Listing
  <2>2. rows' = rows \/ Linking
    BY <1>15, <2>1, WantType DEF Adopt, CanLink, Linking
  <2>3. run.seen \in [Pids -> Remote \cup {None}]
    BY DEF TypeOK, Run
  <2>4. UNCHANGED <<rowIds, touched>>
    BY <1>0, <1>15, <2>1 DEF WorkerStep
  <2>5. CASE RowFails \/ RowDone("unchanged", run.seen)
    BY <2>1, <2>2, <2>3, <2>4, <2>5, RowEnds DEF Counters
  <2>6. CASE pc' = "fixup" /\ run' = [run EXCEPT !.target = p]
    BY <1>20, <2>1, <2>2, <2>4, <2>6 DEF WorkerInv, InRecord
  <2> QED
    BY <1>15, <2>5, <2>6 DEF Adopt, Answer
<1>16. CASE Post
  <2>1. /\ rows' = rows /\ pc \in {"create", "reconcile"}
        /\ pc \in InRecord /\ pc \in Listing
    BY <1>16 DEF Post, InRecord, Listing
  <2>2. UNCHANGED <<rowIds, touched>>
    BY <1>0, <1>16, <2>1 DEF WorkerStep
  <2>3. CASE RowFails
    BY <2>1, <2>2, <2>3, RowEnds
  <2>4. ASSUME NEW p \in Pids, pc' = "save", run' = [run EXCEPT !.target = p]
        PROVE  RunInv'
    BY <1>20, <2>1, <2>2, <2>4 DEF WorkerInv, InRecord
  <2> QED
    BY <1>16, <2>3, <2>4 DEF Post, Answer, TimesOut
<1>17. CASE SaveId
  <2>1. run.target \in Pids /\ pc \in InRecord /\ pc \in Listing
    BY <1>17 DEF SaveId, WorkerInv, TypeOK, Run, InRecord, Listing
  <2>2. rows' = rows \/ Linking
    BY <1>17, <2>1, WantType DEF SaveId, CanLink, Linking
  <2>3. PushedTo(run.target) \in [Pids -> Remote \cup {None}]
    BY <2>1, PushedType
  <2>4. UNCHANGED <<rowIds, touched>>
    BY <1>0, <1>17, <2>1 DEF WorkerStep
  <2> QED
    BY <1>17, <2>1, <2>2, <2>3, <2>4, RowEnds DEF SaveId, Answer, Counters
<1>18. CASE CallFails
  <2>0. UNCHANGED <<rowIds, touched, rows>>
    BY <1>18 DEF CallFails, Spend
  <2>1. CASE pc \in {"list", "zones"} /\ RunFails
    <3>1. pc' = "finish" /\ run' = run
      BY <2>1 DEF RunFails
    <3> QED
      BY <2>0, <2>1, <3>1 DEF RunInv, WorkerInv, SnapshotFresh, SnapLinks,
         InRecord, Listing
  <2> QED
    BY <1>18, <2>0, <2>1, RowEnds DEF CallFails, InRecord
<1>19. CASE WorkerStep
  BY <1>3, <1>4, <1>6, <1>7, <1>8, <1>9, <1>10, <1>11, <1>13, <1>14, <1>15,
     <1>16, <1>17, <1>18, <1>19 DEF WorkerStep
<1> QED
  BY <1>1, <1>2, <1>3, <1>19, Outsider, LandingFresh DEF Next

-----------------------------------------------------------------------------
(* The Cloudflare account. *)

(* What any step does to the account: nothing, a new id, a write to a      *)
(* record that exists, or the end of one.                                  *)
Unmoved == cf' = cf /\ issued' = issued
Born(p) == /\ p \notin issued /\ issued' = issued \cup {p}
           /\ \E rem \in Remote : cf' = [cf EXCEPT ![p] = rem]
Written(p) == /\ cf[p] # None /\ issued' = issued
              /\ \E rem \in Remote : /\ Mentioned(p, rem.zone)
                                     /\ cf' = [cf EXCEPT ![p] = rem]
Died(p) == /\ cf[p] # None /\ issued' = issued
           /\ cf' = [cf EXCEPT ![p] = None]
CloudStep == Unmoved \/ \E p \in Pids : Born(p) \/ Written(p) \/ Died(p)

(* Every step is one of these for the account.                             *)
LEMMA CloudMoves ==
    ASSUME IInv, Next
    PROVE  CloudStep
<1> TypeOK /\ WorkerInv /\ DeleterInv
  BY DEF IInv
<1> USE DEF cloud
<1>1. ASSUME UNCHANGED <<cf, issued>>
      PROVE  CloudStep
  BY <1>1 DEF CloudStep, Unmoved
<1>2. ASSUME NEW p \in Pids, pc \in InRecord, Put(p), Mentioned(p, run.zone)
      PROVE  CloudStep
  <2>1. Want \in Remote /\ Want.zone = run.zone
    BY <1>2, WantType DEF Want, Desired
  <2>2. CASE cf[p] # None /\ PutRemote(p, Want)
    BY <1>2, <2>1, <2>2 DEF PutRemote, CloudStep, Written
  <2> QED
    BY <1>1, <1>2, <2>2 DEF Put
<1>3. CASE PutOwned
  BY <1>2, <1>3 DEF PutOwned, Listed, Mentioned, InRecord
<1>4. CASE PutAdopted
  <2>1. run.target \in Pids /\ Mentioned(run.target, run.zone)
    BY <1>4 DEF PutAdopted, WorkerInv, Mentioned, TypeOK, Run
  <2> QED
    BY <1>2, <1>4, <2>1 DEF PutAdopted, InRecord
<1>5. ASSUME NEW p \in Pids, NEW rem \in Remote, NEW r, PostRemote(p, rem, r)
      PROVE  CloudStep
  BY <1>5 DEF PostRemote, CloudStep, Born
<1>6. CASE Post
  BY <1>1, <1>5, <1>6, WantType DEF Post, InRecord
<1>7. CASE WorkerStep
  BY <1>1, <1>3, <1>4, <1>6, <1>7 DEF WorkerStep, LockForSync, StartRun,
     ListRows, ResolveIpv4, ResolveHangs, ListZones, SkipStatic, CannotPush,
     BeginRecord, ListPage, ListLastPage, Refuse, LeaveUnchanged,
     ClearStaleId, SaveId, Adopt, CallFails, EndRun, ReleaseLock, Local
<1>8. CASE DeleteRemote
  <2>1. del.row.pid \in Pids
    BY <1>8 DEF DeleteRemote, DeleterInv, TypeOK, Row
  <2> QED
    BY <1>1, <1>8, <2>1 DEF DeleteRemote, PutRemote, CloudStep, Died
<1>9. CASE DeleteStep
  BY <1>1, <1>8, <1>9 DEF DeleteStep, DeleteRead, DeleteCheck, DeleteRow,
     DeleteAborts, DeleteDropped
<1>10. CASE Requests \/ Mutations
  BY <1>1, <1>10 DEF Requests, TakeRequest, Mutations, CreateRecord,
     CreateDropped, UpdateRecord, UpdateDropped, DeleteBegin, Lands
<1>11. ASSUME NEW p \in Pids, NEW rem \in Remote, DashboardEdit(p, rem)
       PROVE  CloudStep
  BY <1>11 DEF DashboardEdit, CloudStep, Written, Mentioned
<1>12. ASSUME NEW p \in Pids, DashboardDelete(p)
       PROVE  CloudStep
  BY <1>12 DEF DashboardDelete, PutRemote, CloudStep, Died
<1>13. ASSUME NEW w \in late, LateArrives(w)
       PROVE  CloudStep
  <2>1. w \in Write
    BY DEF TypeOK
  <2>2. CASE w.op = "post"
    BY <1>5, <1>13, <2>1, <2>2 DEF LateArrives, Write
  <2>3. CASE w.op = "put"
    <3>1. w.pid \in Pids /\ w.rem \in Remote /\ Mentioned(w.pid, w.rem.zone)
      BY <2>1, <2>3 DEF Write, Mentioned
    <3> QED
      BY <1>13, <2>3, <3>1 DEF LateArrives, PutRemote, CloudStep, Written
  <2>4. CASE w.op = "delete"
    BY <1>13, <2>1, <2>4 DEF LateArrives, Write, PutRemote, CloudStep, Died
  <2> QED
    BY <1>13, <2>2, <2>3, <2>4 DEF LateArrives
<1>14. CASE Environment
  BY <1>1, <1>5, <1>11, <1>12, <1>13, <1>14
  DEF Environment, DashboardCreate, AddZone, WanChanges, Crash
<1> QED
  BY <1>7, <1>9, <1>10, <1>14 DEF Next

(* A record that is gone stays gone. *)
LEMMA GoneForGood ==
    ASSUME IInv, Next
    PROVE  /\ issued \subseteq issued'
           /\ \A p \in issued : cf[p] = None => cf'[p] = None
<1> CloudStep /\ TypeOK
  BY CloudMoves DEF IInv
<1> QED
  BY DEF CloudStep, Unmoved, Born, Written, Died, TypeOK

-----------------------------------------------------------------------------
(* The records table. *)

(* What any step does to the table: nothing, a new row without a link, a   *)
(* new configuration, a new link to an id nobody holds, a link given up    *)
(* when the record it names is gone or was left out of the run's listing,  *)
(* or a row given up when its record is gone or it was doomed.             *)
Gone(row) == row.pid # None => cf[row.pid] = None
LeftUnseen(p) == p \in missed /\ run.seen[p] = None
DoomKept == \A q \in Rids : Doomed(q)' <=> Doomed(q)
Same == UNCHANGED <<rows, rowIds>>
Created(r) == /\ r \notin rowIds /\ rows[r] = None
              /\ rowIds' = rowIds \cup {r}
              /\ \E row \in Row : /\ row.pid = None
                                  /\ rows' = [rows EXCEPT ![r] = row]
Edited(r) == /\ rows[r] # None /\ rowIds' = rowIds
             /\ \E row \in Row :
                   /\ row.pid = rows[r].pid /\ row.zone = rows[r].zone
                   /\ rows' = [rows EXCEPT ![r] = row]
Linked(r) == /\ rowIds' = rowIds
             /\ \E p \in Pids, z \in Zones, row \in Row :
                   /\ CanLink(r, z, p) /\ Mentioned(p, z)
                   /\ row.pid = p /\ row.zone = z
                   /\ rows' = [rows EXCEPT ![r] = row]
Unlinked(r) == /\ rows[r] # None /\ rowIds' = rowIds
               /\ Gone(rows[r]) \/ LeftUnseen(rows[r].pid)
               /\ \E row \in Row :
                     /\ row.pid = None
                     /\ rows' = [rows EXCEPT ![r] = row]
Removed(r) == /\ rows[r] # None /\ Gone(rows[r]) /\ rowIds' = rowIds
              /\ rows' = [rows EXCEPT ![r] = None]
Struck(r) == /\ rows[r] # None /\ Doomed(r) /\ rowIds' = rowIds
             /\ rows' = [rows EXCEPT ![r] = None]
             /\ \A q \in Rids : Doomed(q)' <=> Doomed(q) /\ q # r
TableStep ==
    \/ Same /\ (DoomKept \/ DeleteDropped)
    \/ /\ UNCHANGED <<cf, issued, missed>>
       /\ \E r \in Rids :
             \/ /\ DoomKept
                /\ \/ Created(r) \/ Edited(r) \/ Linked(r)
                   \/ Unlinked(r) \/ Removed(r)
             \/ Struck(r)

(* Every step is one of these for the table.                               *)
LEMMA TableMoves ==
    ASSUME IInv, Next
    PROVE  TableStep
<1> TypeOK /\ WorkerInv /\ DeleterInv /\ LinkInv /\ StaleInv /\ ZoneInv
    /\ SnapLinks
  BY DEF IInv
<1> USE DEF db, cloud
<1>0. ASSUME UNCHANGED sent PROVE DoomKept
  BY <1>0 DEF DoomKept, Doomed
<1>1. ASSUME UNCHANGED db
      PROVE  TableStep
  BY <1>0, <1>1 DEF TableStep, Same
<1>2. ASSUME NEW r \in Rids, NEW z \in Zones, NEW p \in Pids,
             CanLink(r, z, p), Mentioned(p, z), SetProviderId(r, z, p),
             UNCHANGED <<rowIds, sent, cloud>>
      PROVE  TableStep
  <2> DEFINE row == [rows[r] EXCEPT !.zone = z, !.pid = p]
  <2>1. rows[r] \in Row
    BY <1>2 DEF CanLink, TypeOK
  <2>2. row \in Row /\ row.pid = p /\ row.zone = z
    BY <2>1 DEF Row
  <2>3. rows' = [rows EXCEPT ![r] = row]
    BY <1>2 DEF SetProviderId
  <2> HIDE DEF row
  <2> QED
    BY <1>0, <1>2, <2>2, <2>3 DEF TableStep, Linked
<1>3. ASSUME NEW p \in Pids, Adopt(p)
      PROVE  TableStep
  <2>1. run.cur \in Rids /\ run.zone \in Zones
    BY <1>3, WantType DEF Adopt, InRecord
  <2>2. Mentioned(p, run.zone)
    BY <1>3 DEF Adopt, Candidates, Listed, Mentioned
  <2> QED
    BY <1>1, <1>2, <1>3, <2>1, <2>2 DEF Adopt
<1>4. CASE SaveId
  <2>1. run.cur \in Rids /\ run.zone \in Zones /\ run.target \in Pids
    BY <1>4, WantType DEF SaveId, InRecord, WorkerInv, TypeOK, Run
  <2>2. Mentioned(run.target, run.zone)
    BY <1>4 DEF SaveId, Mentioned
  <2> QED
    BY <1>1, <1>2, <1>4, <2>1, <2>2 DEF SaveId
<1>5. CASE ClearStaleId
  <2> DEFINE r == run.cur
             row == [rows[r] EXCEPT !.zone = None, !.pid = None]
  <2>0. CASE rows[r] = None
    BY <1>1, <1>5, <2>0 DEF ClearStaleId
  <2>10. SUFFICES ASSUME rows[r] # None PROVE TableStep
    BY <2>0
  <2>1. /\ r \in Rids /\ run.zone \in Zones /\ pc = "reconcile"
        /\ CurRow \in Row /\ run.zone \in run.cached
    BY <1>5, WantType DEF ClearStaleId, InRecord, WorkerInv
  <2>11. rows[r] \in Row /\ rows[r].pid = CurRow.pid
    BY <2>1, <2>10 DEF SnapLinks, Reached, Listing, SameLink, CurRow, TypeOK
  <2>2. row \in Row /\ row.pid = None
    BY <2>11 DEF Row
  <2>3. rows' = [rows EXCEPT ![r] = row]
    BY <1>5, <2>10 DEF ClearStaleId, SetProviderId
  <2>4. /\ CurRow.pid \in Pids /\ CurRow.zone = run.zone
        /\ ~Listed(CurRow.pid)
    BY <1>5, <2>1 DEF ClearStaleId, Owned, Refused, Row
  <2>5. Mentioned(CurRow.pid, run.zone) /\ CurRow # None
    BY <1>5, <2>1, <2>4 DEF Mentioned, CurRow, WorkerInv, InRecord
  <2>6. run.seen[CurRow.pid] = None
    <3>1. CASE run.seen[CurRow.pid] # None
      <4>1. run.seen[CurRow.pid].zone \in Zones
        BY <2>4, <3>1 DEF TypeOK, Run, Remote
      <4>2. Mentioned(CurRow.pid, run.seen[CurRow.pid].zone)
        BY <3>1 DEF Mentioned
      <4> QED
        BY <2>1, <2>4, <2>5, <3>1, <4>1, <4>2 DEF ZoneInv, Listed
    <3> QED
      BY <3>1
  <2>7. cf[CurRow.pid] = None \/ LeftUnseen(CurRow.pid)
    BY <2>1, <2>4, <2>6, NoneAssumption
    DEF StaleInv, Reached, CurRow, Listing, LeftUnseen
  <2>8. UNCHANGED <<rowIds, sent, cloud>>
    BY <1>5 DEF ClearStaleId
  <2> HIDE DEF row
  <2> QED
    BY <1>0, <2>1, <2>2, <2>3, <2>7, <2>8, <2>10, <2>11
    DEF TableStep, Unlinked, Gone
<1>13. ASSUME NEW S, ListPage(S) \/ ListLastPage(S)
       PROVE  TableStep
  BY <1>1, <1>13 DEF ListPage, ListLastPage
<1>6. CASE WorkerStep
  BY <1>1, <1>3, <1>4, <1>5, <1>6, <1>13 DEF WorkerStep, LockForSync, StartRun,
     ListRows, ResolveIpv4, ResolveHangs, ListZones, SkipStatic, CannotPush,
     BeginRecord, Refuse, LeaveUnchanged, PutOwned, PutAdopted, Put, Post,
     CallFails, EndRun, ReleaseLock, Local
<1>7. ASSUME NEW r \in Rids, NEW k \in Keys, NEW v \in Values \cup {None},
             NEW a \in Attrs, Insert(r, k, v, a)
      PROVE  Created(r)
  <2> DEFINE row == [key |-> k, value |-> v, attr |-> a, zone |-> None,
                     pid |-> None]
  <2>1. row \in Row /\ row.pid = None /\ rows[r] = None
    BY <1>7 DEF Row, Insert, LinkInv
  <2>2. rows' = [rows EXCEPT ![r] = row]
    BY <1>7 DEF Insert
  <2> HIDE DEF row
  <2> QED
    BY <1>7, <2>1, <2>2 DEF Insert, Created
<1>8. ASSUME NEW r \in Rids, NEW v \in Values \cup {None}, NEW a \in Attrs,
             Update(r, v, a)
      PROVE  Edited(r)
  <2> DEFINE row == [rows[r] EXCEPT !.value = v, !.attr = a]
  <2>1. rows[r] \in Row
    BY <1>8 DEF Update, TypeOK
  <2>2. row \in Row /\ row.pid = rows[r].pid /\ row.zone = rows[r].zone
    BY <2>1 DEF Row
  <2>3. rows' = [rows EXCEPT ![r] = row]
    BY <1>8 DEF Update
  <2> HIDE DEF row
  <2> QED
    BY <1>8, <2>2, <2>3 DEF Update, Edited
<1>9. CASE DeleteRow
  <2>1. del.id \in Rids /\ UNCHANGED <<sent, rowIds, cloud>>
    BY <1>9 DEF DeleteRow, DeleterInv, TypeOK
  <2>2. CASE rows[del.id] = None
    <3>1. rows' = rows
      BY <1>9, <2>1, <2>2 DEF DeleteRow, TypeOK
    <3> QED
      BY <1>1, <2>1, <3>1
  <2>3. CASE rows[del.id] # None
    <3>1. Gone(rows[del.id])
      BY <1>9, <2>3 DEF DeleteRow, DeleterInv, SameLink, Gone
    <3>2. Removed(del.id)
      BY <1>9, <2>1, <2>3, <3>1 DEF DeleteRow, Removed
    <3> QED
      BY <1>0, <2>1, <3>2 DEF TableStep
  <2> QED
    BY <2>2, <2>3
<1>10. CASE Requests \/ Environment
  BY <1>1, <1>10 DEF Requests, TakeRequest, Environment, DashboardCreate,
     DashboardEdit, DashboardDelete, AddZone, WanChanges, LateArrives, Crash
<1>14. ASSUME NEW r \in Rids, NEW v \in Values \cup {None}, NEW a \in Attrs,
              \/ \E k \in Keys : CreateRecord(r, k, v, a)
              \/ UpdateRecord(r, v, a)
       PROVE  TableStep
  BY <1>0, <1>7, <1>8, <1>14 DEF CreateRecord, UpdateRecord, TableStep
<1>15. ASSUME NEW s, sent' = sent \cup {s}, s.op # "delete", Same
       PROVE  TableStep
  <2>1. DoomKept
    BY <1>15 DEF DoomKept, Doomed
  <2> QED
    BY <1>15, <2>1 DEF TableStep
<1>17. ASSUME NEW k \in Keys, NEW v \in Values \cup {None}, NEW a \in Attrs,
              CreateDropped(k, v, a)
       PROVE  TableStep
  <2> DEFINE s == [op |-> "insert", key |-> k, value |-> v, attr |-> a]
  <2>1. sent' = sent \cup {s} /\ Same /\ s.op # "delete"
    BY <1>17 DEF CreateDropped, Same
  <2> QED
    BY <1>15, <2>1
<1>18. ASSUME NEW r \in Rids, NEW v \in Values \cup {None}, NEW a \in Attrs,
              UpdateDropped(r, v, a)
       PROVE  TableStep
  <2> DEFINE s == [op |-> "update", rid |-> r, value |-> v, attr |-> a]
  <2>1. sent' = sent \cup {s} /\ Same /\ s.op # "delete"
    BY <1>18 DEF UpdateDropped, Same
  <2> QED
    BY <1>15, <2>1
<1>16. ASSUME NEW s \in sent, NEW r \in Rids, Lands(s, r)
       PROVE  TableStep
  <2>1. s \in Statement /\ sent' = sent \ {s} /\ UNCHANGED cloud
    BY <1>16 DEF Lands, TypeOK
  <2>2. s.op # "delete" => DoomKept
    BY <2>1 DEF DoomKept, Doomed
  <2>3. CASE s.op = "insert"
    <3>1. Created(r)
      BY <1>7, <1>16, <2>1, <2>3 DEF Lands, Statement
    <3> QED
      BY <2>1, <2>2, <2>3, <3>1 DEF TableStep
  <2>4. CASE s.op = "update"
    <3>1. Edited(r)
      BY <1>8, <1>16, <2>1, <2>4 DEF Lands, Statement
    <3> QED
      BY <2>1, <2>2, <2>4, <3>1 DEF TableStep
  <2>5. CASE s.op = "delete"
    <3>1. s = [op |-> "delete", rid |-> r]
      BY <1>16, <2>1, <2>5 DEF Lands, Statement
    <3>2. \A q \in Rids : Doomed(q)' <=> Doomed(q) /\ q # r
      BY <2>1, <3>1 DEF Doomed
    <3>3. Struck(r)
      BY <1>16, <2>5, <3>1, <3>2 DEF Lands, Struck, Doomed
    <3> QED
      BY <2>1, <3>3 DEF TableStep
  <2> QED
    BY <1>16, <2>3, <2>4, <2>5 DEF Lands
<1>11. CASE Mutations
  BY <1>1, <1>11, <1>14, <1>16, <1>17, <1>18 DEF Mutations, DeleteBegin
<1>12. CASE DeleteStep
  BY <1>1, <1>9, <1>12 DEF DeleteStep, DeleteRead, DeleteCheck, DeleteRemote,
     DeleteAborts, DeleteDropped, TableStep, Same
<1> QED
  BY <1>6, <1>10, <1>11, <1>12 DEF Next

(* No two rows come to hold the same record.                               *)
LEMMA LinkStep ==
    ASSUME IInv, Next
    PROVE  LinkInv'
<1> TableStep /\ LinkInv /\ ZoneInv /\ TypeOK
  BY TableMoves DEF IInv
<1> USE NoneAssumption
<1>1. CASE Same
  BY <1>1 DEF Same, LinkInv
<1>2. ASSUME NEW r \in Rids, Created(r) \/ Edited(r) \/ Unlinked(r)
      PROVE  LinkInv'
  BY <1>2 DEF Created, Edited, Unlinked, LinkInv, TypeOK, Row
<1>3. ASSUME NEW r \in Rids, Removed(r) \/ Struck(r)
      PROVE  LinkInv'
  BY <1>3 DEF Removed, Struck, LinkInv, TypeOK
<1>4. ASSUME NEW r \in Rids, Linked(r)
      PROVE  LinkInv'
  <2>1. PICK p \in Pids, z \in Zones, row \in Row :
            /\ CanLink(r, z, p) /\ Mentioned(p, z)
            /\ row.pid = p /\ row.zone = z
            /\ rows' = [rows EXCEPT ![r] = row]
    BY <1>4 DEF Linked
  <2>2. ASSUME NEW q \in Rids, rows[q] # None, rows[q].pid = p
        PROVE  FALSE
    <3>1. rows[q].zone \in Zones
      BY <2>2 DEF LinkInv, TypeOK, Row
    <3>2. Mentioned(p, rows[q].zone)
      BY <2>2 DEF Mentioned
    <3> QED
      BY <2>1, <2>2, <3>1, <3>2 DEF ZoneInv, CanLink
  <2> QED
    BY <1>4, <2>1, <2>2 DEF Linked, CanLink, LinkInv, TypeOK
<1> QED
  BY <1>1, <1>2, <1>3, <1>4 DEF TableStep

-----------------------------------------------------------------------------
(* The DELETE handler. *)

(* A linked row names a record that was once created, in a known zone.     *)
LEMMA LinkedRow ==
    ASSUME TypeOK, LinkInv, ZoneInv, NEW r \in Rids,
           rows[r] # None, rows[r].pid # None
    PROVE  /\ rows[r].pid \in issued /\ rows[r].zone \in Zones
           /\ Mentioned(rows[r].pid, rows[r].zone)
<1>1. rows[r].pid \in Pids /\ rows[r].zone \in Zones
  BY DEF TypeOK, Row, LinkInv
<1>2. Mentioned(rows[r].pid, rows[r].zone)
  BY DEF Mentioned
<1> QED
  BY <1>1, <1>2 DEF ZoneInv

(* No id of the identity column is taken back.                             *)
LEMMA RowIdsGrow ==
    ASSUME IInv, Next
    PROVE  rowIds \subseteq rowIds'
BY TableMoves
DEF TableStep, Same, Created, Edited, Linked, Unlinked, Removed, Struck

(* While the handler holds the lock nobody else writes the table, but for  *)
(* a statement that lands late.                                            *)
LEMMA DeleterFrame ==
    ASSUME IInv, Next
    PROVE  \/ DeleteStep
           \/ dpc' = "idle"
           \/ \E r \in Rids : DeleteBegin(r)
           \/ \E r \in Rids : Landing(r)
           \/ UNCHANGED deleter /\ (rows' = rows \/ dpc = "idle")
<1>0. dpc # "idle" => lock = "delete" /\ pc \notin Running
  BY DEF IInv, LockInv
<1> TypeOK
  BY DEF IInv
<1> USE DEF db, deleter
<1>1. CASE Requests
  BY <1>1 DEF Requests, TakeRequest
<1>2. CASE WorkerStep
  <2>1. UNCHANGED deleter
    BY <1>2, WorkerFrame
  <2>2. rows' = rows \/ ClearStaleId \/ SaveId \/ \E p \in Pids : Adopt(p)
    BY <1>2 DEF WorkerStep, LockForSync, StartRun,
       ListRows, ResolveIpv4, ResolveHangs, ListZones, SkipStatic, CannotPush,
       BeginRecord, ListPage, ListLastPage, Refuse, LeaveUnchanged, PutOwned,
       PutAdopted, Put, Post, CallFails, EndRun, ReleaseLock, Local
  <2>3. ClearStaleId \/ SaveId \/ (\E p \in Pids : Adopt(p))
          => pc \in Running
    <3>1. ClearStaleId => pc = "reconcile"
      BY DEF ClearStaleId
    <3>2. SaveId => pc = "save"
      BY DEF SaveId
    <3>3. \A p \in Pids : Adopt(p) => pc = "reconcile"
      BY DEF Adopt
    <3> QED
      BY <3>1, <3>2, <3>3 DEF Running, Listing
  <2> QED
    BY <1>0, <2>1, <2>2, <2>3
<1>3. CASE Mutations
  BY <1>0, <1>3, LandsFrame
  DEF Mutations, CreateRecord, CreateDropped, UpdateRecord, UpdateDropped
<1>4. CASE Environment
  BY <1>4 DEF Environment, DashboardCreate, DashboardEdit, DashboardDelete,
     AddZone, WanChanges, LateArrives, Crash
<1> QED
  BY <1>1, <1>2, <1>3, <1>4 DEF Next

(* The row the handler read has the link of the row it deletes, and goes   *)
(* only once its record is gone.                                           *)
LEMMA DeleterStep ==
    ASSUME IInv, Next
    PROVE  DeleterInv'
<1> TypeOK /\ LinkInv /\ ZoneInv /\ DeleterInv
  BY DEF IInv
<1> rowIds \subseteq rowIds' /\ issued \subseteq issued'
  BY RowIdsGrow, GoneForGood
<1> USE NoneAssumption
<1>1. CASE DeleteRead
  <2>1. CASE dpc' = "idle"
    BY <2>1 DEF DeleterInv
  <2>2. CASE /\ rows[del.id] # None
             /\ del' = [del EXCEPT !.row = rows[del.id]]
             /\ dpc' = IF rows[del.id].pid # None THEN "check" ELSE "forget"
    <3>1. /\ del'.id = del.id /\ del'.row = rows[del.id] /\ del.id \in Rids
          /\ del.id \in rowIds /\ rows' = rows
      BY <1>1, <2>2 DEF DeleteRead, DeleterInv, TypeOK, db
    <3>2. del'.row.pid # None => del'.row.pid \in issued
      BY <2>2, <3>1, LinkedRow
    <3> QED
      BY <2>2, <3>1, <3>2 DEF DeleterInv, SameLink
  <2> QED
    BY <1>1, <2>1, <2>2 DEF DeleteRead, DeleteEnds
<1>2. CASE DeleteCheck
  BY <1>2 DEF DeleteCheck, DeleteEnds, DeleterInv, db
<1>3. CASE DeleteRemote
  <2>1. del.row.pid \in Pids
    BY <1>3 DEF DeleteRemote, DeleterInv, TypeOK, Row
  <2> QED
    BY <1>3, <2>1 DEF DeleteRemote, PutRemote, DeleteEnds, DeleterInv, db, TypeOK
<1>4. CASE dpc' = "idle"
  BY <1>4 DEF DeleterInv
<1>5. ASSUME NEW r \in Rids, DeleteBegin(r)
      PROVE  DeleterInv'
  BY <1>5 DEF DeleteBegin, DeleterInv, NoDel, LinkInv, db
<1>6. dpc = "forget" /\ del.row.pid # None => cf'[del.row.pid] = None
  BY GoneForGood DEF DeleterInv
<1>7. CASE UNCHANGED deleter /\ (rows' = rows \/ dpc = "idle")
  BY <1>6, <1>7 DEF DeleterInv, deleter
<1>8. ASSUME NEW r \in Rids, Landing(r)
      PROVE  DeleterInv'
  <2>1. UNCHANGED deleter
    BY <1>8 DEF Landing
  <2>2. dpc \in {"check", "remote", "forget"} /\ rows'[del.id] # None
           => SameLink(rows'[del.id], del.row)
    BY <1>8 DEF Landing, DeleterInv, SameLink, TypeOK
  <2> QED
    BY <1>6, <2>1, <2>2 DEF DeleterInv, deleter
<1>9. CASE DeleteStep
  BY <1>1, <1>2, <1>3, <1>4, <1>9
  DEF DeleteStep, DeleteRow, DeleteAborts, DeleteDropped, DeleteEnds
<1> QED
  BY <1>4, <1>5, <1>7, <1>8, <1>9, DeleterFrame

-----------------------------------------------------------------------------
(* The zone of a record id. *)

(* Only a new id can be mentioned where it was not: the record is there,   *)
(* in that zone.                                                           *)
Fresh(p, z) == p \notin issued /\ p \in issued' /\ cf'[p] # None /\ cf'[p].zone = z

(* Where the worker's listings, an abandoned PUT or the worker's target    *)
(* can come from.                                                          *)
SnapAt(p, z) == \E r \in Rids : /\ run.snap[r] # None
                                /\ run.snap[r].pid = p /\ run.snap[r].zone = z
SeenAt(p, z) == run.seen[p] # None /\ run.seen[p].zone = z
GotAt(p, z) == run.got[p] # None /\ run.got[p].zone = z
KnownAt(p, z) == SnapAt(p, z) \/ SeenAt(p, z) \/ GotAt(p, z)
LateAt(p, z) == \E w \in late : w.op = "put" /\ w.pid = p /\ w.rem.zone = z
TargetAt(p, z) == pc \in {"save", "fixup"} /\ run.target = p /\ run.zone = z
RunStep(p, z) == /\ KnownAt(p, z)' => Mentioned(p, z)
                 /\ LateAt(p, z)' => Mentioned(p, z)
                 /\ TargetAt(p, z)' => Mentioned(p, z) \/ Fresh(p, z)

(* A step that at most shortens what the run knows of a record.            *)
LEMMA RunKept ==
    ASSUME NEW p \in Pids, NEW z \in Zones,
           KnownAt(p, z)' => Mentioned(p, z), late' = late,
           \/ pc' \notin {"save", "fixup"}
           \/ pc' = pc /\ run'.target = run.target /\ run'.zone = run.zone
    PROVE  RunStep(p, z)
BY DEF RunStep, LateAt, TargetAt, Mentioned

(* So it does when it changes only what the zones were seen to hold.       *)
LEMMA KnownKept ==
    ASSUME NEW p \in Pids, NEW z \in Zones, run'.snap = run.snap,
           run'.got = run.got \/ run'.got = NoRemotes,
           SeenAt(p, z)' => Mentioned(p, z)
    PROVE  KnownAt(p, z)' => Mentioned(p, z)
BY DEF KnownAt, SnapAt, GotAt, Mentioned, NoRemotes

(* A PUT writes to the zone in which the run found the record.             *)
LEMMA PutMoves ==
    ASSUME IInv, pc \in InRecord, NEW q \in Pids, Put(q),
           Mentioned(q, run.zone), NEW p \in Pids, NEW z \in Zones
    PROVE  RunStep(p, z)
<1> TypeOK /\ WorkerInv
  BY DEF IInv
<1> DEFINE w == [op |-> "put", pid |-> q, rem |-> Want]
<1>1. Want \in Remote /\ Want.zone = run.zone
  BY WantType DEF Want, Desired
<1>2. PushedTo(q) \in [Pids -> Remote \cup {None}]
  BY PushedType
<1>3. PushedTo(q) = [run.seen EXCEPT ![q] = Want]
  BY DEF PushedTo
<1>4. run.seen \in [Pids -> Remote \cup {None}]
  BY DEF TypeOK, Run
<1>5. /\ run'.seen = run.seen \/ run'.seen = PushedTo(q)
      /\ run'.snap = run.snap /\ run'.got = NoRemotes
  BY <1>2, RowFailsFrame, RowDoneFrame DEF Put, Answer, TimesOut
<1>6. SeenAt(p, z)' => Mentioned(p, z)
  BY <1>1, <1>3, <1>4, <1>5 DEF SeenAt, Mentioned
<1>7. late' = late \/ late' = late \cup {w}
  BY DEF Put, TimesOut
<1>8. LateAt(p, z)' => Mentioned(p, z)
  BY <1>1, <1>7 DEF LateAt, Mentioned
<1>9. pc' = "next"
  BY DEF Put, Answer, TimesOut, RowFails, RowDone
<1> QED
  BY <1>5, <1>6, <1>8, <1>9, KnownKept DEF RunStep, TargetAt

(* What the run and the abandoned writes mention was mentioned before, or  *)
(* is a record just created.                                               *)
LEMMA RunMoves ==
    ASSUME IInv, Next, NEW p \in Pids, NEW z \in Zones
    PROVE  RunStep(p, z)
<1> TypeOK /\ WorkerInv
  BY DEF IInv
<1> USE DEF db, cloud, account, worker, deleter, ledger
<1>0. KnownAt(p, z) => Mentioned(p, z)
  BY DEF KnownAt, SnapAt, SeenAt, GotAt, Mentioned
<1>1. ASSUME UNCHANGED <<late, pc, run>>
      PROVE  RunStep(p, z)
  BY <1>0, <1>1 DEF RunStep, KnownAt, SnapAt, SeenAt, GotAt, LateAt, TargetAt,
     Mentioned
<1>2. CASE Requests \/ LockForSync \/ EndRun
  <2>1. KnownAt(p, z)' <=> KnownAt(p, z)
    BY <1>2 DEF Requests, TakeRequest, LockForSync, StartRun, EndRun,
       KnownAt, SnapAt, SeenAt, GotAt
  <2> QED
    BY <1>0, <1>2, <2>1, RunKept
    DEF Requests, TakeRequest, LockForSync, StartRun, EndRun, Local
<1>3. CASE ReleaseLock \/ Crash
  <2>1. ~KnownAt(p, z)'
    BY <1>3 DEF ReleaseLock, Crash, NoRun, NoRemotes, NoRows, KnownAt, SnapAt,
       SeenAt, GotAt
  <2> QED
    BY <1>3, <2>1, RunKept DEF ReleaseLock, Crash
<1>4. ASSUME run'.seen = run.seen, run'.snap = run.snap,
             run'.got = run.got \/ run'.got = NoRemotes
      PROVE  KnownAt(p, z)' => Mentioned(p, z)
  BY <1>4, KnownKept DEF SeenAt, Mentioned
<1>5. CASE ListRows
  <2>1. run'.seen = run.seen /\ run'.got = run.got /\ run'.snap = rows
    BY <1>5 DEF ListRows, TypeOK, Run
  <2>2. KnownAt(p, z)' => Mentioned(p, z)
    BY <2>1 DEF KnownAt, SnapAt, SeenAt, GotAt, Mentioned
  <2> QED
    BY <1>5, <2>2, RunKept DEF ListRows
<1>21. CASE ResolveIpv4 \/ ResolveHangs \/ ListZones
  <2>1. run'.seen = run.seen /\ run'.got = run.got /\ run'.snap = run.snap
    BY <1>21 DEF ResolveIpv4, ResolveHangs, ListZones, TypeOK, Run
  <2> QED
    BY <1>4, <1>21, <2>1, RunKept
    DEF ResolveIpv4, ResolveHangs, ListZones, Local
<1>6. ASSUME NEW r \in Rids, SkipStatic(r) \/ CannotPush(r)
      PROVE  RunStep(p, z)
  <2>1. run'.seen = run.seen /\ run'.got = run.got /\ run'.snap = run.snap
    BY <1>6 DEF SkipStatic, CannotPush, TypeOK, Run
  <2> QED
    BY <1>4, <1>6, <2>1, RunKept DEF SkipStatic, CannotPush, Local
<1>7. ASSUME NEW r \in Rids, NEW y \in Zones, BeginRecord(r, y)
      PROVE  RunStep(p, z)
  <2>1. run'.seen = run.seen /\ run'.got = run.got /\ run'.snap = run.snap
    BY <1>7 DEF BeginRecord, TypeOK, Run
  <2> QED
    BY <1>4, <1>7, <2>1, RunKept DEF BeginRecord, Local
<1>8. ASSUME NEW S \in SUBSET InZoneNow, ListPage(S) \/ ListLastPage(S)
      PROVE  RunStep(p, z)
  <2>1. GotWith(S)[p] = cf[p] \/ GotWith(S)[p] = run.got[p]
    BY DEF GotWith
  <2>2. \/ run'.seen = run.seen /\ run'.got = GotWith(S)
        \/ /\ run'.got = NoRemotes
           /\ run'.seen[p] = GotWith(S)[p] \/ run'.seen[p] = run.seen[p]
    <3>1. ListPage(S) => run'.seen = run.seen /\ run'.got = GotWith(S)
      BY DEF ListPage, TypeOK, Run
    <3> DEFINE seen == [q \in Pids |-> IF GotWith(S)[q] # None
                                       THEN GotWith(S)[q] ELSE run.seen[q]]
    <3>2. ListLastPage(S) => run'.seen = seen /\ run'.got = NoRemotes
      BY DEF ListLastPage, TypeOK, Run
    <3>3. seen[p] = GotWith(S)[p] \/ seen[p] = run.seen[p]
      OBVIOUS
    <3> HIDE DEF seen
    <3> QED
      BY <1>8, <3>1, <3>2, <3>3
  <2>3. run'.snap = run.snap
    BY <1>8 DEF ListPage, ListLastPage, TypeOK, Run
  <2>4. KnownAt(p, z)' => Mentioned(p, z)
    BY <2>1, <2>2, <2>3
    DEF KnownAt, SnapAt, SeenAt, GotAt, Mentioned, NoRemotes
  <2> QED
    BY <1>8, <2>4, RunKept DEF ListPage, ListLastPage
<1>9. CASE Refuse \/ LeaveUnchanged
  <2>1. /\ run'.seen = run.seen /\ pc' = "next"
        /\ run'.got = NoRemotes /\ run'.snap = run.snap
    BY <1>9, RowFailsFrame, RowDoneFrame DEF Refuse, LeaveUnchanged
  <2> QED
    BY <1>4, <1>9, <2>1, RunKept DEF Refuse, LeaveUnchanged, Local
<1>10. CASE ClearStaleId
  <2>1. /\ run'.seen = run.seen /\ pc' \in {"next", "create"}
        /\ run'.snap = run.snap
        /\ run'.got = run.got \/ run'.got = NoRemotes
    BY <1>10, RowFailsFrame DEF ClearStaleId, Answer
  <2> QED
    BY <1>4, <1>10, <2>1, RunKept DEF ClearStaleId
<1>11. CASE PutOwned
  BY <1>11, PutMoves DEF PutOwned, Listed, Mentioned, InRecord
<1>12. CASE PutAdopted
  <2>1. run.target \in Pids /\ Mentioned(run.target, run.zone)
    BY <1>12 DEF PutAdopted, WorkerInv, Mentioned, TypeOK, Run
  <2> QED
    BY <1>12, <2>1, PutMoves DEF PutAdopted, InRecord
<1>13. ASSUME NEW q \in Pids, Adopt(q)
       PROVE  RunStep(p, z)
  <2>1. Mentioned(q, run.zone) /\ late' = late
    BY <1>13 DEF Adopt, Candidates, Listed, Mentioned
  <2>2. CASE RowFails \/ RowDone("unchanged", run.seen)
    BY <1>4, <2>1, <2>2, RunKept, RowFailsFrame, RowDoneFrame
  <2>3. CASE run' = [run EXCEPT !.target = q]
    <3>1. /\ run'.seen = run.seen /\ run'.zone = run.zone /\ run'.target = q
          /\ run'.got = run.got /\ run'.snap = run.snap
      BY <2>3 DEF TypeOK, Run
    <3>2. KnownAt(p, z)' => Mentioned(p, z)
      BY <1>4, <3>1
    <3> QED
      BY <2>1, <3>1, <3>2 DEF RunStep, LateAt, TargetAt, Mentioned
  <2> QED
    BY <1>13, <2>2, <2>3 DEF Adopt, Answer
<1>14. CASE Post
  <2>1. Want \in Remote /\ Want.zone = run.zone
    BY <1>14, WantType DEF Post, InRecord, Want, Desired
  <2>2. ASSUME NEW q \in Pids, PostRemote(q, Want, run.cur), late' = late,
               run' = [run EXCEPT !.target = q]
        PROVE  RunStep(p, z)
    <3>1. /\ run'.seen = run.seen /\ run'.zone = run.zone /\ run'.target = q
          /\ run'.got = run.got /\ run'.snap = run.snap
      BY <2>2 DEF TypeOK, Run
    <3>2. Fresh(q, run.zone)
      BY <2>1, <2>2, NoneAssumption DEF Fresh, PostRemote, TypeOK
    <3>3. KnownAt(p, z)' => Mentioned(p, z)
      BY <1>4, <3>1
    <3> QED
      BY <2>2, <3>1, <3>2, <3>3 DEF RunStep, LateAt, TargetAt, Mentioned
  <2>3. CASE RowFails /\ late' = late
    BY <1>4, <2>3, RunKept, RowFailsFrame
  <2>4. CASE TimesOut([op |-> "post", rid |-> run.cur, rem |-> Want])
    <3>1. LateAt(p, z)' => LateAt(p, z)
      BY <2>4 DEF TimesOut, LateAt
    <3>2. KnownAt(p, z)' => Mentioned(p, z)
      BY <1>4, <2>4, RowFailsFrame DEF TimesOut
    <3> QED
      BY <2>4, <3>1, <3>2, RowFailsFrame
      DEF TimesOut, RunStep, LateAt, TargetAt, Mentioned
  <2> QED
    BY <1>14, <2>2, <2>3, <2>4 DEF Post, Answer
<1>15. CASE SaveId
  <2>1. run.target \in Pids /\ Mentioned(run.target, run.zone) /\ late' = late
    BY <1>15 DEF SaveId, WorkerInv, Mentioned, TypeOK, Run
  <2>2. Want \in Remote /\ Want.zone = run.zone
    BY <1>15, WantType DEF SaveId, InRecord, Want, Desired
  <2>3. /\ \/ run'.seen = run.seen
           \/ run'.seen = [run.seen EXCEPT ![run.target] = Want]
        /\ run'.snap = run.snap /\ run'.got = NoRemotes
    BY <1>15, RowFailsFrame, RowDoneFrame DEF SaveId, Answer, PushedTo
  <2>4. SeenAt(p, z)' => Mentioned(p, z)
    BY <2>1, <2>2, <2>3 DEF SeenAt, Mentioned, TypeOK, Run
  <2>5. pc' = "next"
    BY <1>15 DEF SaveId, Answer, RowFails, RowDone
  <2> QED
    BY <2>1, <2>3, <2>4, <2>5, RunKept, KnownKept
<1>16. CASE CallFails
  <2>1. /\ run'.seen = run.seen /\ late' = late
        /\ pc' \in {"next", "finish"} /\ run'.snap = run.snap
        /\ run'.got = run.got \/ run'.got = NoRemotes
    BY <1>16, RowFailsFrame DEF CallFails, RunFails
  <2> QED
    BY <1>4, <2>1, RunKept
<1>17. CASE WorkerStep
  BY <1>2, <1>3, <1>5, <1>6, <1>7, <1>8, <1>9, <1>10, <1>11, <1>12, <1>13,
     <1>14, <1>15, <1>16, <1>17, <1>21 DEF WorkerStep
<1>18. ASSUME UNCHANGED worker, LateAt(p, z)' => LateAt(p, z)
       PROVE  RunStep(p, z)
  BY <1>0, <1>18 DEF RunStep, KnownAt, SnapAt, SeenAt, GotAt, LateAt, TargetAt,
     Mentioned
<1>19. CASE Mutations \/ DeleteStep
  <2>1. CASE DeleteRemote
    <3>1. \/ late' = late
          \/ late' = late \cup {[op |-> "delete", pid |-> del.row.pid]}
      BY <2>1 DEF DeleteRemote
    <3>2. LateAt(p, z)' => LateAt(p, z)
      BY <3>1 DEF LateAt
    <3> QED
      BY <1>18, <2>1, <3>2 DEF DeleteRemote
  <2> QED
    BY <1>1, <1>19, <2>1 DEF Mutations, CreateRecord, CreateDropped,
       UpdateRecord, UpdateDropped, DeleteBegin, Lands, DeleteStep,
       DeleteRead, DeleteCheck, DeleteRow, DeleteAborts, DeleteDropped
<1>20. CASE Environment
  BY <1>1, <1>3, <1>18, <1>20 DEF Environment, DashboardCreate, DashboardEdit,
     DashboardDelete, AddZone, WanChanges, LateArrives, LateAt
<1> QED
  BY <1>2, <1>17, <1>19, <1>20 DEF Next

(* So for every place that mentions a record.                              *)
LEMMA MentionMoves ==
    ASSUME IInv, Next, NEW p \in Pids, NEW z \in Zones, Mentioned(p, z)'
    PROVE  Mentioned(p, z) \/ Fresh(p, z)
<1> CloudStep /\ TableStep /\ RunStep(p, z) /\ TypeOK
  BY CloudMoves, TableMoves, RunMoves DEF IInv
<1> USE NoneAssumption
<1>1. CASE cf'[p] # None /\ cf'[p].zone = z
  BY <1>1 DEF CloudStep, Unmoved, Born, Written, Died, Fresh, Mentioned, TypeOK
<1>2. CASE \E r \in Rids : rows'[r] # None /\ rows'[r].pid = p /\ rows'[r].zone = z
  BY <1>2 DEF TableStep, Same, Created, Edited, Linked, Unlinked, Removed,
     Struck, Mentioned, TypeOK
<1>3. CASE KnownAt(p, z)' \/ LateAt(p, z)' \/ TargetAt(p, z)'
  BY <1>3 DEF RunStep
<1> QED
  BY <1>1, <1>2, <1>3 DEF Mentioned, KnownAt, SnapAt, SeenAt, GotAt, LateAt,
     TargetAt

(* All places keep agreeing on the zone of a record.                       *)
LEMMA ZoneStep ==
    ASSUME IInv, Next
    PROVE  ZoneInv'
<1>1. SUFFICES ASSUME NEW p \in Pids, NEW z \in Zones, Mentioned(p, z)',
                      NEW y \in Zones
               PROVE  p \in issued' /\ (Mentioned(p, y)' => y = z)
  BY DEF ZoneInv
<1>2. /\ Mentioned(p, z) \/ Fresh(p, z)
      /\ Mentioned(p, y)' => Mentioned(p, y) \/ Fresh(p, y)
  BY <1>1, MentionMoves
<1>3. /\ Mentioned(p, z) => p \in issued /\ (Mentioned(p, y) => y = z)
      /\ Mentioned(p, y) => p \in issued
  BY DEF IInv, ZoneInv
<1>4. issued \subseteq issued'
  BY GoneForGood
<1> QED
  BY <1>2, <1>3, <1>4 DEF Fresh

-----------------------------------------------------------------------------
(* The cached listings. *)

(* Only the last page of a listing can leave a record out.                 *)
LEMMA MissedMoves ==
    ASSUME Next
    PROVE  missed' = missed \/ \E S \in SUBSET InZoneNow : ListLastPage(S)
<1> USE DEF cloud
<1>1. CASE WorkerStep
  <2>1. CASE PutOwned \/ PutAdopted \/ Post
    BY <2>1 DEF PutOwned, PutAdopted, Put, Post, PutRemote, PostRemote
  <2>2. CASE CallFails \/ EndRun \/ ReleaseLock \/ Refuse \/ LeaveUnchanged
    BY <2>2 DEF CallFails, EndRun, ReleaseLock, Refuse, LeaveUnchanged, Local
  <2> QED
    BY <1>1, <2>1, <2>2 DEF WorkerStep, LockForSync, StartRun,
       ListRows, ResolveIpv4, ResolveHangs, ListZones, SkipStatic, CannotPush,
       BeginRecord, ListPage, ClearStaleId, SaveId, Adopt, Local
<1>2. CASE Requests \/ Mutations
  BY <1>2 DEF Requests, TakeRequest, Mutations, CreateRecord,
     CreateDropped, UpdateRecord, UpdateDropped, DeleteBegin, Lands
<1>3. CASE DeleteStep
  BY <1>3 DEF DeleteStep, DeleteRead, DeleteCheck, DeleteRemote, PutRemote,
     DeleteRow, DeleteAborts, DeleteDropped
<1>4. CASE Environment
  BY <1>4 DEF Environment, DashboardCreate, DashboardEdit, DashboardDelete,
     AddZone, WanChanges, LateArrives, Crash, PutRemote, PostRemote
<1> QED
  BY <1>1, <1>2, <1>3, <1>4 DEF Next

(* A row the run has yet to reconcile was listed, and its link is known.   *)
LEMMA ReachedRow ==
    ASSUME IInv, pc \in Listing, NEW r \in Reached
    PROVE  /\ r \in Rids /\ run.snap[r] # None
           /\ run.snap[r].pid # None =>
                 /\ run.snap[r].pid \in issued /\ run.snap[r].pid \in Pids
                 /\ run.snap[r].zone \in Zones
                 /\ Mentioned(run.snap[r].pid, run.snap[r].zone)
<1>1. r \in Rids /\ run.snap[r] # None /\ run.snap[r] \in Row
  BY DEF IInv, TypeOK, Run, WorkerInv, Reached, InRecord, CurRow
<1>2. ASSUME run.snap[r].pid # None
      PROVE  /\ run.snap[r].pid \in Pids /\ run.snap[r].zone \in Zones
             /\ Mentioned(run.snap[r].pid, run.snap[r].zone)
  BY <1>1, <1>2 DEF IInv, SnapLinks, Row, Mentioned
<1> QED
  BY <1>1, <1>2 DEF IInv, ZoneInv

(* A step that does not forget a listing keeps the rows it speaks for.     *)
LEMMA StaleKept ==
    ASSUME IInv, Next, pc \in Listing,
           run'.snap = run.snap, run'.cached = run.cached,
           Reached' \subseteq Reached,
           \A p \in Pids : run'.seen[p] = None => run.seen[p] = None,
           \/ pc' # "pages"
           \/ /\ pc = "pages" /\ run'.zone = run.zone
              /\ run'.got = run.got /\ run'.due = run.due
    PROVE  StaleInv'
<1> StaleInv
  BY DEF IInv
<1>1. missed \subseteq missed'
  BY MissedMoves DEF ListLastPage
<1>2. SUFFICES ASSUME NEW r \in Reached, run.snap[r].pid # None
               PROVE  LET row == run.snap[r] IN
                      /\ row.zone \in run.cached /\ run'.seen[row.pid] = None
                         => cf'[row.pid] = None \/ row.pid \in missed'
                      /\ pc' = "pages" /\ row.zone = run'.zone
                            /\ run'.got[row.pid] = None
                         => cf'[row.pid] = None \/ row.pid \in run'.due
  BY DEF StaleInv
<1>3. run.snap[r].pid \in Pids /\ run.snap[r].pid \in issued
  BY <1>2, ReachedRow
<1>4. cf[run.snap[r].pid] = None => cf'[run.snap[r].pid] = None
  BY <1>3, GoneForGood
<1> QED
  BY <1>1, <1>2, <1>3, <1>4 DEF StaleInv

(* A link that the pages so far do not show is due, or its record is gone. *)
LEMMA PageShows ==
    ASSUME IInv, pc \in {"records", "pages"}, NEW S \in SUBSET InZoneNow,
           NEW r \in Reached, run.snap[r].pid # None,
           run.snap[r].zone = run.zone, GotWith(S)[run.snap[r].pid] = None
    PROVE  \/ cf[run.snap[r].pid] = None
           \/ run.snap[r].pid \in DueWithout(S) \cap InZoneNow
<1> TypeOK /\ WorkerInv /\ ZoneInv /\ StaleInv
  BY DEF IInv
<1> DEFINE p == run.snap[r].pid
<1>1. p \in Pids /\ run.zone \in Zones /\ Mentioned(p, run.zone)
  BY ReachedRow DEF Listing
<1> HIDE DEF p
<1>2. SUFFICES ASSUME cf[p] # None
               PROVE  p \in DueWithout(S) \cap InZoneNow
  BY DEF p
<1>3. p \in InZoneNow
  <2>1. cf[p].zone \in Zones /\ Mentioned(p, cf[p].zone)
    BY <1>1, <1>2 DEF TypeOK, Remote, Mentioned
  <2> QED
    BY <1>1, <1>2, <2>1 DEF ZoneInv, InZoneNow
<1>4. p \notin S /\ run.got[p] = None
  BY <1>1, <1>2 DEF GotWith, p
<1>5. pc = "pages" => p \in run.due
  BY <1>2, <1>4 DEF StaleInv, Listing, p
<1> QED
  BY <1>3, <1>4, <1>5 DEF DueWithout

(* A link that the run will take for stale names a record that is gone or  *)
(* was left out, and a record that is gone stays so.                       *)
LEMMA StaleStep ==
    ASSUME IInv, Next
    PROVE  StaleInv'
<1> TypeOK /\ WorkerInv /\ LinkInv /\ ZoneInv /\ StaleInv
  BY DEF IInv
<1> USE DEF db, cloud, account, worker, deleter, ledger
<1>1. CASE pc' \notin Listing
  BY <1>1 DEF StaleInv
<1>2. CASE ListRows
  <2>1. run'.cached = {} /\ pc' # "pages"
    BY <1>2 DEF ListRows, WorkerInv, NoRun
  <2> QED
    BY <2>1 DEF StaleInv
<1>3. CASE pc \in Listing /\ UNCHANGED <<run, pc>>
  BY <1>3, StaleKept DEF Reached
<1>4. CASE ResolveIpv4 \/ ResolveHangs \/ ListZones
  <2>1. /\ run'.snap = run.snap /\ run'.todo = run.todo
        /\ run'.cached = run.cached /\ run'.seen = run.seen
        /\ pc \in Listing /\ pc' \in {"hung", "zones", "next"}
    BY <1>4 DEF ResolveIpv4, ResolveHangs, ListZones, TypeOK, Run, Listing
  <2> QED
    BY <2>1, StaleKept DEF Reached
<1>5. ASSUME NEW r \in Rids, SkipStatic(r) \/ CannotPush(r)
      PROVE  StaleInv'
  <2>1. /\ run'.snap = run.snap /\ run'.todo = run.todo \ {r}
        /\ run'.cached = run.cached /\ run'.seen = run.seen
        /\ pc = "next" /\ pc' = "next"
    BY <1>5 DEF SkipStatic, CannotPush, TypeOK, Run
  <2> QED
    BY <2>1, StaleKept DEF Reached, Listing
<1>6. ASSUME NEW r \in Rids, NEW z \in Zones, BeginRecord(r, z)
      PROVE  StaleInv'
  <2>1. /\ run'.snap = run.snap /\ run'.todo = run.todo \ {r}
        /\ run'.cached = run.cached /\ run'.seen = run.seen
        /\ run'.cur = r /\ r \in run.todo /\ pc = "next" /\ pc' # "pages"
    BY <1>6 DEF BeginRecord, TypeOK, Run
  <2> QED
    BY <2>1, StaleKept DEF Reached, Listing
<1>7. ASSUME NEW S \in SUBSET InZoneNow, ListPage(S)
      PROVE  StaleInv'
  <2>1. /\ run'.snap = run.snap /\ run'.todo = run.todo /\ run'.cur = run.cur
        /\ run'.cached = run.cached /\ run'.seen = run.seen
        /\ run'.zone = run.zone
        /\ run'.got = GotWith(S) /\ run'.due = DueWithout(S)
    BY <1>7 DEF ListPage, TypeOK, Run
  <2>2. /\ pc \in {"records", "pages"} /\ pc' = "pages" /\ pc \in Listing
        /\ UNCHANGED <<cf, missed>>
    BY <1>7 DEF ListPage, Listing
  <2>3. Reached' = Reached
    BY <2>1, <2>2 DEF Reached
  <2> QED
    BY <2>1, <2>2, <2>3, PageShows DEF StaleInv
<1>21. ASSUME NEW S \in SUBSET InZoneNow, ListLastPage(S)
       PROVE  StaleInv'
  <2> DEFINE seen == [p \in Pids |-> IF GotWith(S)[p] # None
                                     THEN GotWith(S)[p] ELSE run.seen[p]]
  <2>1. /\ run'.snap = run.snap /\ run'.todo = run.todo /\ run'.cur = run.cur
        /\ run'.cached = run.cached \cup {run.zone} /\ run'.seen = seen
    BY <1>21 DEF ListLastPage, TypeOK, Run
  <2>2. /\ pc \in {"records", "pages"} /\ pc' = "reconcile" /\ pc \in Listing
        /\ cf' = cf /\ missed' = missed \cup LeftOut(S)
    BY <1>21 DEF ListLastPage, Listing
  <2>3. Reached' = Reached
    BY <2>1, <2>2 DEF Reached
  <2>4. \A p \in Pids : seen[p] = None =>
           GotWith(S)[p] = None /\ run.seen[p] = None
    OBVIOUS
  <2> HIDE DEF seen
  <2>5. SUFFICES ASSUME NEW r \in Reached, run.snap[r].pid # None,
                        run.snap[r].zone \in run.cached \cup {run.zone},
                        seen[run.snap[r].pid] = None
                 PROVE  cf[run.snap[r].pid] = None \/ run.snap[r].pid \in missed'
    BY <2>1, <2>2, <2>3 DEF StaleInv
  <2>6. /\ GotWith(S)[run.snap[r].pid] = None
        /\ run.seen[run.snap[r].pid] = None
    BY <2>2, <2>4, <2>5, ReachedRow
  <2>7. CASE run.snap[r].zone \in run.cached
    BY <2>2, <2>5, <2>6, <2>7 DEF StaleInv
  <2>8. CASE run.snap[r].zone = run.zone
    BY <2>2, <2>5, <2>6, <2>8, PageShows DEF LeftOut
  <2> QED
    BY <2>5, <2>7, <2>8
<1>8. ASSUME pc \in InRecord, RowFails \/ \E what : RowDone(what, run.seen)
      PROVE  StaleInv'
  BY <1>8, RowFailsFrame, RowDoneFrame, StaleKept DEF Reached, InRecord, Listing
<1>9. ASSUME pc \in InRecord, NEW p \in Pids, NEW what, RowDone(what, PushedTo(p))
      PROVE  StaleInv'
  <2>1. Want # None
    BY <1>9, WantType, NoneAssumption
  <2>2. \A q \in Pids : PushedTo(p)[q] = None => run.seen[q] = None
    BY <2>1 DEF PushedTo, TypeOK, Run
  <2> QED
    BY <1>9, <2>2, RowDoneFrame, StaleKept DEF Reached, InRecord, Listing
<1>10. CASE Refuse \/ LeaveUnchanged
  BY <1>8, <1>10 DEF Refuse, LeaveUnchanged, InRecord
<1>11. CASE ClearStaleId
  <2>1. CASE pc' = "create" /\ UNCHANGED run
    BY <1>11, <2>1, StaleKept DEF ClearStaleId, Reached, Listing
  <2> QED
    BY <1>8, <1>11, <2>1 DEF ClearStaleId, Answer, InRecord
<1>12. CASE PutOwned
  BY <1>8, <1>9, <1>12
  DEF PutOwned, Listed, Put, Answer, TimesOut, InRecord
<1>13. CASE PutAdopted
  <2>1. run.target \in Pids
    BY <1>13 DEF PutAdopted, WorkerInv, TypeOK, Run
  <2> QED
    BY <1>8, <1>9, <1>13, <2>1 DEF PutAdopted, Put, Answer, TimesOut, InRecord
<1>14. ASSUME pc \in {"create", "reconcile"}, pc' \in {"save", "fixup"},
              NEW p \in Pids, run' = [run EXCEPT !.target = p]
       PROVE  StaleInv'
  <2>1. /\ run'.snap = run.snap /\ run'.todo = run.todo
        /\ run'.cached = run.cached /\ run'.seen = run.seen
    BY <1>14 DEF TypeOK, Run
  <2> QED
    BY <1>14, <2>1, StaleKept DEF Reached, Listing
<1>15. ASSUME NEW p \in Pids, Adopt(p)
       PROVE  StaleInv'
  BY <1>8, <1>14, <1>15 DEF Adopt, Answer, InRecord
<1>16. CASE Post
  BY <1>8, <1>14, <1>16 DEF Post, Answer, TimesOut, InRecord
<1>17. CASE SaveId
  <2>1. run.target \in Pids
    BY <1>17 DEF SaveId, WorkerInv, TypeOK, Run
  <2> QED
    BY <1>8, <1>9, <1>17, <2>1 DEF SaveId, Answer, InRecord
<1>18. CASE CallFails
  BY <1>1, <1>8, <1>18 DEF CallFails, RunFails, InRecord, Listing
<1>19. CASE LockForSync \/ EndRun \/ ReleaseLock \/ Requests \/ Crash
  BY <1>1, <1>19 DEF LockForSync, StartRun, EndRun, ReleaseLock, Requests,
     TakeRequest, Crash, Listing
<1>20. CASE WorkerStep
  BY <1>2, <1>4, <1>5, <1>6, <1>7, <1>10, <1>11, <1>12, <1>13, <1>15, <1>16,
     <1>17, <1>18, <1>19, <1>20, <1>21 DEF WorkerStep
<1> QED
  BY <1>1, <1>3, <1>19, <1>20, Outsider DEF Next, Landing

-----------------------------------------------------------------------------
(* The theorems. *)

(* A step that changes nothing keeps everything.                           *)
LEMMA Stutter ==
    ASSUME IInv, UNCHANGED vars
    PROVE  IInv'
<1> USE DEF vars, IInv
<1>1. TypeOK' /\ LockInv' /\ LinkInv' /\ SnapshotFresh' /\ SnapLinks'
  BY DEF TypeOK, LockInv, LinkInv, SnapshotFresh, SnapLinks, Reached
<1>2. WorkerInv' /\ DeleterInv' /\ StaleInv'
  BY DEF WorkerInv, DeleterInv, StaleInv, Reached, CurRow, ValueOf
<1>3. ZoneInv'
  BY DEF ZoneInv, Mentioned
<1> QED
  BY <1>1, <1>2, <1>3

(* The inductive invariant holds in every reachable state, whatever the    *)
(* number of rows, zones and records, and whatever the dashboard, lost and *)
(* late answers, API calls and crashes do between two calls of a run.      *)
THEOREM Inductive == Spec => []IInv
<1>1. Init => IInv
  BY InitInv
<1>2. IInv /\ [Next]_vars => IInv'
  <2> SUFFICES ASSUME IInv, [Next]_vars PROVE IInv'
    OBVIOUS
  <2>1. CASE Next
    BY <2>1, TypeStep, LockStep, WorkerInvStep, DeleterStep, ZoneStep,
       LinkStep, StaleStep DEF IInv, RunInv
  <2>2. CASE UNCHANGED vars
    BY <2>2, Stutter
  <2> QED
    BY <2>1, <2>2
<1> QED
  BY <1>1, <1>2, PTL DEF Spec

(* Type correctness of the reconciler and its environment.                 *)
THEOREM TypeCorrect == Spec => []TypeOK
<1>1. IInv => TypeOK
  BY DEF IInv
<1> QED
  BY <1>1, Inductive, PTL

(* What mutation_lock (sync.rs:60) is for: the rows a run listed are the   *)
(* rows the table holds until the run ends, but for those that a dropped   *)
(* handler's statement has changed since.                                  *)
THEOREM Snapshot == Spec => []SnapshotFresh
<1>1. IInv => SnapshotFresh
  BY DEF IInv
<1> QED
  BY <1>1, Inductive, PTL

LetsGo(r) == \/ rows'[r] # None /\ rows'[r].pid = rows[r].pid
             \/ cf[rows[r].pid] = None
             \/ rows[r].pid \in missed /\ run.seen[rows[r].pid] = None
             \/ rows'[r] = None /\ Doomed(r)

(* A row that loses its link names a record that is gone or was left out,  *)
(* or was doomed.                                                          *)
LEMMA LetsGoOfGone ==
    ASSUME IInv, Next, NEW r \in Rids, rows[r] # None, rows[r].pid # None
    PROVE  LetsGo(r)
<1>1. TableStep /\ TypeOK
  BY TableMoves DEF IInv
<1>2. ASSUME NEW q \in Rids, Created(q) \/ Edited(q) \/ Linked(q)
      PROVE  rows'[r] # None /\ rows'[r].pid = rows[r].pid
  BY <1>1, <1>2, NoneAssumption
  DEF Created, Edited, Linked, CanLink, TypeOK
<1>3. ASSUME NEW q \in Rids, Unlinked(q) \/ Removed(q) \/ Struck(q)
      PROVE  rows'[r] = rows[r] \/ LetsGo(r)
  BY <1>1, <1>3
  DEF Unlinked, Removed, Struck, Gone, LeftUnseen, LetsGo, TypeOK
<1> QED
  BY <1>1, <1>2, <1>3 DEF TableStep, Same, LetsGo

(* Neither a run (sync.rs:333) nor a deletion (sync.rs:298) lets go of a   *)
(* record that still exists on Cloudflare, unless the run's own listing    *)
(* left it out, or a dropped deletion comes true.                          *)
THEOREM Forgets == Spec => ForgetsOnlyTheGone
<1> DEFINE A == \A r \in Rids :
                  rows[r] # None /\ rows[r].pid # None =>
                     \/ rows'[r] # None /\ rows'[r].pid = rows[r].pid
                     \/ cf[rows[r].pid] = None
                     \/ rows[r].pid \in missed /\ run.seen[rows[r].pid] = None
                     \/ rows'[r] = None /\ Doomed(r)
<1>1. IInv /\ [Next]_vars => [A]_vars
  BY LetsGoOfGone DEF LetsGo
<1> HIDE DEF A
<1>2. Spec => [][A]_vars
  BY <1>1, Inductive, PTL DEF Spec
<1> QED
  BY <1>2 DEF A, ForgetsOnlyTheGone

-----------------------------------------------------------------------------
(* The reconciler implements Ownership. *)

Link == [r \in Rids |-> IF rows[r] = None THEN None ELSE rows[r].pid]
Live == {p \in Pids : cf[p] # None}
Dead == {p \in issued : cf[p] = None}
DoomedRows == {r \in Rids : Doomed(r)}

(* A record that exists has an id that was handed out.                     *)
LEMMA LiveIssued ==
    ASSUME TypeOK, ZoneInv, NEW p \in Pids, cf[p] # None
    PROVE  p \in issued
<1>1. cf[p].zone \in Zones
  BY DEF TypeOK, Remote
<1>2. Mentioned(p, cf[p].zone)
  BY DEF Mentioned
<1> QED
  BY <1>1, <1>2 DEF ZoneInv

(* A move of the account is a step of Ownership that leaves the links.     *)
LEMMA CloudRefines ==
    ASSUME IInv, CloudStep, UNCHANGED <<rows, missed>>, DoomKept
    PROVE  Owner!Next \/ UNCHANGED Owner!vars
<1> TypeOK /\ ZoneInv
  BY DEF IInv
<1> USE NoneAssumption
<1>1. Link' = Link /\ missed' = missed /\ DoomedRows' = DoomedRows
  BY DEF Link, DoomKept, DoomedRows
<1>2. CASE Unmoved
  BY <1>1, <1>2 DEF Unmoved, Owner!vars, Link, DoomedRows
<1>3. ASSUME NEW p \in Pids, Born(p)
      PROVE  Owner!Appear(p)
  <2>1. p \notin Live \cup Dead
    BY <1>3, LiveIssued DEF Born, Live, Dead
  <2>2. Live' = Live \cup {p} /\ Dead' = Dead
    BY <1>3 DEF Born, Live, Dead, TypeOK
  <2> QED
    BY <1>1, <2>1, <2>2 DEF Owner!Appear, Link, Live, Dead, DoomedRows
<1>4. ASSUME NEW p \in Pids, Written(p)
      PROVE  UNCHANGED Owner!vars
  <2>1. Live' = Live /\ Dead' = Dead
    BY <1>4 DEF Written, Live, Dead, TypeOK
  <2> QED
    BY <1>1, <2>1 DEF Owner!vars, Link, Live, Dead, DoomedRows
<1>5. ASSUME NEW p \in Pids, Died(p)
      PROVE  Owner!Vanish(p)
  <2>1. p \in Live /\ p \in issued
    BY <1>5, LiveIssued DEF Died, Live
  <2>2. Live' = Live \ {p} /\ Dead' = Dead \cup {p}
    BY <1>5, <2>1 DEF Died, Live, Dead, TypeOK
  <2> QED
    BY <1>1, <2>1, <2>2 DEF Owner!Vanish, Link, Live, Dead, DoomedRows
<1> QED
  BY <1>2, <1>3, <1>4, <1>5 DEF CloudStep, Owner!Next

(* A move of the table is a step of Ownership that leaves the account.     *)
LEMMA TableRefines ==
    ASSUME IInv, UNCHANGED <<cf, issued, missed>>, DoomKept, NEW r \in Rids,
           Created(r) \/ Edited(r) \/ Linked(r) \/ Unlinked(r) \/ Removed(r)
    PROVE  Owner!Next \/ UNCHANGED Owner!vars
<1> TypeOK /\ ZoneInv /\ LinkInv
  BY DEF IInv
<1> USE NoneAssumption
<1>1. /\ Live' = Live /\ Dead' = Dead
      /\ missed' = missed /\ DoomedRows' = DoomedRows
  BY DEF Live, Dead, DoomKept, DoomedRows
<1>2. CASE Link' = Link
  BY <1>1, <1>2 DEF Owner!vars, Link, Live, Dead, DoomedRows
<1>3. CASE Created(r) \/ Edited(r)
  <2>1. Link' = Link
    BY <1>3 DEF Created, Edited, Link, TypeOK, Row
  <2> QED
    BY <1>2, <2>1
<1>4. CASE Linked(r)
  <2>1. PICK p \in Pids, z \in Zones, row \in Row :
            /\ CanLink(r, z, p) /\ Mentioned(p, z)
            /\ row.pid = p /\ row.zone = z
            /\ rows' = [rows EXCEPT ![r] = row]
    BY <1>4 DEF Linked
  <2>2. Link[r] = None /\ p \in Live \cup Dead
    BY <2>1 DEF Link, CanLink, ZoneInv, Live, Dead
  <2>3. ASSUME NEW q \in Rids, Link[q] = p
        PROVE  FALSE
    <3>1. rows[q] # None /\ rows[q].pid = p
      BY <2>3 DEF Link
    <3>2. rows[q].zone \in Zones /\ Mentioned(p, rows[q].zone)
      BY <3>1, LinkedRow
    <3> QED
      BY <2>1, <3>1, <3>2 DEF ZoneInv, CanLink
  <2>4. Link' = [Link EXCEPT ![r] = p]
    BY <2>1 DEF Link, TypeOK
  <2>5. Owner!Take(r, p)
    BY <1>1, <2>2, <2>3, <2>4 DEF Owner!Take, Link, Live, Dead, DoomedRows
  <2> QED
    BY <2>5 DEF Owner!Next
<1>5. CASE Unlinked(r) \/ Removed(r)
  <2>1. Link' = [Link EXCEPT ![r] = None]
    BY <1>5 DEF Unlinked, Removed, Link, TypeOK
  <2>2. CASE rows[r].pid = None
    <3>1. Link' = Link
      BY <1>5, <2>1, <2>2 DEF Unlinked, Removed, Link
    <3> QED
      BY <1>2, <3>1
  <2>3. CASE rows[r].pid # None
    <3>1. Link[r] \in Dead \cup missed
      BY <1>5, <2>3, LinkedRow
      DEF Unlinked, Removed, Gone, LeftUnseen, Link, Dead
    <3>2. Owner!LetGo(r)
      BY <1>1, <2>1, <3>1 DEF Owner!LetGo, Link, Live, Dead, DoomedRows
    <3> QED
      BY <3>2 DEF Owner!Next
  <2> QED
    BY <2>2, <2>3
<1> QED
  BY <1>3, <1>4, <1>5

(* A deletion that was dropped dooms its row, which goes when it lands.    *)
LEMMA DoomRefines ==
    ASSUME IInv
    PROVE  /\ DeleteDropped => \E r \in Rids : Owner!Doom(r)
           /\ \A r \in Rids : UNCHANGED <<cf, issued, missed>> /\ Struck(r)
                                 => Owner!Strike(r)
<1> TypeOK /\ DeleterInv /\ LinkInv /\ ZoneInv
  BY DEF IInv
<1>1. ASSUME UNCHANGED <<cf, issued, missed>>
      PROVE  Live' = Live /\ Dead' = Dead /\ missed' = missed
  BY <1>1 DEF Live, Dead
<1>2. ASSUME DeleteDropped
      PROVE  Owner!Doom(del.id)
  <2>1. /\ del.id \in Rids /\ UNCHANGED <<rows, cf, issued, missed>>
        /\ sent' = sent \cup {[op |-> "delete", rid |-> del.id]}
    BY <1>2 DEF DeleteDropped, DeleterInv, TypeOK, cloud
  <2>2. Link[del.id] \in Dead \cup {None} /\ Link' = Link
    <3>1. Link' = Link
      BY <2>1 DEF Link
    <3>2. rows[del.id] # None /\ rows[del.id].pid # None
             => rows[del.id].pid \in issued /\ cf[rows[del.id].pid] = None
      BY <1>2, <2>1, LinkedRow DEF DeleteDropped, DeleterInv, SameLink
    <3> QED
      BY <2>1, <3>1, <3>2 DEF Link, Dead
  <2>3. DoomedRows' = DoomedRows \cup {del.id}
    <3>1. \A q \in Rids : Doomed(q)' <=> Doomed(q) \/ q = del.id
      BY <2>1 DEF Doomed
    <3> QED
      BY <2>1, <3>1 DEF DoomedRows
  <2> QED
    BY <1>1, <2>1, <2>2, <2>3 DEF Owner!Doom, Link, Live, Dead, DoomedRows
<1>3. ASSUME NEW r \in Rids, UNCHANGED <<cf, issued, missed>>, Struck(r)
      PROVE  Owner!Strike(r)
  <2>1. Link' = [Link EXCEPT ![r] = None]
    BY <1>3 DEF Struck, Link, TypeOK
  <2>2. r \in DoomedRows /\ DoomedRows' = DoomedRows \ {r}
    BY <1>3 DEF Struck, DoomedRows
  <2> QED
    BY <1>1, <1>3, <2>1, <2>2
    DEF Owner!Strike, Link, Live, Dead, DoomedRows
<1> QED
  BY <1>2, <1>3 DEF DeleteDropped, DeleterInv, TypeOK

(* A listing that leaves records out loses sight of them.                  *)
LEMMA PageRefines ==
    ASSUME IInv, NEW S, ListLastPage(S)
    PROVE  \E T \in SUBSET Pids : Owner!Overlook(T)
<1>1. UNCHANGED <<rows, sent, cf, issued>> /\ missed' = missed \cup LeftOut(S)
  BY DEF ListLastPage, db
<1>2. /\ Link' = Link /\ Live' = Live /\ Dead' = Dead
      /\ DoomedRows' = DoomedRows
  BY <1>1 DEF Link, Live, Dead, DoomedRows, Doomed
<1>3. LeftOut(S) \subseteq Live /\ LeftOut(S) \in SUBSET Pids
  BY DEF LeftOut, InZoneNow, Live
<1>4. Owner!Overlook(LeftOut(S))
  BY <1>1, <1>2, <1>3 DEF Owner!Overlook, Link, Live, Dead, DoomedRows
<1> QED
  BY <1>3, <1>4

(* Every behaviour of the reconciler is one of Ownership: a row holds at   *)
(* most one record, no record is held twice, and none is left behind but   *)
(* one that a listing has left out or that a dropped deletion leaves.      *)
THEOREM Refinement == Spec => ImplementsOwnership
<1>1. Init => Owner!Init
  BY DEF Init, NoRows, NoRemotes, Owner!Init, Doomed
<1>2. IInv /\ [Next]_vars => [Owner!Next]_(Owner!vars)
  <2> SUFFICES ASSUME IInv, [Next]_vars
               PROVE  Owner!Next \/ UNCHANGED Owner!vars
    OBVIOUS
  <2>1. CASE UNCHANGED vars
    BY <2>1 DEF vars, Owner!vars, Doomed
  <2>2. CASE Next
    <3>1. TableStep /\ CloudStep
      BY <2>2, TableMoves, CloudMoves
    <3>2. ASSUME NEW S, ListLastPage(S)
          PROVE  Owner!Next
      BY <3>2, PageRefines DEF Owner!Next
    <3>3. CASE Same /\ DoomKept
      BY <2>2, <3>1, <3>2, <3>3, MissedMoves, CloudRefines DEF Same
    <3>4. CASE DeleteDropped
      BY <3>4, DoomRefines DEF Owner!Next
    <3>5. ASSUME NEW r \in Rids, Struck(r), UNCHANGED <<cf, issued, missed>>
          PROVE  Owner!Next
      BY <3>5, DoomRefines DEF Owner!Next
    <3> QED
      BY <3>1, <3>3, <3>4, <3>5, TableRefines DEF TableStep
  <2> QED
    BY <2>1, <2>2
<1> QED
  BY <1>1, <1>2, Inductive, PTL DEF Spec, ImplementsOwnership, Owner!Spec

=============================================================================
