------------------------ MODULE ReconcileCopyProofs ------------------------
(***************************************************************************)
(* Proofs about the records that runs of the reconciler create: what a     *)
(* deletion leaves of them, and that a lost id does not make a second one. *)
(* They rest on the inductive invariant of ReconcileProofs.                *)
(***************************************************************************)
EXTENDS ReconcileProofs

-----------------------------------------------------------------------------
(* What a step adds to the account and to the disturbances. *)

(* The count of each kind of disturbance only grows, and grows when it     *)
(* strikes.                                                                *)
LEMMA SpendCounts ==
    ASSUME TypeOK, NEW k \in Disturbances, Spend(k)
    PROVE  /\ used'[k] # 0
           /\ \A j \in Disturbances : used'[j] = 0 => used[j] = 0
BY DEF TypeOK, Spend

(* No disturbance is taken back.                                           *)
LEMMA UsedGrows ==
    ASSUME IInv, Next, NEW k \in Disturbances, used'[k] = 0
    PROVE  used[k] = 0
<1> TypeOK
  BY DEF IInv
<1> USE DEF ledger
<1>1. CASE used' = used
  BY <1>1
<1>2. ASSUME NEW j \in Disturbances, Spend(j)
      PROVE  used[k] = 0
  BY <1>2, SpendCounts
<1>3. Disturbances = {"op", "drop", "dashboard", "zone", "wan", "lost", "late",
                      "hang", "crash", "all"}
  BY DEF Disturbances
<1>4. CASE Requests
  BY <1>4 DEF Requests, TakeRequest
<1>5. CASE WorkerStep
  <2>1. CASE \/ LockForSync \/ ListRows \/ ResolveIpv4 \/ ResolveHangs
             \/ ListZones \/ Refuse \/ LeaveUnchanged \/ CallFails
             \/ EndRun \/ ReleaseLock
    BY <1>1, <1>2, <1>3, <2>1 DEF LockForSync, StartRun, ListRows,
       ResolveIpv4, ResolveHangs, ListZones, Refuse, LeaveUnchanged,
       CallFails, EndRun, ReleaseLock, Local
  <2>2. ASSUME NEW r \in Rids, \/ SkipStatic(r) \/ CannotPush(r)
                               \/ \E z \in Zones : BeginRecord(r, z)
        PROVE  used' = used
    BY <2>2 DEF SkipStatic, CannotPush, BeginRecord, Local
  <2>3. CASE ClearStaleId \/ PutOwned \/ PutAdopted \/ Post \/ SaveId
    BY <1>1, <1>2, <1>3, <2>3
    DEF ClearStaleId, PutOwned, PutAdopted, Put, Post, SaveId, Answer,
        TimesOut
  <2>4. ASSUME NEW p \in Pids, Adopt(p)
        PROVE  used' = used \/ Spend("lost")
    BY <2>4 DEF Adopt, Answer
  <2>5. ASSUME NEW S, ListPage(S) \/ ListLastPage(S)
        PROVE  used' = used
    BY <2>5 DEF ListPage, ListLastPage
  <2> QED
    BY <1>1, <1>2, <1>3, <1>5, <2>1, <2>2, <2>3, <2>4, <2>5 DEF WorkerStep
<1>6. CASE Mutations \/ DeleteStep
  BY <1>1, <1>2, <1>3, <1>6
  DEF Mutations, CreateRecord, UpdateRecord, CreateDropped, UpdateDropped,
      DeleteBegin, Lands, DeleteStep, DeleteRead, DeleteCheck, DeleteRemote,
      DeleteRow, DeleteAborts, DeleteDropped
<1>7. CASE Environment
  BY <1>1, <1>2, <1>3, <1>7
  DEF Environment, DashboardCreate, DashboardEdit, DashboardDelete, AddZone,
      WanChanges, LateArrives, Crash
<1> QED
  BY <1>4, <1>5, <1>6, <1>7 DEF Next

(* A write that may land late was given up by its client, a statement that *)
(* may commit late was sent by a handler that was dropped, and only such a *)
(* statement changes a row under a run.                                    *)
LateInv == /\ used["late"] = 0 => late = {}
           /\ used["drop"] = 0 => sent = {} /\ touched = {}

(* The row at hand exists, while no handler has been dropped.              *)
LEMMA AtHandRow ==
    ASSUME IInv, pc \in InRecord, touched = {}
    PROVE  rows[run.cur] # None
<1>1. run.cur \in Rids
  BY WantType DEF IInv
<1> QED
  BY <1>1 DEF IInv, SnapshotFresh, WorkerInv, InRecord, Listing

(* What a step does to the origins of records: a POST of the worker, a     *)
(* record made or edited in the dashboard, a POST that lands late, or      *)
(* nothing.                                                                *)
Posted(p) == Post /\ PostRemote(p, Want, run.cur)
OriginSame ==
    \A p \in Pids : /\ p \in issued => origin'[p] = origin[p]
                    /\ cf'[p] # None => cf[p] # None /\ origin'[p] = origin[p]
Foreign(p) == /\ origin'[p] = None /\ cf'[p] # None /\ p \in issued'
              /\ \A q \in Pids \ {p} : cf'[q] = cf[q] /\ origin'[q] = origin[q]
OriginStep == \/ OriginSame
              \/ \E p \in Pids : Posted(p) \/ Foreign(p)

(* Every step is one of these, while no abandoned write is around.         *)
LEMMA OriginMoves ==
    ASSUME IInv, Next, late = {}
    PROVE  OriginStep
<1> TypeOK
  BY DEF IInv
<1> USE DEF cloud, db
<1>1. CASE UNCHANGED cloud
  BY <1>1 DEF OriginStep, OriginSame
<1>2. ASSUME NEW p \in Pids, NEW rem, cf[p] # None \/ rem = None,
             PutRemote(p, rem)
      PROVE  OriginStep
  BY <1>2 DEF PutRemote, OriginStep, OriginSame, TypeOK
<1>3. CASE PutOwned \/ PutAdopted
  BY <1>1, <1>2, <1>3 DEF PutOwned, PutAdopted, Put, Listed, IInv, WorkerInv,
     TypeOK, Run
<1>4. CASE Post
  BY <1>1, <1>4 DEF Post, Posted, OriginStep
<1>5. CASE WorkerStep
  BY <1>1, <1>3, <1>4, <1>5 DEF WorkerStep, LockForSync, StartRun,
     ListRows, ResolveIpv4, ListZones, SkipStatic, CannotPush, BeginRecord,
     ListPage, ListLastPage, ResolveHangs, Refuse, LeaveUnchanged,
     ClearStaleId, SaveId, Adopt, CallFails, EndRun, ReleaseLock, Local,
     OriginStep, OriginSame
<1>6. CASE DeleteStep
  <2>1. dpc = "remote" => del.row.pid \in Pids
    BY DEF IInv, DeleterInv, TypeOK, Row
  <2> QED
    BY <1>1, <1>2, <1>6, <2>1 DEF DeleteStep, DeleteRead, DeleteCheck,
       DeleteRemote, DeleteRow, DeleteAborts, DeleteDropped
<1>7. CASE Requests \/ Mutations
  BY <1>1, <1>7 DEF Requests, TakeRequest, Mutations, CreateRecord,
     UpdateRecord, CreateDropped, UpdateDropped, DeleteBegin, Lands
<1>8. ASSUME NEW p \in Pids, NEW rem \in Remote,
             DashboardCreate(p, rem) \/ DashboardEdit(p, rem)
      PROVE  Foreign(p)
  BY <1>8, LiveIssued, NoneAssumption
  DEF DashboardCreate, DashboardEdit, PostRemote, Foreign, TypeOK, IInv
<1>9. CASE Environment
  BY <1>1, <1>2, <1>8, <1>9 DEF Environment, DashboardDelete, AddZone,
     WanChanges, LateArrives, Crash, OriginStep
<1> QED
  BY <1>5, <1>6, <1>7, <1>9 DEF Next

(* Writes are abandoned, and statements left behind, only then.            *)
LEMMA LateStep ==
    ASSUME IInv, LateInv, Next
    PROVE  LateInv'
<1> TypeOK /\ {"late", "drop"} \subseteq Disturbances
  BY DEF IInv, Disturbances
<1> USE DEF db, cloud, account, deleter, ledger, worker
<1>1. ASSUME used'["late"] = 0
      PROVE  late' = {}
  <2>1. late = {} /\ ~Spend("late")
    BY <1>1, UsedGrows, SpendCounts DEF LateInv
  <2>2. CASE WorkerStep
    BY <2>1, <2>2 DEF WorkerStep, LockForSync, StartRun, ListRows,
       ResolveIpv4, ResolveHangs, ListZones, SkipStatic, CannotPush,
       BeginRecord, ListPage, ListLastPage, Refuse, LeaveUnchanged,
       ClearStaleId, PutOwned, PutAdopted, Put, Post, SaveId, Adopt,
       CallFails, EndRun, ReleaseLock, Local, TimesOut
  <2>3. CASE Requests \/ Mutations \/ DeleteStep
    BY <2>1, <2>3 DEF Requests, TakeRequest, Mutations, CreateRecord,
       UpdateRecord, CreateDropped, UpdateDropped, DeleteBegin, Lands,
       DeleteStep, DeleteRead, DeleteCheck, DeleteRemote, DeleteRow,
       DeleteAborts, DeleteDropped
  <2>4. CASE Environment
    BY <2>1, <2>4 DEF Environment, DashboardCreate, DashboardEdit,
       DashboardDelete, AddZone, WanChanges, LateArrives, Crash
  <2> QED
    BY <2>2, <2>3, <2>4 DEF Next
<1>2. ASSUME used'["drop"] = 0
      PROVE  sent' = {} /\ touched' = {}
  <2>1. sent = {} /\ touched = {} /\ ~Spend("drop")
    BY <1>2, UsedGrows, SpendCounts DEF LateInv
  <2>2. CASE WorkerStep
    <3>1. touched' = {}
      <4>1. pc \notin Listing => LockForSync \/ ListRows \/ ReleaseLock
                                 \/ CallFails
        BY <2>2 DEF WorkerStep, ResolveIpv4, ResolveHangs, ListZones,
           SkipStatic, CannotPush, BeginRecord, ListPage, ListLastPage,
           Refuse, LeaveUnchanged, ClearStaleId, PutOwned, PutAdopted, Post,
           SaveId, Adopt, EndRun, Listing
      <4> QED
        BY <2>1, <2>2, <4>1, WorkerFrame
        DEF LockForSync, StartRun, ListRows, ReleaseLock, CallFails, Spend
    <3> QED
      BY <2>1, <2>2, <3>1, WorkerFrame
  <2>3. CASE Requests
    BY <2>1, <2>3 DEF Requests, TakeRequest
  <2>4. CASE Mutations \/ DeleteStep
    BY <2>1, <2>4 DEF Mutations, CreateRecord, UpdateRecord, CreateDropped,
       UpdateDropped, DeleteBegin, DeleteStep, DeleteRead, DeleteCheck,
       DeleteRemote, DeleteRow, DeleteAborts, DeleteDropped, Spend
  <2>5. CASE Environment
    BY <2>1, <2>5 DEF Environment, DashboardCreate, DashboardEdit,
       DashboardDelete, AddZone, WanChanges, LateArrives, Crash, Spend
  <2> QED
    BY <2>2, <2>3, <2>4, <2>5 DEF Next
<1> QED
  BY <1>1, <1>2 DEF LateInv

-----------------------------------------------------------------------------
(* What a step does to the table, by who does it. *)

NewRow(r) == /\ r \notin rowIds /\ lock = "free" /\ UNCHANGED <<cf, worker>>
             /\ \E row \in Row : /\ row.pid = None
                                 /\ rows' = [rows EXCEPT ![r] = row]
NewConfig(r) == /\ rows[r] # None /\ lock = "free" /\ UNCHANGED <<cf, worker>>
                /\ \E row \in Row :
                      /\ row.pid = rows[r].pid /\ row.zone = rows[r].zone
                      /\ row.key = rows[r].key
                      /\ rows' = [rows EXCEPT ![r] = row]
LinkAct == ClearStaleId \/ SaveId \/ \E p \in Pids : Adopt(p)
TableAct == \/ rows' = rows
            \/ Linking /\ LinkAct
            \/ \E r \in Rids : NewRow(r) \/ NewConfig(r)
            \/ DeleteRow
            \/ sent # {} /\ \E r \in Rids : Landing(r)

(* Every step is one of these for the table.                               *)
LEMMA TableActs ==
    ASSUME IInv, Next
    PROVE  TableAct
<1> TypeOK /\ WorkerInv
  BY DEF IInv
<1> USE NoneAssumption DEF db
<1>1. CASE rows' = rows
  BY <1>1 DEF TableAct
<1>2. CASE LinkAct
  <2>1. run.cur \in Rids /\ run.zone \in Zones
    BY <1>2, WantType DEF LinkAct, ClearStaleId, SaveId, Adopt, InRecord
  <2>2. SaveId => run.target \in Pids
    BY DEF SaveId, TypeOK, Run, WorkerInv
  <2> QED
    BY <1>1, <1>2, <2>1, <2>2
    DEF LinkAct, ClearStaleId, SaveId, Adopt, CanLink, Linking, TableAct
<1>3. CASE Requests \/ Environment
  BY <1>1, <1>3 DEF Requests, TakeRequest, Environment, DashboardCreate,
     DashboardEdit, DashboardDelete, AddZone, WanChanges, LateArrives, Crash
<1>4. CASE WorkerStep
  BY <1>1, <1>2, <1>4 DEF WorkerStep, LinkAct, LockForSync, StartRun,
     ListRows, ResolveIpv4, ResolveHangs, ListZones, SkipStatic, CannotPush,
     BeginRecord, ListPage, ListLastPage, Refuse, LeaveUnchanged, PutOwned,
     PutAdopted, Put, Post, CallFails, EndRun, ReleaseLock, Local
<1>5. ASSUME NEW q \in Rids, NEW k \in Keys, NEW v \in Values \cup {None},
             NEW a \in Attrs, CreateRecord(q, k, v, a)
      PROVE  NewRow(q)
  <2> DEFINE new == [key |-> k, value |-> v, attr |-> a, zone |-> None,
                     pid |-> None]
  <2>1. new \in Row /\ new.pid = None
    BY DEF Row
  <2>2. rows' = [rows EXCEPT ![q] = new]
    BY <1>5 DEF CreateRecord, Insert
  <2> HIDE DEF new
  <2> QED
    BY <1>5, <2>1, <2>2 DEF CreateRecord, Insert, NewRow, cloud, worker
<1>6. ASSUME NEW q \in Rids, NEW v \in Values \cup {None}, NEW a \in Attrs,
             UpdateRecord(q, v, a)
      PROVE  NewConfig(q)
  <2> DEFINE new == [rows[q] EXCEPT !.value = v, !.attr = a]
  <2>1. rows[q] \in Row
    BY <1>6 DEF UpdateRecord, TypeOK
  <2>2. /\ new \in Row /\ new.pid = rows[q].pid /\ new.zone = rows[q].zone
        /\ new.key = rows[q].key
    BY <2>1 DEF Row
  <2>3. rows' = [rows EXCEPT ![q] = new]
    BY <1>6 DEF UpdateRecord, Update
  <2> HIDE DEF new
  <2> QED
    BY <1>6, <2>2, <2>3 DEF UpdateRecord, NewConfig, cloud, worker
<1>7. CASE Mutations
  <2>1. ASSUME NEW t \in sent, NEW r \in Rids, Lands(t, r)
        PROVE  TableAct
    BY <2>1, LandsFrame DEF TableAct
  <2> QED
    BY <1>1, <1>5, <1>6, <1>7, <2>1
    DEF Mutations, CreateDropped, UpdateDropped, DeleteBegin, TableAct
<1>8. CASE DeleteStep
  BY <1>1, <1>8 DEF DeleteStep, DeleteRead, DeleteCheck, DeleteRemote,
     DeleteAborts, DeleteDropped, TableAct
<1> QED
  BY <1>3, <1>4, <1>7, <1>8 DEF Next

(* Name and type of a row never change (api.rs: update_record).            *)
LEMMA KeyFixed ==
    ASSUME IInv, Next, NEW r \in Rids, rows[r] # None, rows'[r] # None
    PROVE  rows'[r].key = rows[r].key
<1>1. TypeOK /\ r \in rowIds
  BY DEF IInv, LinkInv
<1>2. CASE Linking
  BY <1>1, <1>2, LinkingFrame DEF SameConfig
<1>3. ASSUME NEW q \in Rids, NewRow(q) \/ NewConfig(q)
      PROVE  rows'[r].key = rows[r].key
  BY <1>1, <1>3 DEF NewRow, NewConfig, TypeOK
<1>4. CASE DeleteRow
  BY <1>1, <1>4 DEF DeleteRow, TypeOK
<1>5. ASSUME NEW q \in Rids, Landing(q)
      PROVE  rows'[r].key = rows[r].key
  BY <1>1, <1>5 DEF Landing, SameLink
<1> QED
  BY <1>2, <1>3, <1>4, <1>5, TableActs DEF TableAct

-----------------------------------------------------------------------------
(* What a step does to the run. *)

(* What a step does to a run that goes on: nothing, one of the steps       *)
(* before the first row, a row's first call, a page of its listing, its    *)
(* end, or one of the calls between.                                       *)
Idling == /\ UNCHANGED <<pc, run>> /\ ~Post
          /\ pc \in InRecord => rows' = rows \/ \E q \in Rids : Landing(q)
Opening == /\ pc' \in Listing \ InRecord
           /\ \/ /\ pc \notin InRecord /\ rows' = rows /\ run'.snap = rows
                 /\ run'.cached = {}
                 /\ run'.seen = NoRemotes /\ run'.got = NoRemotes
              \/ /\ pc \in Listing \ InRecord /\ run'.todo \subseteq run.todo
                 /\ run'.cached = run.cached /\ run'.snap = run.snap
                 /\ run'.seen = run.seen /\ run'.got = run.got
Paging == \E S \in SUBSET InZoneNow : ListPage(S) \/ ListLastPage(S)
Closing == /\ pc \in InRecord /\ pc' = "next" /\ run'.todo = run.todo
           /\ run'.snap = run.snap /\ run'.got = NoRemotes
           /\ run'.seen = run.seen \/ \E p \in Pids : run'.seen = PushedTo(p)
GoingOn == /\ pc \in InRecord /\ pc' \in {"create", "save", "fixup"}
           /\ run'.seen = run.seen /\ run'.zone = run.zone
           /\ run'.snap = run.snap /\ run'.cur = run.cur /\ run'.got = run.got
           /\ pc' = "create" => ClearStaleId
           /\ pc' = "save" =>
                 run'.target \in Pids /\ Posted(run'.target) /\ rows' = rows
RunAct == \/ pc' \notin Listing
          \/ Idling \/ Opening \/ Paging \/ Closing \/ GoingOn
          \/ \E q \in Rids, z \in Zones : BeginRecord(q, z)

(* Every step is one of these for the run.                                 *)
LEMMA RunActs ==
    ASSUME IInv, Next
    PROVE  RunAct
<1> TypeOK /\ WorkerInv
  BY DEF IInv
<1> USE DEF db
<1>1. CASE Requests \/ LockForSync \/ EndRun \/ ReleaseLock \/ Crash
  BY <1>1 DEF Requests, TakeRequest, LockForSync, StartRun, EndRun,
     ReleaseLock, Crash, RunAct, Listing
<1>2. CASE ListRows \/ ResolveIpv4 \/ ResolveHangs \/ ListZones
  <2>1. CASE ListRows
    BY <2>1 DEF ListRows, TypeOK, Run, RunAct, Opening, InRecord, Listing,
       WorkerInv, NoRun
  <2>2. CASE ResolveIpv4
    BY <2>2 DEF ResolveIpv4, TypeOK, Run, RunAct, Opening, InRecord, Listing,
       WorkerInv
  <2>3. CASE ListZones
    BY <2>3 DEF ListZones, TypeOK, Run, RunAct, Opening, InRecord, Listing,
       WorkerInv
  <2>4. CASE ResolveHangs
    BY <2>4 DEF ResolveHangs, RunAct, Opening, InRecord, Listing
  <2> QED
    BY <1>2, <2>1, <2>2, <2>3, <2>4
<1>3. ASSUME NEW q \in Rids, SkipStatic(q) \/ CannotPush(q)
      PROVE  RunAct
  <2>1. /\ pc = "next" /\ pc' = "next"
        /\ run' = [run EXCEPT !.todo = @ \ {q}]
    BY <1>3 DEF SkipStatic, CannotPush
  <2>2. /\ run'.seen = run.seen /\ run'.cached = run.cached
        /\ run'.snap = run.snap /\ run'.got = run.got
        /\ run'.todo \subseteq run.todo
    BY <2>1 DEF TypeOK, Run
  <2> QED
    BY <2>1, <2>2 DEF RunAct, Opening, InRecord, Listing
<1>4. CASE pc \in InRecord /\ RowFails
  BY <1>4, RowFailsFrame DEF RunAct, Closing
<1>5. ASSUME pc \in InRecord, NEW what, RowDone(what, run.seen)
      PROVE  RunAct
  BY <1>5, RowDoneFrame DEF RunAct, Closing
<1>6. ASSUME pc \in InRecord, NEW what, NEW p \in Pids,
             RowDone(what, PushedTo(p))
      PROVE  RunAct
  BY <1>6, RowDoneFrame DEF RunAct, Closing
<1>7. CASE Refuse \/ LeaveUnchanged
  BY <1>4, <1>5, <1>7 DEF Refuse, LeaveUnchanged, InRecord
<1>8. CASE ClearStaleId
  <2>1. CASE pc' = "create" /\ UNCHANGED run
    BY <1>8, <2>1 DEF ClearStaleId, RunAct, GoingOn, InRecord
  <2> QED
    BY <1>4, <1>8, <2>1 DEF ClearStaleId, Answer, InRecord
<1>9. CASE PutOwned
  BY <1>4, <1>6, <1>9 DEF PutOwned, Listed, Put, Answer, TimesOut, InRecord
<1>10. CASE PutAdopted
  <2>1. run.target \in Pids
    BY <1>10 DEF PutAdopted, WorkerInv, TypeOK, Run
  <2> QED
    BY <1>4, <1>6, <1>10, <2>1 DEF PutAdopted, Put, Answer, TimesOut, InRecord
<1>0. ASSUME NEW p \in Pids, run' = [run EXCEPT !.target = p]
      PROVE  /\ run'.target = p /\ run'.seen = run.seen
             /\ run'.zone = run.zone /\ run'.snap = run.snap
             /\ run'.cur = run.cur /\ run'.got = run.got
  BY <1>0 DEF TypeOK, Run
<1>11. ASSUME NEW p \in Pids, Adopt(p)
       PROVE  RunAct
  <2>1. CASE pc' = "fixup" /\ run' = [run EXCEPT !.target = p]
    BY <1>0, <1>11, <2>1 DEF Adopt, RunAct, GoingOn, InRecord
  <2> QED
    BY <1>4, <1>5, <1>11, <2>1 DEF Adopt, Answer, InRecord
<1>12. CASE Post
  <2>1. ASSUME NEW p \in Pids, PostRemote(p, Want, run.cur), pc' = "save",
               run' = [run EXCEPT !.target = p]
        PROVE  RunAct
    BY <1>0, <1>12, <2>1 DEF Post, Posted, RunAct, GoingOn, InRecord
  <2> QED
    BY <1>4, <1>12, <2>1 DEF Post, Answer, TimesOut, InRecord
<1>13. CASE SaveId
  <2>1. run.target \in Pids
    BY <1>13 DEF SaveId, WorkerInv, TypeOK, Run
  <2> QED
    BY <1>4, <1>6, <1>13, <2>1 DEF SaveId, Answer, InRecord
<1>14. CASE CallFails
  BY <1>4, <1>14 DEF CallFails, RunFails, RunAct, InRecord, Listing
<1>15. CASE WorkerStep
  BY <1>1, <1>2, <1>3, <1>7, <1>8, <1>9, <1>10, <1>11, <1>12, <1>13, <1>14,
     <1>15 DEF WorkerStep, RunAct, Paging
<1>16. CASE Mutations \/ DeleteStep \/ Environment
  <2>1. ASSUME UNCHANGED worker,
               \/ rows' = rows \/ lock # "sync" \/ \E q \in Rids : Landing(q)
        PROVE  RunAct
    <3>1. ~Post
      BY <2>1 DEF Post, Answer, TimesOut, RowFails, worker
    <3>2. pc \in InRecord => lock = "sync"
      BY DEF IInv, LockInv, InRecord, Running, Listing
    <3> QED
      BY <2>1, <3>1, <3>2 DEF RunAct, Idling, worker
  <2>2. ASSUME NEW q \in Rids, Landing(q)
        PROVE  UNCHANGED worker
    BY <2>2 DEF Landing
  <2> QED
    BY <1>1, <1>16, <2>1, <2>2, Outsider
<1> QED
  BY <1>1, <1>15, <1>16 DEF Next

(* A row whose record is to be created or saved has no link, and nobody    *)
(* else has the new record.                                                *)
SaveInv ==
    /\ pc \in {"create", "save"} /\ rows[run.cur] # None =>
          rows[run.cur].pid = None
    /\ pc = "save" =>
          \A q \in Rids : rows[q] # None => rows[q].pid # run.target

(* Nor has a row for which a record is created.                            *)
LEMMA PostUnlinked ==
    ASSUME IInv, SaveInv, Post, rows[run.cur] # None
    PROVE  rows[run.cur].pid = None
<1>1. CASE pc = "create"
  BY <1>1 DEF SaveInv
<1>2. CASE pc = "reconcile" /\ ~Owned
  BY <1>2, WantType
  DEF IInv, SnapLinks, SameLink, Reached, Owned, CurRow, Listing, InRecord
<1> QED
  BY <1>1, <1>2 DEF Post

(* Whatever statements land meanwhile, it stays so.                        *)
LEMMA SaveStep ==
    ASSUME IInv, SaveInv, Next
    PROVE  SaveInv'
<1> TypeOK /\ WorkerInv /\ LinkInv /\ ZoneInv /\ SnapLinks
  BY DEF IInv
<1>1. CASE Idling
  <2>1. ASSUME NEW q \in Rids, Landing(q), NEW r \in Rids, rows'[r] # None,
               pc \in InRecord
        PROVE  \/ rows[r] # None /\ rows'[r].pid = rows[r].pid
               \/ rows'[r].pid = None
    BY <2>1 DEF Landing, SameLink
  <2>2. pc \in {"create", "save"} => pc \in InRecord /\ run.cur \in Rids
    BY WantType DEF InRecord
  <2>3. pc = "save" => run.target # None
    BY DEF WorkerInv
  <2> QED
    BY <1>1, <2>1, <2>2, <2>3 DEF Idling, SaveInv
<1>2. CASE GoingOn /\ pc' = "create"
  <2>1. rows[run.cur] \in Row /\ run.cur \in Rids
    BY <1>2, WantType
    DEF GoingOn, ClearStaleId, RowFails, InRecord, TypeOK
  <2>2. rows'[run.cur] = [rows[run.cur] EXCEPT !.zone = None, !.pid = None]
    BY <1>2, <2>1
    DEF GoingOn, ClearStaleId, RowFails, SetProviderId, TypeOK
  <2> QED
    BY <1>2, <2>1, <2>2 DEF GoingOn, Row, SaveInv
<1>3. CASE GoingOn /\ pc' = "save"
  <2>1. Post /\ run'.target \notin issued /\ rows' = rows /\ run'.cur = run.cur
    BY <1>3 DEF GoingOn, Posted, PostRemote
  <2>2. \A q \in Rids : rows[q] # None => rows[q].pid # run'.target
    BY <1>3, <2>1, LinkedRow, NoneAssumption DEF GoingOn
  <2>3. rows[run.cur] # None => rows[run.cur].pid = None
    BY <2>1, PostUnlinked
  <2> QED
    BY <1>3, <2>1, <2>2, <2>3 DEF SaveInv
<1>4. CASE pc' \notin {"create", "save"}
  BY <1>4 DEF SaveInv
<1>5. CASE pc' \notin Listing \/ Opening \/ Paging \/ Closing
  BY <1>4, <1>5 DEF Opening, Paging, ListPage, ListLastPage, Closing,
     Listing, InRecord
<1>6. ASSUME NEW q \in Rids, NEW z \in Zones, BeginRecord(q, z)
      PROVE  SaveInv'
  BY <1>4, <1>6 DEF BeginRecord
<1> QED
  BY <1>1, <1>2, <1>3, <1>4, <1>5, <1>6, RunActs DEF RunAct, GoingOn

-----------------------------------------------------------------------------
(* What a deletion leaves. *)

(* While every answer comes and no listing leaves a record out, a live     *)
(* record that was created for a row is the row's, or about to be.         *)
Saving(r, p) == pc = "save" /\ run.cur = r /\ run.target = p
Belongs(r, p) == rows[r] # None /\ (rows[r].pid = p \/ Saving(r, p))
OriginInv ==
    Reliable => \A p \in Pids, r \in Rids :
                   cf[p] # None /\ origin[p] = r => Belongs(r, p)

(* Reliability is lost for good.                                           *)
LEMMA ReliableBefore ==
    ASSUME IInv, LateInv, Next, Reliable'
    PROVE  /\ Reliable
           /\ ~Spend("lost") /\ ~Spend("late") /\ ~Spend("crash")
           /\ late = {} /\ sent = {} /\ touched = {} /\ touched' = {}
<1>1. {"lost", "late", "crash", "drop"} \subseteq Disturbances
  BY DEF Disturbances
<1>2. missed \subseteq missed'
  BY MissedMoves DEF ListLastPage
<1>3. Reliable
  BY <1>1, <1>2, UsedGrows DEF Reliable
<1>4. ~Spend("lost") /\ ~Spend("late") /\ ~Spend("crash")
  BY <1>1, SpendCounts DEF Reliable, IInv
<1>5. late = {} /\ sent = {} /\ touched = {}
  BY <1>3 DEF Reliable, LateInv
<1>6. touched' = {}
  BY LateStep DEF Reliable, LateInv
<1> QED
  BY <1>3, <1>4, <1>5, <1>6

(* A record waiting to be saved goes on waiting or is saved.               *)
LEMMA SavingStep ==
    ASSUME IInv, LateInv, SaveInv, Next, Reliable',
           NEW r \in Rids, NEW p \in Pids, Saving(r, p)
    PROVE  \/ Saving(r, p)' /\ rows'[r] # None
           \/ rows'[r] # None /\ rows'[r].pid = p
<1> USE DEF Saving
<1>0. touched = {} /\ touched' = {}
  BY ReliableBefore
<1>1. /\ lock = "sync" /\ rows[r] # None
      /\ ~Spend("lost") /\ ~Spend("late") /\ ~Spend("crash")
      /\ rows \in [Rids -> Row \cup {None}] /\ run.zone \in Zones
  BY <1>0, AtHandRow, ReliableBefore, WantType
  DEF IInv, LockInv, Running, Listing, TypeOK, InRecord
<1>2. CASE Requests
  BY <1>1, <1>2 DEF Requests, TakeRequest, db
<1>3. CASE Mutations \/ DeleteStep \/ Environment
  BY <1>0, <1>1, <1>3, Outsider DEF Crash, Landing, worker
<1>4. CASE SaveId
  <2> DEFINE new == [rows[r] EXCEPT !.zone = run.zone, !.pid = p]
  <2>1. new \in Row /\ new.pid = p
    BY <1>1 DEF Row
  <2>2. CanLink(run.cur, run.zone, run.target)
    BY <1>1 DEF CanLink, SaveInv
  <2>3. rows' = [rows EXCEPT ![r] = new]
    BY <1>4, <2>2 DEF SaveId, SetProviderId
  <2> HIDE DEF new
  <2> QED
    BY <1>1, <2>1, <2>3, NoneAssumption
<1>5. CASE WorkerStep
  BY <1>1, <1>4, <1>5 DEF WorkerStep, LockForSync, StartRun, ListRows,
     ResolveIpv4, ResolveHangs, ListZones, SkipStatic, CannotPush,
     BeginRecord, ListPage, ListLastPage, Refuse, LeaveUnchanged,
     ClearStaleId, PutOwned, PutAdopted, Post, Adopt, CallFails, EndRun,
     ReleaseLock
<1> QED
  BY <1>2, <1>3, <1>5 DEF Next

(* What was created for a row stays its own.                               *)
LEMMA OriginInvStep ==
    ASSUME IInv, LateInv, SaveInv, OriginInv, Next
    PROVE  OriginInv'
<1> SUFFICES ASSUME Reliable', NEW p \in Pids, NEW r \in Rids,
                    cf'[p] # None, origin'[p] = r
             PROVE  Belongs(r, p)'
  BY DEF OriginInv
<1>1. /\ Reliable /\ r # None /\ late = {} /\ sent = {} /\ touched = {}
      /\ missed = {}
  BY ReliableBefore, NoneAssumption DEF Reliable
<1>2. TypeOK /\ ZoneInv /\ LinkInv
  BY DEF IInv
<1>3. CASE cf[p] # None /\ origin[p] = r
  <2>1. Belongs(r, p)
    BY <1>1, <1>3 DEF OriginInv
  <2>2. CASE rows[r].pid = p
    <3>1. p # None /\ p \in issued
      BY <1>2, <1>3, LiveIssued, NoneAssumption
    <3>2. LetsGo(r)
      BY <2>1, <2>2, <3>1, LetsGoOfGone DEF Belongs
    <3>3. rows'[r] # None /\ rows'[r].pid = p
      BY <1>1, <1>3, <2>2, <3>2 DEF LetsGo, Doomed
    <3> QED
      BY <3>3 DEF Belongs
  <2>3. CASE Saving(r, p)
    BY <2>3, SavingStep DEF Belongs
  <2> QED
    BY <2>1, <2>2, <2>3 DEF Belongs
<1>4. ASSUME NEW q \in Pids, Posted(q)
      PROVE  Belongs(r, p)'
  <2>1. pc \in InRecord /\ run.cur \in Rids /\ rows[run.cur] # None
    BY <1>1, <1>2, <1>4, AtHandRow, WantType DEF Posted, Post, InRecord, IInv
  <2>2. CASE p # q
    BY <1>2, <1>3, <1>4, <2>2 DEF Posted, PostRemote, TypeOK
  <2>3. CASE p = q
    <3>1. r = run.cur /\ rows' = rows
      BY <1>2, <1>4, <2>3 DEF Posted, Post, PostRemote, TypeOK, db
    <3>2. Saving(r, p)'
      <4>1. p \notin issued /\ p \in issued'
        BY <1>4, <2>3 DEF Posted, PostRemote
      <4>2. PICK y \in Pids : /\ PostRemote(y, Want, run.cur)
                              /\ Answer(/\ pc' = "save"
                                        /\ run' = [run EXCEPT !.target = y]
                                        /\ UNCHANGED outcome)
        BY <1>4, <4>1, ReliableBefore DEF Posted, Post, TimesOut, cloud
      <4>3. y = p
        BY <4>1, <4>2 DEF PostRemote
      <4>4. pc' = "save" /\ run' = [run EXCEPT !.target = p]
        BY <4>2, <4>3, ReliableBefore DEF Answer
      <4> QED
        BY <1>2, <3>1, <4>4 DEF Saving, TypeOK, Run
    <3> QED
      BY <2>1, <3>1, <3>2 DEF Belongs
  <2> QED
    BY <2>2, <2>3
<1>5. ASSUME NEW q \in Pids, Foreign(q)
      PROVE  cf[p] # None /\ origin[p] = r
  BY <1>1, <1>5 DEF Foreign
<1> QED
  BY <1>1, <1>3, <1>4, <1>5, OriginMoves DEF OriginStep, OriginSame

(* Only the DELETE handler removes a row, or one that was dropped.         *)
LEMMA RemovedByDelete ==
    ASSUME IInv, Next, sent = {},
           NEW r \in Rids, rows[r] # None, rows'[r] = None
    PROVE  DeleteRow /\ del.id = r
<1>1. TypeOK
  BY DEF IInv
<1>2. ~Linking
  BY <1>1, LinkingFrame
<1>3. ~\E q \in Rids : NewRow(q) \/ NewConfig(q)
  BY <1>1, NoneAssumption DEF NewRow, NewConfig, TypeOK
<1>4. DeleteRow
  BY <1>2, <1>3, TableActs DEF TableAct
<1> QED
  BY <1>1, <1>4 DEF DeleteRow, TypeOK

(* A delete that succeeds leaves no record that was created for its row,   *)
(* while every answer of Cloudflare has come, no handler was dropped and   *)
(* no listing has left a live record out.                                  *)
THEOREM DeletesAll == Spec => DeleteLeavesNothing
<1> DEFINE A == \A r \in Rids :
                  Reliable /\ rows[r] # None /\ rows'[r] = None =>
                     \A p \in Pids : origin[p] = r => cf[p] = None
           J == LateInv /\ SaveInv /\ OriginInv
<1>1. Init => J
  BY DEF Init, LateInv, SaveInv, OriginInv, NoRemotes
<1>2. IInv /\ J /\ [Next]_vars => J'
  <2>1. IInv /\ J /\ Next => J'
    BY LateStep, SaveStep, OriginInvStep
  <2>2. J /\ UNCHANGED vars => J'
    BY DEF vars, LateInv, SaveInv, OriginInv, Reliable, Belongs, Saving
  <2> QED
    BY <2>1, <2>2
<1>3. IInv /\ J /\ [Next]_vars => [A]_vars
  <2> SUFFICES ASSUME IInv, LateInv, OriginInv, Next, Reliable,
                      NEW r \in Rids, rows[r] # None, rows'[r] = None,
                      NEW p \in Pids, origin[p] = r, cf[p] # None
               PROVE  FALSE
    OBVIOUS
  <2>1. DeleteRow /\ del.id = r
    BY RemovedByDelete DEF LateInv, Reliable
  <2>2. /\ pc # "save" /\ rows[r].pid = del.row.pid
        /\ del.row.pid # None => cf[del.row.pid] = None
    BY <2>1 DEF DeleteRow, IInv, LockInv, DeleterInv, SameLink, Running,
       Listing
  <2>3. rows[r].pid = p /\ p # None
    BY <2>2, NoneAssumption DEF OriginInv, Belongs, Saving
  <2> QED
    BY <2>2, <2>3
<1> HIDE DEF A, J
<1>4. Spec => [][A]_vars
  BY <1>1, <1>2, <1>3, Inductive, PTL DEF Spec
<1> QED
  BY <1>4 DEF A, DeleteLeavesNothing

-----------------------------------------------------------------------------
(* At most one copy of a plain row in a zone. *)

(* While a row is the only source of records: every record, in the account *)
(* or as listed, has its name and type, its link leaves out no record of   *)
(* the link's zone, and the run's only listing, taken on the way to the    *)
(* row, shows every record of the row's zone.                              *)
Here(z, q) == cf[q] # None /\ cf[q].zone = z
Single == \A p, q \in Pids : /\ cf[p] # None /\ cf[q] # None
                              /\ cf[p].zone = cf[q].zone /\ Plain(cf[p].key)
                              => p = q
KeyInv(r) ==
    \A p \in Pids :
        /\ cf[p] # None /\ rows[r] # None => cf[p].key = rows[r].key
        /\ pc \in Listing /\ run.snap[r] # None =>
              LET k == run.snap[r].key
              IN  /\ rows[r] # None => rows[r].key = k
                  /\ cf[p] # None => cf[p].key = k
                  /\ run.seen[p] # None => run.seen[p].key = k
                  /\ run.got[p] # None => run.got[p].key = k
FirstListing ==
    /\ pc \in Listing \ InRecord /\ run.todo # {} =>
          run.cached = {} /\ run.seen = NoRemotes
    /\ pc \in {"records", "pages"} => run.seen = NoRemotes
Unborn(r) == r \notin rowIds => \A p \in Pids : cf[p] = None
PlainRow(r) == rows[r] # None /\ Plain(rows[r].key)
LinkLeavesOut(r) ==
    rows[r].pid # None =>
        \A q \in Pids : Here(rows[r].zone, q) => q = rows[r].pid
Nowhere == \A q \in Pids : ~Here(run.zone, q)
Knows(got, due) ==
    /\ \A q \in Pids : Here(run.zone, q) => got[q] # None \/ q \in due
    /\ \A p, q \in Pids :
          got[p] # None /\ (got[q] # None \/ Here(run.zone, q)) => p = q
AtHand ==
    /\ pc = "pages" => Knows(run.got, run.due) /\ (shifted => Nowhere)
    /\ pc = "reconcile" =>
          /\ \A q \in Pids : Here(run.zone, q) => Listed(q)
          /\ \A p, q \in Pids : Listed(p) /\ Listed(q) => p = q
    /\ pc = "create" => Nowhere
    /\ pc = "save" => \A q \in Pids : Here(run.zone, q) => q = run.target
AtHandInv == pc \in InRecord /\ Plain(CurRow.key) => AtHand
CopyInv ==
    \A r \in Rids : OnlySource(r) =>
        /\ Single /\ KeyInv(r) /\ FirstListing /\ Unborn(r)
        /\ PlainRow(r) => LinkLeavesOut(r)
        /\ AtHandInv

(* If a row is the only source after a step, it was before, and the step   *)
(* made no record but for it.                                              *)
LEMMA SourceBefore ==
    ASSUME IInv, LateInv, Next, NEW r \in Rids, OnlySource(r)'
    PROVE  /\ OnlySource(r) /\ late = {}
           /\ OriginSame \/ \E p \in Pids : Posted(p)
<1> TypeOK
  BY DEF IInv
<1>1. used["late"] = 0 /\ late = {}
  BY UsedGrows DEF OnlySource, LateInv, Disturbances
<1>2. rowIds \subseteq rowIds' /\ issued \subseteq issued'
  BY RowIdsGrow, GoneForGood
<1>3. ASSUME NEW p \in Pids, Foreign(p)
      PROVE  FALSE
  BY <1>3, NoneAssumption DEF Foreign, OnlySource
<1>4. OriginSame \/ \E p \in Pids : Posted(p)
  BY <1>1, <1>3, OriginMoves DEF OriginStep
<1>5. \A p \in issued : origin'[p] = origin[p]
  BY <1>4 DEF OriginSame, Posted, PostRemote, TypeOK
<1> QED
  BY <1>1, <1>2, <1>4, <1>5 DEF OnlySource

(* While it is, it is the only row, and the last of any run.               *)
LEMMA OnlyRow ==
    ASSUME IInv, NEW r \in Rids, OnlySource(r)
    PROVE  /\ \A q \in Rids : rows[q] # None => q = r
           /\ pc \in InRecord =>
                 /\ run.cur = r /\ run.todo = {} /\ r \in rowIds
                 /\ CurRow = run.snap[r] /\ CurRow # None
                 /\ Want.key = CurRow.key /\ Want.zone = run.zone
<1> TypeOK /\ LinkInv /\ WorkerInv /\ SnapLinks
  BY DEF IInv
<1>1. \A q \in Rids : rows[q] # None => q = r
  BY DEF LinkInv, OnlySource
<1>2. \A q \in Rids : run.snap[q] # None => q = r /\ r \in rowIds
  BY DEF SnapLinks, OnlySource
<1> SUFFICES ASSUME pc \in InRecord
             PROVE  /\ run.cur = r /\ run.todo = {} /\ r \in rowIds
                    /\ CurRow = run.snap[r] /\ CurRow # None
                    /\ Want.key = CurRow.key /\ Want.zone = run.zone
  BY <1>1
<1>3. run.cur \in Rids /\ run.snap[run.cur] # None
  BY WantType DEF WorkerInv
<1>4. \A q \in run.todo : q \in Rids /\ run.snap[q] # None
  BY DEF WorkerInv, TypeOK, Run
<1>5. run.cur = r /\ run.todo = {} /\ r \in rowIds
  BY <1>2, <1>3, <1>4 DEF WorkerInv
<1> QED
  BY <1>3, <1>5 DEF CurRow, Want, Desired

(* A record keeps its zone.                                                *)
LEMMA ZoneKept ==
    ASSUME IInv, Next, NEW p \in Pids, cf[p] # None, cf'[p] # None
    PROVE  cf'[p].zone = cf[p].zone
<1>1. cf'[p].zone \in Zones
  BY TypeStep DEF TypeOK, Remote
<1>2. p \in issued /\ cf[p].zone \in Zones /\ Mentioned(p, cf[p].zone)
  BY LiveIssued DEF IInv, TypeOK, Remote, Mentioned
<1>3. ASSUME NEW z \in Zones, cf'[p].zone = z
      PROVE  z = cf[p].zone
  <2>1. Mentioned(p, z)'
    BY <1>3 DEF Mentioned
  <2>2. Mentioned(p, z)
    BY <1>2, <2>1, MentionMoves DEF Fresh
  <2> QED
    BY <1>2, <2>2 DEF ZoneInv, IInv
<1> QED
  BY <1>1, <1>3

(* A record that exists is written to by the worker, which pushes the row  *)
(* at hand, or by the dashboard, which makes it somebody else's.           *)
LEMMA Writes ==
    ASSUME IInv, Next, late = {}, NEW p \in Pids, cf[p] # None, cf'[p] # None
    PROVE  \/ cf'[p] = cf[p]
           \/ pc \in InRecord /\ cf'[p] = Want
           \/ origin'[p] = None
<1> DEFINE W == \/ cf'[p] = cf[p]
                \/ pc \in InRecord /\ cf'[p] = Want
                \/ origin'[p] = None
<1> TypeOK /\ p \in issued
  BY LiveIssued DEF IInv
<1> USE DEF cloud
<1>1. CASE cf' = cf
  BY <1>1
<1>2. CASE PutOwned \/ PutAdopted
  BY <1>1, <1>2 DEF PutOwned, PutAdopted, Put, PutRemote, TypeOK, InRecord
<1>3. ASSUME NEW q, NEW rem, NEW o, PostRemote(q, rem, o)
      PROVE  W
  BY <1>3 DEF PostRemote, TypeOK
<1>4. CASE Post
  BY <1>1, <1>3, <1>4 DEF Post
<1>5. CASE WorkerStep
  BY <1>1, <1>2, <1>4, <1>5 DEF WorkerStep, LockForSync, StartRun,
     ListRows, ResolveIpv4, ResolveHangs, ListZones, SkipStatic, CannotPush,
     BeginRecord, ListPage, ListLastPage, Refuse, LeaveUnchanged,
     ClearStaleId, SaveId, Adopt, CallFails, EndRun, ReleaseLock, Local
<1>6. CASE DeleteStep
  BY <1>1, <1>6 DEF DeleteStep, DeleteRead, DeleteCheck, DeleteRemote,
     DeleteRow, DeleteAborts, DeleteDropped, PutRemote, TypeOK
<1>7. CASE Requests \/ Mutations
  BY <1>1, <1>7 DEF Requests, TakeRequest, Mutations, CreateRecord,
     CreateDropped, UpdateRecord, UpdateDropped, DeleteBegin, Lands
<1>8. ASSUME NEW q \in Pids, NEW rem \in Remote, DashboardEdit(q, rem)
      PROVE  W
  BY <1>8 DEF DashboardEdit, TypeOK
<1>9. CASE Environment
  BY <1>1, <1>3, <1>8, <1>9 DEF Environment, DashboardCreate,
     DashboardDelete, PutRemote, AddZone, WanChanges, LateArrives, Crash,
     TypeOK
<1> QED
  BY <1>5, <1>6, <1>7, <1>9 DEF Next

(* A record of the only source keeps its name and type.                    *)
LEMMA KeyKept ==
    ASSUME IInv, Next, LateInv, NEW r \in Rids, OnlySource(r)', KeyInv(r),
           NEW p \in Pids, cf[p] # None, cf'[p] # None
    PROVE  cf'[p].key = cf[p].key
<1>1. OnlySource(r) /\ late = {} /\ p \in issued /\ p \in issued'
  BY SourceBefore, LiveIssued, GoneForGood DEF IInv
<1>2. origin'[p] # None
  BY <1>1, NoneAssumption DEF OnlySource
<1>3. ASSUME pc \in InRecord, cf'[p] = Want
      PROVE  cf'[p].key = cf[p].key
  BY <1>1, <1>3, OnlyRow DEF KeyInv, InRecord, Listing
<1> QED
  BY <1>1, <1>2, <1>3, Writes

(* A record of the only source that the step did not make was there, in    *)
(* the same zone and with the same name and type.                          *)
LEMMA WasThere ==
    ASSUME IInv, LateInv, Next, NEW r \in Rids, OnlySource(r)', KeyInv(r),
           NEW p \in Pids, cf'[p] # None, ~Posted(p)
    PROVE  /\ cf[p] # None /\ cf'[p].zone = cf[p].zone
           /\ cf'[p].key = cf[p].key
<1>1. cf[p] # None
  <2>1. ASSUME NEW q \in Pids, Posted(q)
        PROVE  cf[p] # None
    BY <2>1 DEF Posted, PostRemote, IInv, TypeOK
  <2> QED
    BY <2>1, SourceBefore DEF OriginSame
<1> QED
  BY <1>1, ZoneKept, KeyKept

(* Before its row has come to the table, there is no record.               *)
LEMMA UnbornStep ==
    ASSUME IInv, LateInv, CopyInv, Next, NEW r \in Rids, OnlySource(r)'
    PROVE  Unborn(r)'
<1>1. /\ OnlySource(r) /\ Unborn(r)
      /\ OriginSame \/ \E p \in Pids : Posted(p)
  BY SourceBefore DEF CopyInv
<1>2. rowIds \subseteq rowIds'
  BY RowIdsGrow
<1>3. ASSUME NEW p \in Pids, Posted(p)
      PROVE  r \in rowIds
  BY <1>1, <1>3, OnlyRow DEF Posted, Post, InRecord
<1> QED
  BY <1>1, <1>2, <1>3 DEF Unborn, OriginSame

(* The run of a single row has one listing.                                *)
LEMMA FirstStep ==
    ASSUME IInv, CopyInv, Next, NEW r \in Rids, OnlySource(r)
    PROVE  FirstListing'
<1>1. FirstListing /\ TypeOK
  BY DEF CopyInv, IInv
<1>2. CASE pc' \notin Listing \/ Idling
  BY <1>1, <1>2 DEF Idling, FirstListing, Listing
<1>3. CASE Opening
  BY <1>1, <1>3 DEF Opening, FirstListing, InRecord
<1>4. CASE Paging
  <2>1. ASSUME NEW S, ListPage(S)
        PROVE  pc' = "pages" /\ run'.seen = run.seen
    BY <1>1, <2>1 DEF ListPage, TypeOK, Run
  <2> QED
    BY <1>1, <1>4, <2>1 DEF Paging, ListPage, ListLastPage, FirstListing,
       InRecord
<1>5. CASE Closing
  BY <1>5, OnlyRow DEF Closing, FirstListing
<1>6. CASE GoingOn
  BY <1>6 DEF GoingOn, FirstListing, InRecord
<1>7. ASSUME NEW q \in Rids, NEW z \in Zones, BeginRecord(q, z)
      PROVE  FirstListing'
  BY <1>1, <1>7 DEF BeginRecord, FirstListing, InRecord, Listing, TypeOK, Run
<1> QED
  BY <1>2, <1>3, <1>4, <1>5, <1>6, <1>7, RunActs DEF RunAct

(* A row that comes to the table is new and unlinked, and no run knows it. *)
LEMMA Newcomer ==
    ASSUME IInv, Next, NEW r \in Rids, rows[r] = None, rows'[r] # None
    PROVE  /\ r \notin rowIds /\ rows'[r].pid = None /\ cf' = cf
           /\ run' = run /\ run.snap[r] = None
<1> TypeOK /\ SnapLinks /\ WorkerInv
  BY DEF IInv
<1> USE NoneAssumption DEF worker
<1>1. ~Linking /\ ~DeleteRow
  BY LinkingFrame DEF DeleteRow, TypeOK
<1>2. ASSUME NEW q \in Rids, NewConfig(q)
      PROVE  FALSE
  BY <1>2 DEF NewConfig, TypeOK
<1>3. ASSUME NEW q \in Rids, NewRow(q)
      PROVE  /\ r \notin rowIds /\ rows'[r].pid = None /\ cf' = cf
             /\ run' = run
  BY <1>3 DEF NewRow, TypeOK
<1>4. ASSUME NEW q \in Rids, Landing(q)
      PROVE  /\ r \notin rowIds /\ rows'[r].pid = None /\ cf' = cf
             /\ run' = run
  BY <1>4 DEF Landing, cloud
<1>5. r \notin rowIds /\ rows'[r].pid = None /\ cf' = cf /\ run' = run
  BY <1>1, <1>2, <1>3, <1>4, TableActs DEF TableAct
<1> QED
  BY <1>5 DEF SnapLinks

(* What the run comes to know of a record: what the account holds, or what *)
(* it has pushed.                                                          *)
LEMMA KnownMoves ==
    ASSUME IInv, CopyInv, Next, pc' \in Listing, NEW p \in Pids
    PROVE  \/ /\ rows' = rows /\ run'.snap = rows
              /\ run'.seen[p] = None /\ run'.got[p] = None
           \/ /\ pc \in Listing /\ run'.snap = run.snap
              /\ \/ run'.seen[p] \in {None, run.seen[p], run.got[p], cf[p]}
                 \/ pc \in InRecord /\ run'.seen[p] = Want
              /\ run'.got[p] \in {None, run.got[p], cf[p]}
<1> TypeOK /\ NoRemotes[p] = None
  BY DEF IInv, NoRemotes
<1> USE DEF InRecord, Listing
<1>1. CASE Idling \/ Opening
  BY <1>1 DEF Idling, Opening
<1>2. CASE Paging
  <2>1. PICK S \in SUBSET InZoneNow : ListPage(S) \/ ListLastPage(S)
    BY <1>2 DEF Paging
  <2>2. GotWith(S)[p] \in {None, run.got[p], cf[p]}
    BY DEF GotWith
  <2>3. CASE ListPage(S)
    <3>1. /\ run'.snap = run.snap /\ run'.seen = run.seen
          /\ run'.got = GotWith(S)
      BY <2>3 DEF ListPage, TypeOK, Run
    <3> QED
      BY <2>2, <2>3, <3>1 DEF ListPage
  <2>4. CASE ListLastPage(S)
    <3>1. /\ run'.snap = run.snap /\ run'.got = NoRemotes
          /\ run'.seen[p] \in {GotWith(S)[p], run.seen[p]}
      BY <2>4 DEF ListLastPage, TypeOK, Run
    <3> QED
      BY <2>2, <2>4, <3>1 DEF ListLastPage
  <2> QED
    BY <2>1, <2>3, <2>4
<1>3. CASE Closing
  <2>1. ASSUME NEW q \in Pids, run'.seen = PushedTo(q)
        PROVE  run'.seen[p] \in {run.seen[p], Want}
    BY <2>1 DEF PushedTo, TypeOK, Run
  <2> QED
    BY <1>3, <2>1 DEF Closing
<1>4. CASE GoingOn
  BY <1>4 DEF GoingOn
<1>5. ASSUME NEW q \in Rids, NEW z \in Zones, BeginRecord(q, z)
      PROVE  /\ pc \in Listing /\ run'.snap = run.snap
             /\ run'.seen = run.seen /\ run'.got = run.got
  BY <1>5 DEF BeginRecord, TypeOK, Run
<1> QED
  BY <1>1, <1>2, <1>3, <1>4, <1>5, RunActs DEF RunAct

(* Every record, and every record listed, has the row's name and type.     *)
LEMMA KeyStep ==
    ASSUME IInv, LateInv, CopyInv, Next, NEW r \in Rids, OnlySource(r)'
    PROVE  KeyInv(r)'
<1>1. /\ TypeOK /\ SnapLinks /\ LinkInv
      /\ OnlySource(r) /\ KeyInv(r) /\ Unborn(r)
  BY SourceBefore DEF CopyInv, IInv
<1>2. pc \in InRecord => Want.key = run.snap[r].key /\ run.snap[r] # None
  BY <1>1, OnlyRow
<1>3. ASSUME NEW p \in Pids, Posted(p)
      PROVE  pc \in InRecord /\ cf'[p] = Want
  BY <1>1, <1>3 DEF Posted, Post, PostRemote, InRecord, TypeOK
<1>4. ASSUME NEW p \in Pids, cf'[p] # None, rows'[r] # None
      PROVE  cf'[p].key = rows'[r].key
  <2>1. rows[r] # None
    BY <1>1, <1>4, Newcomer DEF Unborn
  <2>2. rows'[r].key = rows[r].key
    BY <1>4, <2>1, KeyFixed
  <2>3. CASE Posted(p)
    BY <1>1, <1>2, <1>3, <2>1, <2>2, <2>3 DEF KeyInv, InRecord, Listing
  <2>4. CASE ~Posted(p)
    BY <1>1, <1>4, <2>1, <2>2, <2>4, WasThere DEF KeyInv
  <2> QED
    BY <2>3, <2>4
<1>5. ASSUME NEW p \in Pids, pc' \in Listing, run'.snap[r] # None
      PROVE  LET k == run'.snap[r].key
             IN  /\ rows'[r] # None => rows'[r].key = k
                 /\ cf'[p] # None => cf'[p].key = k
                 /\ run'.seen[p] # None => run'.seen[p].key = k
                 /\ run'.got[p] # None => run'.got[p].key = k
  <2>1. CASE /\ rows' = rows /\ run'.snap = rows
             /\ run'.seen[p] = None /\ run'.got[p] = None
    BY <1>1, <1>4, <1>5, <2>1
  <2>2. CASE pc \in Listing /\ run'.snap = run.snap
    <3> DEFINE k == run.snap[r].key
    <3>1. /\ rows[r] # None => rows[r].key = k
          /\ cf[p] # None => cf[p].key = k
          /\ run.seen[p] # None => run.seen[p].key = k
          /\ run.got[p] # None => run.got[p].key = k
      BY <1>1, <1>5, <2>2 DEF KeyInv
    <3>2. rows'[r] # None => rows'[r].key = k
      BY <1>5, <2>2, <3>1, Newcomer, KeyFixed
    <3>3. cf'[p] # None => cf'[p].key = k
      BY <1>1, <1>2, <1>3, <3>1, WasThere
    <3>4. /\ run'.seen[p] # None => run'.seen[p].key = k
          /\ run'.got[p] # None => run'.got[p].key = k
      BY <1>2, <1>5, <2>1, <3>1, KnownMoves
    <3> QED
      BY <2>2, <3>2, <3>3, <3>4
  <2> QED
    BY <1>5, <2>1, <2>2, KnownMoves
<1> QED
  BY <1>4, <1>5 DEF KeyInv

(* A POST for a plain row finds its zone without a record of the row.      *)
LEMMA NothingHere ==
    ASSUME IInv, CopyInv, NEW r \in Rids, OnlySource(r), Post,
           Plain(CurRow.key)
    PROVE  Nowhere
<1>1. AtHandInv /\ KeyInv(r) /\ pc \in InRecord
  BY DEF CopyInv, Post, InRecord
<1>2. CASE pc = "create"
  BY <1>1, <1>2 DEF AtHandInv, AtHand
<1>3. CASE pc = "reconcile" /\ Candidates = {}
  <2>1. ASSUME NEW q \in Pids, Here(run.zone, q)
        PROVE  FALSE
    <3>1. Listed(q)
      BY <1>1, <1>3, <2>1 DEF AtHandInv, AtHand
    <3>2. run.seen[q].key = CurRow.key
      BY <1>1, <1>3, <3>1, OnlyRow DEF Listed, KeyInv, Listing
    <3>3. IdentityMatches(CurRow, run.seen[q])
      BY <3>2 DEF IdentityMatches, Plain
    <3> QED
      BY <1>3, <3>1, <3>3 DEF Candidates
  <2> QED
    BY <2>1 DEF Nowhere
<1> QED
  BY <1>2, <1>3 DEF Post

(* No second copy appears.                                                 *)
LEMMA SingleStep ==
    ASSUME IInv, LateInv, CopyInv, Next, NEW r \in Rids, OnlySource(r)'
    PROVE  Single'
<1> SUFFICES ASSUME NEW p \in Pids, NEW q \in Pids, cf'[p] # None,
                    cf'[q] # None, cf'[p].zone = cf'[q].zone,
                    Plain(cf'[p].key)
             PROVE  p = q
  BY DEF Single, Plain
<1>1. TypeOK /\ OnlySource(r) /\ Single /\ KeyInv(r)
  BY SourceBefore DEF CopyInv, IInv
<1>2. CASE ~Posted(p) /\ ~Posted(q)
  BY <1>1, <1>2, WasThere DEF Single
<1>3. CASE Posted(p) /\ Posted(q)
  BY <1>3 DEF Posted, PostRemote
<1>4. ASSUME NEW x \in Pids, NEW y \in Pids, Posted(x), ~Posted(y),
             cf'[y] # None, cf'[y].zone = cf'[x].zone,
             Plain(cf'[x].key) \/ Plain(cf'[y].key)
      PROVE  FALSE
  <2>1. pc \in InRecord /\ Post
    BY <1>4 DEF Posted, Post, InRecord
  <2>2. /\ CurRow = run.snap[r] /\ CurRow # None
        /\ Want.key = CurRow.key /\ Want.zone = run.zone
    BY <1>1, <2>1, OnlyRow
  <2>3. cf'[x] = Want
    BY <1>1, <1>4 DEF Posted, PostRemote, TypeOK
  <2>4. /\ cf[y] # None /\ cf'[y].zone = cf[y].zone
        /\ cf'[y].key = cf[y].key
    BY <1>1, <1>4, WasThere
  <2>5. cf[y].key = CurRow.key
    BY <1>1, <2>1, <2>2, <2>4 DEF KeyInv, InRecord, Listing
  <2>6. Plain(CurRow.key) /\ Here(run.zone, y)
    BY <1>4, <2>2, <2>3, <2>4, <2>5 DEF Here
  <2> QED
    BY <1>1, <2>1, <2>6, NothingHere DEF Nowhere
<1> QED
  BY <1>2, <1>3, <1>4

(* The link of the row leaves out no record of its zone.                   *)
LEMMA LinkedAlone ==
    ASSUME IInv, LateInv, SaveInv, CopyInv, Next,
           NEW r \in Rids, OnlySource(r)', PlainRow(r)'
    PROVE  LinkLeavesOut(r)'
<1> SUFFICES ASSUME rows'[r].pid # None, NEW q \in Pids, cf'[q] # None,
                    cf'[q].zone = rows'[r].zone
             PROVE  q = rows'[r].pid
  BY DEF LinkLeavesOut, Here
<1>1. /\ TypeOK /\ LinkInv /\ OnlySource(r) /\ KeyInv(r) /\ rows'[r] # None
      /\ AtHandInv
  BY SourceBefore DEF CopyInv, IInv, PlainRow
<1>2. rows[r] # None /\ rows[r] \in Row /\ r \in rowIds
  BY <1>1, Newcomer DEF LinkInv, TypeOK
<1>3. PlainRow(r) /\ LinkLeavesOut(r)
  BY <1>1, <1>2, KeyFixed DEF PlainRow, CopyInv, Plain
<1>4. pc \in InRecord => run.cur = r /\ Plain(CurRow.key)
  BY <1>1, <1>2, <1>3, OnlyRow DEF KeyInv, PlainRow, InRecord, Listing
<1>5. CASE rows'[r].pid = rows[r].pid /\ rows'[r].zone = rows[r].zone
  <2>1. ~Posted(q)
    BY <1>2, <1>4, <1>5, PostUnlinked DEF Posted, Post, InRecord
  <2> QED
    BY <1>1, <1>3, <1>5, <2>1, WasThere DEF LinkLeavesOut, Here
<1>6. ASSUME NEW p, cf' = cf, rows' = [rows EXCEPT ![r] =
                [@ EXCEPT !.zone = run.zone, !.pid = p]]
      PROVE  rows'[r].pid = p /\ Here(run.zone, q)
  <2>1. rows'[r] = [rows[r] EXCEPT !.zone = run.zone, !.pid = p]
    BY <1>1, <1>6 DEF TypeOK
  <2>2. rows'[r].pid = p /\ rows'[r].zone = run.zone
    BY <1>2, <2>1 DEF Row
  <2> QED
    BY <1>6, <2>2 DEF Here
<1>7. CASE SaveId
  <2>1. run.cur = r /\ \A x \in Pids : Here(run.zone, x) => x = run.target
    BY <1>1, <1>4, <1>7 DEF SaveId, InRecord, AtHandInv, AtHand
  <2>2. CASE SetProviderId(r, run.zone, run.target)
    BY <1>6, <1>7, <2>1, <2>2 DEF SaveId, SetProviderId, cloud
  <2> QED
    BY <1>5, <1>7, <2>1, <2>2 DEF SaveId
<1>8. ASSUME NEW p \in Pids, Adopt(p)
      PROVE  q = rows'[r].pid
  <2>1. run.cur = r /\ Listed(p)
    BY <1>4, <1>8 DEF Adopt, InRecord, Candidates
  <2>2. Here(run.zone, q) => p = q
    BY <1>1, <1>4, <1>8, <2>1 DEF Adopt, InRecord, AtHandInv, AtHand
  <2>3. CASE SetProviderId(r, run.zone, p)
    BY <1>6, <1>8, <2>2, <2>3 DEF Adopt, SetProviderId, cloud
  <2> QED
    BY <1>5, <1>8, <2>1, <2>3 DEF Adopt
<1>9. CASE ClearStaleId
  <2>1. run.cur = r
    BY <1>4, <1>9 DEF ClearStaleId, InRecord
  <2>2. rows'[r] = [rows[r] EXCEPT !.zone = None, !.pid = None]
    BY <1>1, <1>2, <1>9, <2>1 DEF ClearStaleId, SetProviderId, TypeOK
  <2> QED
    BY <1>2, <2>2 DEF Row
<1>10. ASSUME NEW x \in Rids, NewRow(x) \/ NewConfig(x) \/ Landing(x)
       PROVE  rows'[r].pid = rows[r].pid /\ rows'[r].zone = rows[r].zone
  BY <1>1, <1>2, <1>10 DEF NewRow, NewConfig, Landing, SameLink, TypeOK
<1>11. CASE DeleteRow
  BY <1>1, <1>5, <1>11 DEF DeleteRow, TypeOK
<1> QED
  BY <1>5, <1>7, <1>8, <1>9, <1>10, <1>11, TableActs DEF TableAct, LinkAct

(* A page adds to what the run knows of a zone with at most one record.    *)
LEMMA PageKnows ==
    ASSUME IInv, CopyInv, NEW r \in Rids, OnlySource(r), Plain(CurRow.key),
           pc \in {"records", "pages"}, NEW S \in SUBSET InZoneNow
    PROVE  Knows(GotWith(S), DueWithout(S))
<1>1. Single /\ KeyInv(r) /\ WorkerInv /\ TypeOK /\ AtHandInv
  BY DEF CopyInv, IInv
<1>2. ASSUME NEW p \in Pids, NEW q \in Pids, Here(run.zone, p),
             Here(run.zone, q)
      PROVE  p = q
  BY <1>1, <1>2, OnlyRow DEF Single, Here, KeyInv, InRecord, Listing
<1>3. \A p \in Pids : p \in S => Here(run.zone, p)
  BY DEF InZoneNow, Here
<1>4. \A p \in Pids : Here(run.zone, p) <=> p \in InZoneNow
  BY DEF InZoneNow, Here
<1>5. \A p \in Pids : GotWith(S)[p] # None <=> run.got[p] # None \/ p \in S
  BY <1>3 DEF GotWith, Here
<1>6. CASE pc = "records"
  <2>1. \A p \in Pids : run.got[p] = None
    BY <1>1, <1>6 DEF WorkerInv, NoRemotes
  <2> QED
    BY <1>2, <1>3, <1>4, <1>5, <1>6, <2>1 DEF Knows, DueWithout
<1>7. CASE pc = "pages"
  <2>1. Knows(run.got, run.due)
    BY <1>1, <1>7 DEF AtHandInv, AtHand, InRecord
  <2>2. \A q \in Pids : Here(run.zone, q) =>
                            GotWith(S)[q] # None \/ q \in DueWithout(S)
    BY <1>5, <1>7, <2>1 DEF Knows, DueWithout
  <2>3. ASSUME NEW p \in Pids, NEW q \in Pids, GotWith(S)[p] # None,
               GotWith(S)[q] # None \/ Here(run.zone, q)
        PROVE  p = q
    BY <1>2, <1>3, <1>5, <2>1, <2>3 DEF Knows
  <2> QED
    BY <2>2, <2>3 DEF Knows
<1> QED
  BY <1>6, <1>7

(* Pages shift under a listing only when a record of its zone is written.  *)
LEMMA ShiftMoves ==
    ASSUME IInv, Next, late = {}, pc = "pages", Idling, shifted', ~shifted
    PROVE  \E p \in Pids : /\ Here(run.zone, p)
                           /\ cf'[p] = None \/ Foreign(p)
<1> TypeOK /\ LockInv /\ ZoneInv
  BY DEF IInv
<1> USE NoneAssumption DEF cloud
<1>1. CASE Requests \/ Mutations
  BY <1>1 DEF Requests, TakeRequest, Mutations, CreateRecord, CreateDropped,
     UpdateRecord, UpdateDropped, DeleteBegin, Lands
<1>2. CASE WorkerStep
  <2>1. ASSUME NEW S, ListPage(S) \/ ListLastPage(S)
        PROVE  FALSE
    BY <2>1 DEF ListPage, ListLastPage
  <2> QED
    BY <1>2, <2>1 DEF WorkerStep, LockForSync, StartRun, ListRows,
       ResolveIpv4, ResolveHangs, ListZones, SkipStatic, CannotPush,
       BeginRecord, Refuse, LeaveUnchanged, ClearStaleId, PutOwned,
       PutAdopted, Post, SaveId, Adopt, CallFails, EndRun, ReleaseLock
<1>3. CASE DeleteStep
  BY <1>3 DEF DeleteStep, DeleteRead, DeleteCheck, DeleteRemote, DeleteRow,
     DeleteAborts, DeleteDropped, LockInv, Running, Listing
<1>4. ASSUME NEW p \in Pids, NEW rem \in Remote, DashboardEdit(p, rem)
      PROVE  Here(run.zone, p) /\ Foreign(p)
  BY <1>4, LiveIssued DEF DashboardEdit, Shift, Here, Foreign, TypeOK
<1>5. ASSUME NEW p \in Pids, DashboardDelete(p)
      PROVE  Here(run.zone, p) /\ cf'[p] = None
  BY <1>5 DEF DashboardDelete, PutRemote, Shift, Here, TypeOK
<1>6. CASE Environment
  BY <1>4, <1>5, <1>6 DEF Environment, DashboardCreate, PostRemote, AddZone,
     WanChanges, LateArrives, Crash, Idling
<1> QED
  BY <1>1, <1>2, <1>3, <1>6 DEF Next

(* The run knows of every record in the zone of the row at hand.           *)
LEMMA AtHandStep ==
    ASSUME IInv, LateInv, SaveInv, CopyInv, Next,
           NEW r \in Rids, OnlySource(r)'
    PROVE  AtHandInv'
<1> SUFFICES ASSUME pc' \in InRecord, Plain(CurRow'.key)
             PROVE  AtHand'
  BY DEF AtHandInv, Plain
<1>1. /\ TypeOK /\ WorkerInv /\ SnapLinks /\ ZoneInv /\ LinkInv
      /\ OnlySource(r) /\ late = {}
      /\ KeyInv(r) /\ Single /\ FirstListing /\ AtHandInv
  BY SourceBefore DEF CopyInv, IInv
<1>2. CASE pc' \notin Listing \/ Opening \/ Closing
  BY <1>2 DEF Opening, Closing, InRecord, Listing
<1>3. CASE Idling
  <2>1. pc' = pc /\ run' = run /\ CurRow' = CurRow /\ AtHand
    BY <1>1, <1>3 DEF Idling, AtHandInv, CurRow
  <2>2. ASSUME NEW q \in Pids, Here(run.zone, q)'
        PROVE  Here(run.zone, q)
    BY <1>1, <1>3, <2>1, <2>2, WasThere DEF Idling, Posted, Here
  <2>3. Nowhere => Nowhere'
    BY <2>1, <2>2 DEF Nowhere
  <2>4. \A q \in Pids : Listed(q)' <=> Listed(q)
    BY <2>1 DEF Listed
  <2>5. ASSUME pc = "pages"
        PROVE  Knows(run.got, run.due)' /\ (shifted' => Nowhere')
    <3>1. Knows(run.got, run.due)'
      BY <2>1, <2>2, <2>5 DEF AtHand, Knows
    <3>2. ASSUME shifted', ~shifted
          PROVE  Nowhere'
      <4>1. PICK p \in Pids : Here(run.zone, p) /\ (cf'[p] = None \/ Foreign(p))
        BY <1>1, <1>3, <2>5, <3>2, ShiftMoves
      <4>2. cf'[p] = None
        BY <4>1, NoneAssumption DEF Foreign, OnlySource
      <4>3. ASSUME NEW q \in Pids, Here(run.zone, q)
            PROVE  q = p
        BY <1>1, <2>1, <2>5, <4>1, <4>3, OnlyRow
        DEF Single, Here, KeyInv, InRecord, Listing
      <4> QED
        BY <2>1, <2>2, <4>2, <4>3 DEF Nowhere, Here
    <3> QED
      BY <2>1, <2>3, <2>5, <3>1, <3>2 DEF AtHand
  <2> QED
    BY <2>1, <2>2, <2>3, <2>4, <2>5 DEF AtHand
<1>4. ASSUME NEW S \in SUBSET InZoneNow, ListPage(S)
      PROVE  AtHand'
  <2>1. /\ pc \in {"records", "pages"} /\ pc' = "pages" /\ cf' = cf
        /\ shifted' => shifted /\ pc = "pages"
    BY <1>4 DEF ListPage
  <2>2. /\ run'.zone = run.zone /\ CurRow' = CurRow
        /\ run'.got = GotWith(S) /\ run'.due = DueWithout(S)
    BY <1>1, <1>4 DEF ListPage, CurRow, TypeOK, Run
  <2>3. \A z, q : Here(z, q)' <=> Here(z, q)
    BY <2>1 DEF Here
  <2>4. Knows(GotWith(S), DueWithout(S))
    BY <1>1, <2>1, <2>2, PageKnows
  <2>5. Knows(run.got, run.due)'
    BY <2>2, <2>3, <2>4 DEF Knows
  <2>6. shifted' => Nowhere'
    BY <1>1, <2>1, <2>2, <2>3 DEF AtHandInv, AtHand, InRecord, Nowhere
  <2> QED
    BY <2>1, <2>5, <2>6 DEF AtHand
<1>5. ASSUME NEW S \in SUBSET InZoneNow, ListLastPage(S)
      PROVE  AtHand'
  <2>1. /\ pc \in {"records", "pages"} /\ pc' = "reconcile" /\ cf' = cf
        /\ LeftOut(S) # {} => pc = "pages" /\ shifted
    BY <1>5 DEF ListLastPage
  <2>2. run'.zone = run.zone /\ CurRow' = CurRow
    BY <1>1, <1>5 DEF ListLastPage, CurRow, TypeOK, Run
  <2>3. \A q \in Pids : run'.seen[q] = GotWith(S)[q]
    <3>1. \A q \in Pids : run.seen[q] = None
      BY <1>1, <2>1 DEF FirstListing, NoRemotes
    <3> QED
      BY <1>1, <1>5, <3>1 DEF ListLastPage, TypeOK, Run
  <2>4. Knows(GotWith(S), DueWithout(S))
    BY <1>1, <2>1, <2>2, PageKnows
  <2>5. ASSUME NEW q \in Pids, Here(run.zone, q)
        PROVE  Listed(q)'
    <3>1. q \in InZoneNow
      BY <2>5 DEF Here, InZoneNow
    <3>2. LeftOut(S) = {}
      BY <1>1, <2>1, <2>2, <2>5 DEF AtHandInv, AtHand, InRecord, Nowhere
    <3>3. GotWith(S)[q] # None
      BY <2>4, <2>5, <3>1, <3>2 DEF Knows, LeftOut
    <3>4. GotWith(S)[q].zone = run.zone
      <4>1. run.zone \in Zones /\ Mentioned(q, run.zone)
        BY <1>1, <2>1, <2>5, WantType DEF Here, Mentioned, InRecord
      <4>2. CASE GotWith(S)[q] = cf[q]
        BY <2>5, <4>2 DEF Here
      <4>3. CASE GotWith(S)[q] = run.got[q]
        <5>1. run.got[q].zone \in Zones /\ Mentioned(q, run.got[q].zone)
          BY <1>1, <3>3, <4>3 DEF TypeOK, Run, Remote, Mentioned
        <5> QED
          BY <1>1, <4>1, <4>3, <5>1 DEF ZoneInv
      <4> QED
        BY <4>2, <4>3 DEF GotWith
    <3> QED
      BY <2>2, <2>3, <3>3, <3>4 DEF Listed
  <2>6. ASSUME NEW p \in Pids, NEW q \in Pids, Listed(p)', Listed(q)'
        PROVE  p = q
    BY <2>3, <2>4, <2>6 DEF Listed, Knows
  <2>7. \A q \in Pids : Here(run.zone, q)' <=> Here(run.zone, q)
    BY <2>1, <2>2 DEF Here
  <2> QED
    BY <2>1, <2>5, <2>6, <2>7 DEF AtHand
<1>6. CASE GoingOn
  <2>1. /\ pc \in InRecord /\ pc' \in {"create", "save", "fixup"}
        /\ run'.zone = run.zone /\ CurRow' = CurRow /\ AtHand
    BY <1>1, <1>6 DEF GoingOn, CurRow, AtHandInv
  <2>2. CASE pc' = "create"
    <3>1. ClearStaleId /\ rows[run.cur] # None /\ pc = "reconcile" /\ cf' = cf
      BY <1>6, <2>2 DEF GoingOn, ClearStaleId, RowFails, cloud
    <3>2. run.cur = r /\ SameLink(rows[r], CurRow)
      BY <1>1, <2>1, <3>1, OnlyRow DEF SnapLinks, Reached, Listing
    <3>3. /\ CurRow.pid # None /\ CurRow.zone = run.zone
          /\ ~Listed(CurRow.pid)
      BY <3>1 DEF ClearStaleId, Owned, Refused
    <3>4. LinkLeavesOut(r)
      BY <1>1, <2>1, <3>1, <3>2 DEF CopyInv, PlainRow, SameLink
    <3>5. Nowhere
      BY <2>1, <3>1, <3>2, <3>3, <3>4
      DEF Nowhere, AtHand, LinkLeavesOut, SameLink
    <3> QED
      BY <2>1, <2>2, <3>1, <3>5 DEF AtHand, Nowhere, Here
  <2>3. CASE pc' = "save"
    <3>1. run'.target \in Pids /\ Posted(run'.target)
      BY <1>6, <2>3 DEF GoingOn
    <3>2. Nowhere
      BY <1>1, <2>1, <3>1, NothingHere DEF Posted
    <3>3. ASSUME NEW q \in Pids, q # run'.target
          PROVE  ~Here(run.zone, q)'
      BY <1>1, <2>1, <3>1, <3>2, <3>3
      DEF Posted, PostRemote, Nowhere, Here, TypeOK
    <3> QED
      BY <2>3, <3>3 DEF AtHand
  <2>4. CASE pc' = "fixup"
    BY <2>4 DEF AtHand
  <2> QED
    BY <2>1, <2>2, <2>3, <2>4
<1>7. ASSUME NEW q \in Rids, NEW z \in Zones, BeginRecord(q, z)
      PROVE  AtHand'
  BY <1>1, <1>7 DEF BeginRecord, FirstListing, AtHand, InRecord, Listing
<1> QED
  BY <1>2, <1>3, <1>4, <1>5, <1>6, <1>7, RunActs DEF RunAct, Paging

(* A record created for a plain row whose id was lost is adopted by the    *)
(* next run and never created again, while the row is the only source of   *)
(* records.                                                                *)
THEOREM OneRecordPerZone == Spec => []OneCopy
<1> DEFINE J == LateInv /\ SaveInv /\ CopyInv
<1>1. Init => J
  BY DEF Init, LateInv, SaveInv, CopyInv, Single, KeyInv, FirstListing,
     Unborn, PlainRow, AtHandInv, NoRows, NoRemotes, Listing, InRecord
<1>2. IInv /\ J /\ [Next]_vars => J'
  <2> SUFFICES ASSUME IInv, LateInv, SaveInv, CopyInv, [Next]_vars
               PROVE  LateInv' /\ SaveInv' /\ CopyInv'
    OBVIOUS
  <2>1. CASE Next
    <3>1. ASSUME NEW r \in Rids, OnlySource(r)'
          PROVE  /\ Single' /\ KeyInv(r)' /\ FirstListing' /\ Unborn(r)'
                 /\ PlainRow(r)' => LinkLeavesOut(r)'
                 /\ AtHandInv'
      <4>1. FirstListing'
        BY <2>1, <3>1, SourceBefore, FirstStep
      <4> QED
        BY <2>1, <3>1, <4>1, SingleStep, KeyStep, UnbornStep, LinkedAlone,
           AtHandStep
    <3> QED
      BY <2>1, <3>1, LateStep, SaveStep DEF CopyInv
  <2>2. CASE UNCHANGED vars
    BY <2>2 DEF vars, LateInv, SaveInv, CopyInv, OnlySource, Single, KeyInv,
       FirstListing, Unborn, PlainRow, LinkLeavesOut, AtHandInv, AtHand,
       Nowhere, Knows, Here, Listed, CurRow
  <2> QED
    BY <2>1, <2>2
<1>3. J => OneCopy
  BY DEF CopyInv, OneCopy, Single
<1> HIDE DEF J
<1> QED
  BY <1>1, <1>2, <1>3, Inductive, PTL DEF Spec

=============================================================================
