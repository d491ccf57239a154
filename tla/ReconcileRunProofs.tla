------------------------ MODULE ReconcileRunProofs ------------------------
(***************************************************************************)
(* Proofs about one run of the reconciler, from its listing of the table   *)
(* to its end: what it counts, and what it has done when nothing disturbs  *)
(* it. They rest on the inductive invariant of ReconcileProofs.            *)
(***************************************************************************)
EXTENDS ReconcileProofs, FiniteSetTheorems

-----------------------------------------------------------------------------
(* What a run counts. *)

Early == {"idle", "lock", "list", "resolve", "zones"}

(* The rows of the table are finitely many, and before the first row is    *)
(* reached nothing has been counted.                                       *)
AcctInv ==
    /\ IsFiniteSet(rowIds)
    /\ pc \in Early => outcome = NoOutcome
    /\ pc \in {"resolve", "zones"} => run.todo = SnapRows
    /\ pc \in {"resolve", "zones", "next"} => run.cur = None
    /\ pc \in Listing => IsFiniteSet(SnapRows)
    /\ Accounting

(* One row is counted, once. *)
Tally == CountError \/ \E what \in Counters \ {"failed"} : Count(what)

(* How a step moves the run along its list.                                *)
SameSnap == run'.snap = run.snap
Still == SameSnap /\ run'.todo = run.todo /\ run'.cur = run.cur
Idles == UNCHANGED <<pc, run, outcome>>
Restarts == pc' \in {"idle", "lock", "list"} /\ outcome' = NoOutcome
Prepares == /\ \/ pc = "resolve" /\ pc' \in {"hung", "zones"}
               \/ pc = "zones" /\ pc' = "next"
            /\ Still /\ UNCHANGED outcome
Finishes == /\ pc' = "finish"
            /\ outcome' \in {outcome, [outcome EXCEPT !.error = TRUE]}
Skips == /\ pc = "next" /\ pc' = "next"
         /\ \E r \in run.todo : run'.todo = run.todo \ {r}
         /\ SameSnap /\ run'.cur = run.cur /\ Tally
Begins == /\ pc = "next" /\ pc' \in InRecord
          /\ \E r \in run.todo : run'.todo = run.todo \ {r} /\ run'.cur = r
          /\ SameSnap /\ UNCHANGED outcome
Goes == pc \in InRecord /\ pc' \in InRecord /\ Still /\ UNCHANGED outcome
Ends == /\ pc \in InRecord /\ pc' = "next"
        /\ SameSnap /\ run'.todo = run.todo /\ run'.cur = None /\ Tally
RunMove == \/ Idles \/ Restarts \/ ListRows \/ Prepares \/ Finishes
           \/ Skips \/ Begins \/ Goes \/ Ends

(* A row that fails or is done leaves the list behind it as it was.        *)
LEMMA RowEndMoves ==
    ASSUME TypeOK, pc \in InRecord,
           \/ RowFails
           \/ \E what \in Counters \ {"failed"} : \E seen : RowDone(what, seen)
    PROVE  Ends
<1>1. CASE RowFails
  BY <1>1 DEF RowFails, NextRow, Ends, Tally, SameSnap, TypeOK, Run
<1>2. ASSUME NEW what \in Counters \ {"failed"}, NEW seen, RowDone(what, seen)
      PROVE  Ends
  BY <1>2 DEF RowDone, NextRow, Ends, Tally, SameSnap, TypeOK, Run
<1> QED
  BY <1>1, <1>2

(* Every step moves the run in one of these ways.                          *)
LEMMA RunMoveStep ==
    ASSUME IInv, AcctInv, Next
    PROVE  RunMove
<1> TypeOK /\ WorkerInv
  BY DEF IInv
<1> USE DEF RunMove, worker
<1>1. CASE Requests
  BY <1>1 DEF Requests, TakeRequest, Restarts, AcctInv, Early
<1>2. CASE LockForSync
  BY <1>2 DEF LockForSync, StartRun, Restarts, AcctInv, Early
<1>3. CASE ResolveIpv4 \/ ResolveHangs \/ ListZones
  BY <1>3
  DEF ResolveIpv4, ResolveHangs, ListZones, Prepares, Still, SameSnap, TypeOK,
      Run
<1>4. ASSUME NEW r \in Rids, SkipStatic(r) \/ CannotPush(r)
      PROVE  Skips
  BY <1>4 DEF SkipStatic, CannotPush, Skips, SameSnap, Tally, Counters,
     TypeOK, Run
<1>5. ASSUME NEW r \in Rids, NEW z \in Zones, BeginRecord(r, z)
      PROVE  Begins
  BY <1>5 DEF BeginRecord, Begins, SameSnap, InRecord, TypeOK, Run
<1>6. ASSUME NEW S, ListPage(S) \/ ListLastPage(S)
      PROVE  Goes
  BY <1>6
  DEF ListPage, ListLastPage, Goes, Still, SameSnap, InRecord, TypeOK, Run
<1>7. CASE Refuse \/ LeaveUnchanged
  BY <1>7, RowEndMoves DEF Refuse, LeaveUnchanged, InRecord, Counters
<1>8. CASE ClearStaleId
  BY <1>8, RowEndMoves
  DEF ClearStaleId, Answer, InRecord, Goes, Still, SameSnap
<1>9. CASE PutOwned \/ PutAdopted
  BY <1>9, RowEndMoves
  DEF PutOwned, PutAdopted, Put, Answer, TimesOut, InRecord, Counters
<1>10. ASSUME pc \in InRecord, pc' \in InRecord, NEW p \in Pids,
              run' = [run EXCEPT !.target = p], UNCHANGED outcome
       PROVE  Goes
  BY <1>10 DEF Goes, Still, SameSnap, TypeOK, Run
<1>11. ASSUME NEW p \in Pids, Adopt(p)
       PROVE  Goes \/ Ends
  BY <1>10, <1>11, RowEndMoves DEF Adopt, Answer, InRecord, Counters
<1>12. CASE Post
  BY <1>10, <1>12, RowEndMoves DEF Post, Answer, TimesOut, InRecord
<1>13. CASE SaveId
  BY <1>13, RowEndMoves DEF SaveId, Answer, InRecord, Counters
<1>14. CASE CallFails
  BY <1>14, RowEndMoves DEF CallFails, RunFails, Finishes, InRecord
<1>15. CASE EndRun
  BY <1>15 DEF EndRun, Finishes
<1>16. CASE ReleaseLock \/ Crash
  BY <1>16 DEF ReleaseLock, Crash, Restarts
<1>17. CASE WorkerStep
  BY <1>2, <1>3, <1>4, <1>5, <1>6, <1>7, <1>8, <1>9, <1>11, <1>12, <1>13,
     <1>14, <1>15, <1>16, <1>17 DEF WorkerStep
<1>18. CASE UNCHANGED worker
  BY <1>18 DEF Idles
<1>19. ASSUME NEW r \in Rids, Landing(r)
       PROVE  RunMove
  BY <1>18, <1>19 DEF Landing
<1> QED
  BY <1>1, <1>16, <1>17, <1>18, <1>19, Outsider DEF Next

(* A row is counted as one.                                                *)
LEMMA TallyCounts ==
    ASSUME TypeOK, Tally, outcome.failed > 0 => outcome.error
    PROVE  /\ Counted' = Counted + 1 /\ Counted \in Nat
           /\ outcome'.failed > 0 => outcome'.error
<1>1. outcome \in Outcome
  BY DEF TypeOK
<1>2. CASE CountError
  <2>1. /\ outcome'.created = outcome.created
        /\ outcome'.updated = outcome.updated
        /\ outcome'.unchanged = outcome.unchanged
        /\ outcome'.failed = outcome.failed + 1
        /\ outcome'.error
    BY <1>1, <1>2 DEF CountError, Outcome
  <2> QED
    BY <1>1, <2>1 DEF Counted, Outcome
<1>3. ASSUME NEW what \in {"created", "updated", "unchanged"}, Count(what)
      PROVE  /\ Counted' = Counted + 1 /\ Counted \in Nat
             /\ outcome'.failed > 0 => outcome'.error
  BY <1>1, <1>3 DEF Count, Counted, Outcome
<1> QED
  BY <1>2, <1>3 DEF Tally, Counters

(* The identity column stays finite: each step hands out at most one id.   *)
LEMMA RowIdsFinite ==
    ASSUME IInv, Next, IsFiniteSet(rowIds)
    PROVE  IsFiniteSet(rowIds')
<1>1. rowIds' = rowIds \/ \E r \in Rids : rowIds' = rowIds \cup {r}
  BY TableMoves
  DEF TableStep, Same, Created, Edited, Linked, Unlinked, Removed, Struck
<1> QED
  BY <1>1, FS_AddElement

(* A move along the list keeps the count right.                            *)
LEMMA AcctStep ==
    ASSUME IInv, AcctInv, Next
    PROVE  AcctInv'
<1> TypeOK /\ WorkerInv /\ LinkInv
  BY DEF IInv
<1> DEFINE rest == [run EXCEPT !.todo = run.todo]
<1>0. IsFiniteSet(rowIds')
  BY RowIdsFinite DEF AcctInv
<1>1. CASE Idles
  BY <1>0, <1>1 DEF Idles, AcctInv, Accounting, Counted, SnapRows
<1>2. CASE Restarts
  BY <1>0, <1>2
  DEF Restarts, AcctInv, Accounting, Listing, InRecord, NoOutcome
<1>3. CASE ListRows
  <2>1. /\ run'.snap = rows /\ run'.todo = {r \in Rids : rows[r] # None}
        /\ run'.cur = run.cur /\ outcome' = outcome
        /\ pc = "list" /\ pc' \in {"finish", "resolve", "zones"}
    BY <1>3 DEF ListRows, TypeOK, Run
  <2>2. run.cur = None /\ outcome = NoOutcome
    BY <2>1 DEF WorkerInv, NoRun, AcctInv, Early
  <2>3. SnapRows' = run'.todo /\ SnapRows' \subseteq rowIds
    BY <2>1 DEF SnapRows, LinkInv
  <2>4. IsFiniteSet(SnapRows')
    BY <2>3, FS_Subset DEF AcctInv
  <2> QED
    BY <1>0, <2>1, <2>2, <2>3, <2>4
    DEF AcctInv, Accounting, Early, InRecord, NoOutcome
<1>4. pc \in Listing => /\ IsFiniteSet(SnapRows) /\ run.todo \subseteq SnapRows
                        /\ IsFiniteSet(run.todo)
                        /\ Cardinality(run.todo) \in Nat
  <2>1. run.todo \subseteq SnapRows
    BY DEF WorkerInv, SnapRows, TypeOK, Run
  <2> QED
    BY <2>1, FS_Subset, FS_CardinalityType DEF AcctInv
<1>5. CASE Prepares
  <2>1. SnapRows' = SnapRows
    BY <1>5 DEF Prepares, Still, SameSnap, SnapRows
  <2>2. /\ outcome = NoOutcome /\ run.todo = SnapRows /\ run.cur = None
        /\ run'.todo = run.todo /\ run'.cur = run.cur /\ outcome' = outcome
        /\ IsFiniteSet(SnapRows) /\ pc' \in {"hung", "zones", "next"}
        /\ pc' = "zones" => pc = "resolve"
        /\ Cardinality(run.todo) \in Nat
    BY <1>4, <1>5 DEF Prepares, Still, AcctInv, Early, Listing
  <2>3. Counted' = 0
    BY <2>2 DEF Counted, NoOutcome
  <2>4. Accounting'
    BY <2>1, <2>2, <2>3 DEF Accounting, InRecord, NoOutcome
  <2> QED
    BY <1>0, <2>1, <2>2, <2>4 DEF AcctInv
<1>6. CASE Finishes
  <2>1. outcome'.failed > 0 => outcome'.error
    BY <1>6 DEF Finishes, AcctInv, Accounting, TypeOK, Outcome
  <2> QED
    BY <1>0, <1>6, <2>1
    DEF Finishes, AcctInv, Accounting, Early, Listing, InRecord
<1>7. CASE Skips
  <2>1. PICK r \in run.todo : run'.todo = run.todo \ {r}
    BY <1>7 DEF Skips
  <2>2. /\ SnapRows' = SnapRows /\ pc = "next" /\ pc' = "next"
        /\ run'.cur = run.cur /\ Tally
    BY <1>7 DEF Skips, SameSnap, SnapRows
  <2>3. Cardinality(run'.todo) = Cardinality(run.todo) - 1
    BY <1>4, <2>1, <2>2, FS_RemoveElement DEF Listing
  <2>4. /\ Counted' = Counted + 1 /\ Counted \in Nat
        /\ outcome'.failed > 0 => outcome'.error
    BY <2>2, TallyCounts DEF AcctInv, Accounting
  <2>5. Accounting'
    BY <1>4, <2>2, <2>3, <2>4
    DEF AcctInv, Accounting, Listing
  <2> QED
    BY <1>0, <1>4, <2>2, <2>5 DEF AcctInv, Early, Listing
<1>8. CASE Begins
  <2>1. PICK r \in run.todo : run'.todo = run.todo \ {r} /\ run'.cur = r
    BY <1>8 DEF Begins
  <2>2. /\ SnapRows' = SnapRows /\ pc = "next" /\ pc' \in InRecord
        /\ outcome' = outcome /\ r # None
    BY <1>8, NoneAssumption DEF Begins, SameSnap, SnapRows, TypeOK, Run
  <2>3. Cardinality(run'.todo) = Cardinality(run.todo) - 1
    BY <1>4, <2>1, <2>2, FS_RemoveElement DEF Listing
  <2>4. Counted' = Counted /\ Counted \in Nat /\ run.cur = None
    BY <2>2 DEF Counted, TypeOK, Outcome, AcctInv
  <2>5. Accounting'
    BY <1>4, <2>1, <2>2, <2>3, <2>4
    DEF AcctInv, Accounting, Listing, InRecord
  <2> QED
    BY <1>0, <1>4, <2>2, <2>5 DEF AcctInv, Early, Listing, InRecord
<1>9. CASE Goes
  <2>1. SnapRows' = SnapRows
    BY <1>9 DEF Goes, Still, SameSnap, SnapRows
  <2>2. Accounting'
    BY <1>9, <2>1 DEF Goes, Still, AcctInv, Accounting, Counted, InRecord
  <2> QED
    BY <1>0, <1>4, <1>9, <2>1, <2>2
    DEF Goes, AcctInv, Early, Listing, InRecord
<1>10. CASE Ends
  <2>1. /\ SnapRows' = SnapRows /\ pc \in InRecord /\ pc' = "next"
        /\ run'.todo = run.todo /\ run'.cur = None /\ run.cur # None
    BY <1>10 DEF Ends, SameSnap, SnapRows, WorkerInv
  <2>2. /\ Counted' = Counted + 1 /\ Counted \in Nat
        /\ outcome'.failed > 0 => outcome'.error
    BY <1>10, TallyCounts DEF Ends, AcctInv, Accounting
  <2>3. Accounting'
    BY <1>4, <2>1, <2>2
    DEF AcctInv, Accounting, Listing, InRecord
  <2> QED
    BY <1>0, <1>4, <2>1, <2>3 DEF AcctInv, Early, Listing, InRecord
<1> QED
  BY <1>1, <1>2, <1>3, <1>5, <1>6, <1>7, <1>8, <1>9, <1>10, RunMoveStep
  DEF RunMove

(* Before anything has happened.                                           *)
LEMMA AcctInit == Init => AcctInv
BY FS_EmptySet DEF Init, AcctInv, Accounting, NoOutcome, Listing, InRecord

(* A step that changes nothing.                                            *)
LEMMA AcctStutter ==
    ASSUME AcctInv, UNCHANGED vars
    PROVE  AcctInv'
BY DEF vars, AcctInv, Accounting, Counted, SnapRows

(* Each listed row is counted exactly once, and a counted failure always   *)
(* shows in the error that ok() and the metrics look at, however many rows *)
(* there are and whatever happens between the calls of a run.              *)
THEOREM EveryRowCounted == Spec => []Accounting
<1>1. IInv /\ AcctInv /\ [Next]_vars => AcctInv'
  BY AcctStep, AcctStutter
<1>2. AcctInv => Accounting
  BY DEF AcctInv
<1> QED
  BY <1>1, <1>2, AcctInit, Inductive, PTL DEF Spec

-----------------------------------------------------------------------------
(* What an undisturbed run has done. *)

(* A row the run is done with has its record as it asks, unless it failed  *)
(* and something stood in its way.                                         *)
DoneRight(r) ==
    /\ rows[r] # None /\ InScope(rows[r])
    /\ ~outcome.error \/ Unobstructed(r)
    => Synced(r)
IsDone(r) == /\ pc \in {"next", "finish"} \cup InRecord
             /\ r \notin run.todo /\ r # run.cur

(* While nothing disturbs the run, no row it listed has changed but by its *)
(* own doing, what it has seen of Cloudflare is what is there and what it  *)
(* has not seen is gone, what it is about to save or to fix is what it     *)
(* expects, and every row behind it is done right.                         *)
Untouched == pc \in Listing => touched = {}
SeenIsTrue ==
    pc \in Listing => \A p \in Pids : run.seen[p] # None => cf[p] = run.seen[p]
PagesAreTrue ==
    pc = "pages" =>
        /\ ~shifted
        /\ \A p \in Pids : run.got[p] # None => cf[p] = run.got[p]
HiddenIsGone ==
    pc \in Listing => \A r \in Reached :
        LET row == run.snap[r]
        IN  /\ row.pid # None /\ row.zone \in run.cached
            /\ run.seen[row.pid] = None
            => cf[row.pid] = None
TargetInv ==
    /\ pc \in {"create", "save"} => rows[run.cur].pid = None
    /\ pc = "save" =>
          /\ cf[run.target] = Want
          /\ \A q \in Rids : rows[q] # None => rows[q].pid # run.target
    /\ pc = "fixup" => /\ rows[run.cur].pid = run.target
                       /\ rows[run.cur].zone = run.zone
                       /\ cf[run.target] # None
                       /\ cf[run.target].key = CurRow.key
ZoneIsBest == pc \in InRecord => BestZone(CurRow.key, run.acct, run.zone)
DoneInv == \A r \in Rids : IsDone(r) => DoneRight(r)
EndInv == pc = "finish" => run.todo = {} /\ run.cur = None
Calm == /\ Untouched /\ SeenIsTrue /\ PagesAreTrue /\ HiddenIsGone
        /\ TargetInv /\ ZoneIsBest /\ DoneInv /\ EndInv
CalmInv == quiet => Calm

(* Who can disturb a run. *)

(* A disturbance during a run ends its quiet.                              *)
LEMMA SpendDisturbs ==
    ASSUME NEW k, Spend(k), lock = "sync"
    PROVE  ~quiet'
BY DEF Spend, Disturb

(* While a run holds the lock only its own steps leave it quiet.           *)
LEMMA OnlyWorker ==
    ASSUME IInv, Next, lock = "sync", quiet'
    PROVE  /\ WorkerStep /\ ~LockForSync
           /\ quiet \/ ReleaseLock
<1> LockInv /\ pc # "idle" /\ dpc = "idle"
  BY DEF IInv, LockInv, Running, Listing
<1> USE DEF ledger
<1>1. CASE Requests
  BY <1>1 DEF Requests, TakeRequest
<1>2. CASE Mutations
  BY <1>2 DEF Mutations, CreateRecord, CreateDropped, UpdateRecord,
     UpdateDropped, DeleteBegin, Lands, Disturb
<1>3. CASE DeleteStep
  <2>1. DeleteRow => lock = "delete"
    BY DEF DeleteRow, LockInv
  <2> QED
    BY <1>3, <2>1 DEF DeleteStep, DeleteRead, DeleteCheck, DeleteRemote,
       DeleteAborts, DeleteDropped
<1>4. CASE Environment
  BY <1>4, SpendDisturbs DEF Environment, DashboardCreate, DashboardEdit,
     DashboardDelete, AddZone, WanChanges, LateArrives, Disturb, Crash
<1>5. CASE WorkerStep
  <2>1. ~LockForSync
    BY DEF LockForSync
  <2>2. CASE quiet' = quiet
    BY <1>5, <2>1, <2>2
  <2>3. ASSUME NEW k, Spend(k)
        PROVE  FALSE
    BY <2>3, SpendDisturbs
  <2>4. CASE ListRows \/ ListZones \/ Refuse \/ LeaveUnchanged \/ EndRun
    BY <2>1, <2>2, <2>4, <1>5
    DEF ListRows, ListZones, Refuse, LeaveUnchanged, EndRun, Local
  <2>9. CASE ResolveIpv4 \/ ResolveHangs \/ CallFails
    BY <2>1, <2>2, <2>3, <2>9, <1>5 DEF ResolveIpv4, ResolveHangs, CallFails
  <2>10. CASE ReleaseLock
    BY <2>1, <2>10, <1>5
  <2>5. ASSUME NEW r \in Rids, \/ SkipStatic(r) \/ CannotPush(r)
                               \/ \E z \in Zones : BeginRecord(r, z)
        PROVE  quiet' = quiet
    BY <2>5 DEF SkipStatic, CannotPush, BeginRecord, Local
  <2>6. CASE ClearStaleId \/ PutOwned \/ PutAdopted \/ Post \/ SaveId
    BY <2>1, <2>2, <2>3, <2>6, <1>5
    DEF ClearStaleId, PutOwned, PutAdopted, Put, Post, SaveId, Answer,
        TimesOut
  <2>7. ASSUME NEW p \in Pids, Adopt(p)
        PROVE  quiet' = quiet
    BY <2>3, <2>7 DEF Adopt, Answer
  <2>8. ASSUME NEW S, ListPage(S) \/ ListLastPage(S)
        PROVE  quiet' = quiet
    BY <2>8 DEF ListPage, ListLastPage
  <2> QED
    BY <1>5, <2>4, <2>5, <2>6, <2>7, <2>8, <2>2, <2>1, <2>9, <2>10
    DEF WorkerStep
<1> QED
  BY <1>1, <1>2, <1>3, <1>4, <1>5 DEF Next

-----------------------------------------------------------------------------
(* The rows behind the run. *)

(* What a run does not change between its rows.                            *)
Frame == /\ run'.acct = run.acct /\ run'.ip = run.ip /\ req' = req
         /\ outcome.error => outcome'.error

(* A step on the row at hand touches no other row and no record of         *)
(* another; and takes from no name a record that had it.                   *)
OwnKey == /\ rows[run.cur].pid # None /\ cf[rows[run.cur].pid] # None
          => cf[rows[run.cur].pid].key = rows[run.cur].key
Touches ==
    /\ \A q \in Rids \ {run.cur} :
          /\ rows'[q] = rows[q]
          /\ rows[q] # None /\ rows[q].pid # None =>
                cf'[rows[q].pid] = cf[rows[q].pid]
    /\ rows'[run.cur] # None /\ rows'[run.cur].key = rows[run.cur].key
    /\ \/ OwnKey
       \/ /\ rows'[run.cur] = rows[run.cur]
          /\ rows[run.cur].pid # None =>
                cf'[rows[run.cur].pid] = cf[rows[run.cur].pid]

(* So no row behind it comes to be alone.                                  *)
LEMMA AloneKept ==
    ASSUME run.cur \in Rids, Touches, NEW r \in Rids \ {run.cur}, Alone(r)'
    PROVE  Alone(r)
<1> SUFFICES ASSUME NEW q \in Rids \ {r}, rows[q] # None
             PROVE  /\ rows[q].key # rows[r].key
                    /\ rows[q].pid # None /\ cf[rows[q].pid] # None =>
                          cf[rows[q].pid].key # rows[r].key
  BY DEF Alone
<1>1. rows'[r] = rows[r]
  BY DEF Touches
<1>2. CASE q # run.cur
  BY <1>1, <1>2 DEF Touches, Alone
<1>3. CASE q = run.cur
  <2>1. rows[q].key # rows[r].key
    BY <1>1, <1>3 DEF Touches, Alone
  <2> QED
    BY <1>1, <1>3, <2>1 DEF Touches, Alone, OwnKey
<1> QED
  BY <1>2, <1>3

(* A row behind the run stays done right.                                  *)
LEMMA BehindKept ==
    ASSUME run.cur \in Rids, Touches, Frame, NEW r \in Rids \ {run.cur},
           DoneRight(r)
    PROVE  DoneRight(r)'
<1>1. /\ rows'[r] = rows[r]
      /\ rows[r] # None /\ rows[r].pid # None =>
            cf'[rows[r].pid] = cf[rows[r].pid]
  BY DEF Touches
<1>2. CASE rows[r] = None
  BY <1>1, <1>2 DEF DoneRight
<1>3. CASE rows[r] # None
  <2>1. InScope(rows[r])' = InScope(rows[r]) /\ ValueOf(rows[r])' = ValueOf(rows[r])
    BY <1>1 DEF Frame, InScope, ValueOf, Dynamic
  <2>2. Unobstructed(r)' => Unobstructed(r)
    BY <1>1, <1>3, <2>1, AloneKept
    DEF Frame, Unobstructed, Pushable, BestZone, IdentityMatches
  <2>3. Synced(r) => Synced(r)'
    BY <1>1, <1>3, <2>1 DEF Synced, Desired
  <2> QED
    BY <1>1, <1>3, <2>1, <2>2, <2>3 DEF DoneRight, Frame
<1> QED
  BY <1>2, <1>3

(* A step that touches neither the table nor the account.                  *)
LEMMA BehindSame ==
    ASSUME rows' = rows, cf' = cf, Frame, NEW r \in Rids
    PROVE  /\ InScope(rows[r])' = InScope(rows[r])
           /\ Unobstructed(r)' = Unobstructed(r)
           /\ DoneRight(r) => DoneRight(r)'
<1>1. InScope(rows[r])' = InScope(rows[r]) /\ ValueOf(rows[r])' = ValueOf(rows[r])
  BY DEF Frame, InScope, ValueOf, Dynamic
<1>2. Unobstructed(r)' = Unobstructed(r)
  BY <1>1 DEF Frame, Unobstructed, Pushable, Alone, BestZone, IdentityMatches
<1>3. Synced(r)' = Synced(r)
  BY <1>1 DEF Synced, Desired
<1> QED
  BY <1>1, <1>2, <1>3 DEF DoneRight, Frame

(* A row of the run goes on, or ends with the row done right.              *)
LEMMA RowKeepsDone ==
    ASSUME pc \in InRecord, NEW c \in Rids, c = run.cur, Touches, Frame, DoneInv,
           run'.todo = run.todo,
           \/ run'.cur = run.cur
           \/ run'.cur = None /\ DoneRight(c)'
    PROVE  DoneInv'
<1> SUFFICES ASSUME NEW r \in Rids, IsDone(r)'
             PROVE  DoneRight(r)'
  BY DEF DoneInv
<1>1. CASE r = run.cur
  BY <1>1 DEF IsDone
<1>2. CASE r # run.cur
  <2>1. IsDone(r)
    BY <1>2 DEF IsDone
  <2> QED
    BY <1>2, <2>1, BehindKept DEF DoneInv
<1> QED
  BY <1>1, <1>2

-----------------------------------------------------------------------------
(* The row at hand. *)

(* What every step on the row at hand starts from.                         *)
LEMMA AtHand ==
    ASSUME IInv, Calm, pc \in InRecord
    PROVE  /\ run.cur \in Rids /\ run.zone \in Zones
           /\ rows[run.cur] # None /\ rows[run.cur] \in Row
           /\ SameConfig(rows[run.cur], CurRow)
           /\ pc \in {"records", "pages", "reconcile"} => rows[run.cur] = CurRow
           /\ CurRow \in Row /\ Want \in Remote
           /\ pc \in Listing
           /\ \A q \in Rids \ {run.cur} :
                 rows[q] # None /\ rows[q].pid # None =>
                    /\ rows[q].pid \in issued
                    /\ rows[q].pid # rows[run.cur].pid
<1>1. TypeOK /\ WorkerInv /\ SnapshotFresh /\ LinkInv /\ ZoneInv
  BY DEF IInv
<1>2. pc \in Listing /\ touched = {}
  BY DEF InRecord, Listing, Calm, Untouched
<1>3. run.cur \in Rids /\ run.zone \in Zones /\ CurRow \in Row /\ Want \in Remote
  BY <1>1, WantType
<1>4. /\ rows[run.cur] # None /\ SameConfig(rows[run.cur], CurRow)
      /\ pc \in {"records", "pages", "reconcile"} => rows[run.cur] = CurRow
  BY <1>1, <1>2, <1>3 DEF SnapshotFresh, WorkerInv, CurRow
<1>5. \A q \in Rids \ {run.cur} :
         rows[q] # None /\ rows[q].pid # None =>
            rows[q].pid \in issued /\ rows[q].pid # rows[run.cur].pid
  BY <1>1, <1>3, <1>4, LinkedRow DEF LinkInv
<1> QED
  BY <1>1, <1>2, <1>3, <1>4, <1>5 DEF TypeOK

(* What is left of the run when the row at hand has failed or is done.     *)
LEMMA RowEndFrame ==
    ASSUME TypeOK, req' = req,
           \/ RowFails
           \/ \E what \in Counters : \E seen : RowDone(what, seen)
    PROVE  /\ pc' = "next" /\ Frame
           /\ run'.todo = run.todo /\ run'.cur = None
           /\ run'.snap = run.snap /\ run'.cached = run.cached
           /\ RowFails => outcome'.error /\ run'.seen = run.seen
<1>1. run \in Run /\ outcome \in Outcome
  BY DEF TypeOK
<1>2. CASE RowFails
  BY <1>1, <1>2 DEF RowFails, NextRow, CountError, Frame, Run, Outcome
<1>3. ASSUME NEW what \in Counters, NEW seen, RowDone(what, seen)
      PROVE  /\ pc' = "next" /\ Frame
             /\ run'.todo = run.todo /\ run'.cur = None
             /\ run'.snap = run.snap /\ run'.cached = run.cached
  BY <1>1, <1>3 DEF RowDone, NextRow, Count, Counters, Frame, Run, Outcome
<1> QED
  BY <1>2, <1>3

(* What the run has not seen stays gone, and the table untouched.          *)
LEMMA HiddenKept ==
    ASSUME IInv, Calm, Next, WorkerStep, pc \in Listing,
           run'.snap = run.snap, run'.cached = run.cached,
           Reached' \subseteq Reached,
           \A p \in Pids : run'.seen[p] = None => run.seen[p] = None
    PROVE  HiddenIsGone' /\ Untouched'
<1>1. touched' = {}
  BY WorkerFrame DEF Calm, Untouched
<1>2. ASSUME NEW r \in Reached, run.snap[r].pid # None,
             cf[run.snap[r].pid] = None
      PROVE  cf'[run.snap[r].pid] = None
  BY <1>2, ReachedRow, GoneForGood
<1>3. ASSUME NEW r \in Reached, run.snap[r].pid # None
      PROVE  run.snap[r].pid \in Pids
  BY <1>3, ReachedRow
<1> QED
  BY <1>1, <1>2, <1>3 DEF Calm, HiddenIsGone, Untouched

(* A row that ends done right, with the listing as true as before.         *)
LEMMA RowEndsCalm ==
    ASSUME IInv, Calm, Next, WorkerStep, pc \in InRecord, pc' = "next",
           Touches, Frame, run'.snap = run.snap, run'.cached = run.cached,
           run'.todo = run.todo, run'.cur = None,
           \A p \in Pids : run'.seen[p] # None => cf'[p] = run'.seen[p],
           \A p \in Pids : run'.seen[p] = None => run.seen[p] = None,
           NEW c \in Rids, c = run.cur, DoneRight(c)'
    PROVE  Calm'
<1>1. DoneInv'
  BY RowKeepsDone DEF Calm
<1>2. HiddenIsGone' /\ Untouched'
  BY HiddenKept DEF Reached, Listing, InRecord
<1> QED
  BY <1>1, <1>2
  DEF Calm, SeenIsTrue, PagesAreTrue, TargetInv, ZoneIsBest, EndInv, InRecord

(* A row that goes on to its next call.                                    *)
LEMMA RowGoesCalm ==
    ASSUME IInv, Calm, pc \in InRecord, pc' \in InRecord, Touches, Frame,
           run'.todo = run.todo, run'.cur = run.cur, run'.zone = run.zone,
           run'.snap = run.snap,
           \A p \in Pids : run'.seen[p] # None => cf'[p] = run'.seen[p],
           Untouched', PagesAreTrue', HiddenIsGone', TargetInv'
    PROVE  Calm'
<1>1. run.cur \in Rids
  BY AtHand
<1>2. DoneInv'
  BY <1>1, RowKeepsDone DEF Calm
<1>3. ZoneIsBest'
  BY DEF Calm, ZoneIsBest, BestZone, CurRow, Frame
<1> QED
  BY <1>2, <1>3 DEF Calm, SeenIsTrue, EndInv, InRecord

(* And has the listing it needs.                                           *)
LEMMA RowWritesCalm ==
    ASSUME IInv, Calm, Next, WorkerStep, pc \in InRecord,
           pc' \in {"create", "save", "fixup"}, Touches, Frame,
           run'.todo = run.todo, run'.cur = run.cur, run'.zone = run.zone,
           run'.snap = run.snap, run'.cached = run.cached,
           run'.seen = run.seen,
           \A p \in Pids : run.seen[p] # None => cf'[p] = run.seen[p],
           TargetInv'
    PROVE  Calm'
<1>1. HiddenIsGone' /\ Untouched'
  BY HiddenKept DEF Reached, Listing, InRecord
<1> QED
  BY <1>1, RowGoesCalm DEF PagesAreTrue, InRecord

(* The row is linked to a record with what the run wants.                  *)
LEMMA NowRight ==
    ASSUME NEW c \in Rids, c = run.cur, NEW p, p # None,
           SameConfig(rows'[c], CurRow),
           rows'[c].pid = p, rows'[c].zone = run.zone,
           cf'[p] = Want, run'.ip = run.ip
    PROVE  DoneRight(c)'
<1>1. ValueOf(rows[c])' = ValueOf(CurRow)
  BY DEF ValueOf, SameConfig
<1>2. Synced(c)'
  BY <1>1 DEF Synced, Want, Desired, SameConfig
<1> QED
  BY <1>2 DEF DoneRight

(* A listed record with the row's identity and content is what the run     *)
(* wants.                                                                  *)
LEMMA MatchIsWant ==
    ASSUME IInv, pc \in InRecord, NEW p \in Pids, Listed(p),
           IdentityMatches(CurRow, run.seen[p]), UpToDate(p)
    PROVE  run.seen[p] = Want
<1>1. run.seen[p] \in Remote
  BY DEF IInv, TypeOK, Run, Listed
<1> QED
  BY <1>1 DEF Listed, IdentityMatches, UpToDate, ContentMatches, Want,
     Desired, Remote

-----------------------------------------------------------------------------
(* The calls of a row, when nothing disturbs them. *)

(* A step on the row at hand that leaves the table and the account alone.  *)
LEMMA TouchesNothing ==
    ASSUME IInv, Calm, pc \in InRecord, rows' = rows, cf' = cf
    PROVE  Touches
BY AtHand DEF Touches

(* A row is refused only when its own record stands in its way.            *)
LEMMA RefuseCalm ==
    ASSUME IInv, Calm, Next, WorkerStep, Refuse, NEW c \in Rids, c = run.cur
    PROVE  Calm'
<1> DEFINE p == CurRow.pid
<1>1. /\ pc = "reconcile" /\ Refused /\ RowFails /\ req' = req
      /\ rows' = rows /\ cf' = cf
  BY DEF Refuse, Local, db, cloud
<1>2. TypeOK /\ WorkerInv /\ pc \in InRecord /\ pc \in Listing
  BY <1>1 DEF IInv, InRecord, Listing
<1>3. /\ pc' = "next" /\ Frame /\ run'.todo = run.todo /\ run'.cur = None
      /\ run'.snap = run.snap /\ run'.cached = run.cached
      /\ outcome'.error /\ run'.seen = run.seen
  BY <1>1, <1>2, RowEndFrame
<1>4. c \in Rids /\ rows[c] = CurRow /\ run.zone \in Zones /\ CurRow \in Row
  BY <1>1, <1>2, AtHand
<1>5. ~Unobstructed(c)
  <2> SUFFICES ASSUME Unobstructed(c) PROVE FALSE
    OBVIOUS
  <2>1. p # None /\ p \in Pids
    BY <1>1, <1>4 DEF Refused, Owned, Row
  <2>2. CASE CurRow.zone # run.zone
    BY <1>2, <1>4, <2>1, <2>2 DEF Unobstructed, Calm, ZoneIsBest
  <2>3. CASE Listed(p) /\ ~IdentityMatches(CurRow, run.seen[p])
    <3>1. cf[p] # None /\ ~IdentityMatches(CurRow, cf[p])
      BY <1>2, <2>1, <2>3 DEF Listed, Calm, SeenIsTrue
    <3> QED
      BY <1>4, <2>1, <3>1 DEF Unobstructed
  <2> QED
    BY <1>1, <2>2, <2>3 DEF Refused
<1>6. DoneRight(c)'
  BY <1>1, <1>3, <1>4, <1>5, BehindSame DEF DoneRight
<1>7. Touches
  BY <1>1, <1>2, TouchesNothing
<1>8. \A q \in Pids : run'.seen[q] # None => cf'[q] = run'.seen[q]
  BY <1>1, <1>2, <1>3 DEF Calm, SeenIsTrue
<1> QED
  BY <1>2, <1>3, <1>4, <1>6, <1>7, <1>8, RowEndsCalm

(* A row left unchanged has the record it asks for.                        *)
LEMMA LeaveCalm ==
    ASSUME IInv, Calm, Next, WorkerStep, LeaveUnchanged, NEW c \in Rids, c = run.cur
    PROVE  Calm'
<1> DEFINE p == CurRow.pid
<1>1. /\ pc = "reconcile" /\ Settled /\ RowDone("unchanged", run.seen)
      /\ req' = req /\ rows' = rows /\ cf' = cf
  BY DEF LeaveUnchanged, Local, db, cloud
<1>2. TypeOK /\ WorkerInv /\ pc \in InRecord /\ pc \in Listing
  BY <1>1 DEF IInv, InRecord, Listing
<1>3. /\ pc' = "next" /\ Frame /\ run'.todo = run.todo /\ run'.cur = None
      /\ run'.snap = run.snap /\ run'.cached = run.cached
  BY <1>1, <1>2, RowEndFrame DEF Counters
<1>4. run'.seen = run.seen
  BY <1>1, <1>2, RowDoneFrame
<1>5. c \in Rids /\ rows[c] = CurRow /\ CurRow \in Row
  BY <1>1, <1>2, AtHand
<1>6. p # None /\ p \in Pids /\ CurRow.zone = run.zone
  BY <1>1, <1>5 DEF Settled, Refused, Owned, Row
<1>7. run.seen[p] = Want
  BY <1>1, <1>2, <1>6, MatchIsWant DEF Settled, Refused
<1>8. cf[p] = Want
  BY <1>1, <1>2, <1>6, <1>7 DEF Settled, Listed, Calm, SeenIsTrue
<1>9. SameConfig(CurRow, CurRow)
  BY DEF SameConfig
<1>10. DoneRight(c)'
  BY <1>1, <1>3, <1>5, <1>6, <1>8, <1>9, NowRight DEF Frame
<1>11. Touches
  BY <1>1, <1>2, TouchesNothing
<1>12. \A q \in Pids : run'.seen[q] # None => cf'[q] = run'.seen[q]
  BY <1>1, <1>2, <1>4 DEF Calm, SeenIsTrue
<1> QED
  BY <1>1, <1>2, <1>3, <1>4, <1>5, <1>10, <1>11, <1>12, RowEndsCalm

(* A push of the row's own record that is answered reaches it.             *)
LEMMA PutCalm ==
    ASSUME IInv, Calm, Next, WorkerStep, pc \in InRecord, NEW p \in Pids, Put(p),
           lock = "sync", quiet',
           rows[run.cur].pid = p, rows[run.cur].zone = run.zone,
           cf[p] # None, cf[p].key = CurRow.key,
           NEW c \in Rids, c = run.cur
    PROVE  Calm'
<1>1. /\ PutRemote(p, Want) /\ RowDone("updated", PushedTo(p))
      /\ rows' = rows /\ req' = req
  BY SpendDisturbs DEF Put, Answer, TimesOut, db
<1>2. TypeOK /\ WorkerInv /\ pc \in Listing
  BY DEF IInv, InRecord, Listing
<1>3. /\ pc' = "next" /\ Frame /\ run'.todo = run.todo /\ run'.cur = None
      /\ run'.snap = run.snap /\ run'.cached = run.cached
  BY <1>1, <1>2, RowEndFrame DEF Counters
<1>4. run'.seen = [run.seen EXCEPT ![p] = Want] /\ cf' = [cf EXCEPT ![p] = Want]
  BY <1>1, <1>2, RowDoneFrame DEF PushedTo, PutRemote
<1>5. /\ c \in Rids /\ rows[c] # None /\ SameConfig(rows[c], CurRow)
      /\ \A q \in Rids \ {c} :
            rows[q] # None /\ rows[q].pid # None => rows[q].pid # rows[c].pid
  BY AtHand
<1>6. cf'[p] = Want /\ p # None /\ Want # None
  BY <1>2, <1>4, AtHand, NoneAssumption DEF TypeOK
<1>7. DoneRight(c)'
  BY <1>1, <1>3, <1>5, <1>6, NowRight DEF Frame
<1>8. Touches
  <2>1. OwnKey
    BY <1>5 DEF OwnKey, SameConfig
  <2>2. \A q \in Rids \ {c} :
           rows[q] # None /\ rows[q].pid # None => cf'[rows[q].pid] = cf[rows[q].pid]
    BY <1>2, <1>4, <1>5 DEF TypeOK, Row
  <2> QED
    BY <1>1, <1>5, <2>1, <2>2 DEF Touches
<1>9. \A q \in Pids : /\ run'.seen[q] # None => cf'[q] = run'.seen[q]
                      /\ run'.seen[q] = None => run.seen[q] = None
  BY <1>2, <1>4, <1>6 DEF Calm, SeenIsTrue, TypeOK, Run
<1> QED
  BY <1>2, <1>3, <1>5, <1>7, <1>8, <1>9, RowEndsCalm

(* The push of an owned and of an adopted record is such a push.           *)
LEMMA PutsCalm ==
    ASSUME IInv, Calm, Next, WorkerStep, PutOwned \/ PutAdopted, lock = "sync", quiet'
    PROVE  Calm'
<1>1. TypeOK /\ WorkerInv
  BY DEF IInv
<1>2. CASE PutOwned
  <2> DEFINE p == CurRow.pid
  <2>1. /\ pc = "reconcile" /\ Owned /\ ~Refused /\ Listed(p) /\ Put(p)
        /\ p \in Pids /\ rows[run.cur] = CurRow
        /\ pc \in InRecord /\ pc \in Listing
    BY <1>1, <1>2, AtHand DEF PutOwned, Listed, InRecord, Listing
  <2>2. cf[p] = run.seen[p] /\ cf[p] # None
    BY <2>1 DEF Listed, Calm, SeenIsTrue
  <2>3. CurRow.zone = run.zone /\ cf[p].key = CurRow.key
    BY <2>1, <2>2 DEF Refused, IdentityMatches
  <2> QED
    BY <2>1, <2>2, <2>3, PutCalm, AtHand
<1>3. CASE PutAdopted
  <2>1. /\ pc = "fixup" /\ Put(run.target) /\ run.target \in Pids
        /\ pc \in InRecord
    BY <1>1, <1>3 DEF PutAdopted, WorkerInv, TypeOK, Run, InRecord
  <2> QED
    BY <2>1, PutCalm, AtHand DEF Calm, TargetInv
<1> QED
  BY <1>2, <1>3

(* Writing a link changes nothing else of the row at hand, nor the         *)
(* account.                                                                *)
LEMMA LinkTouches ==
    ASSUME IInv, Calm, pc \in InRecord, cf' = cf, OwnKey,
           NEW z \in Zones \cup {None}, NEW p \in Pids \cup {None},
           SetProviderId(run.cur, z, p), NEW c \in Rids, c = run.cur
    PROVE  /\ Touches
           /\ rows'[c].pid = p /\ rows'[c].zone = z
           /\ SameConfig(rows'[c], CurRow)
<1> DEFINE new == [rows[c] EXCEPT !.zone = z, !.pid = p]
<1>1. /\ rows[c] # None /\ rows[c] \in Row /\ SameConfig(rows[c], CurRow)
      /\ rows \in [Rids -> Row \cup {None}]
  BY AtHand DEF IInv, TypeOK
<1>2. /\ new \in Row /\ new.pid = p /\ new.zone = z
      /\ SameConfig(new, CurRow) /\ new.key = rows[c].key
  BY <1>1 DEF Row, SameConfig
<1>3. rows' = [rows EXCEPT ![c] = new]
  BY DEF SetProviderId
<1> HIDE DEF new
<1>4. rows'[c] = new /\ \A q \in Rids \ {c} : rows'[q] = rows[q]
  BY <1>1, <1>3
<1> QED
  BY <1>1, <1>2, <1>4, NoneAssumption DEF Touches

(* A row that adopts a record either has all it asks for, or goes on to    *)
(* push it; only another row's link can forbid the adoption.               *)
LEMMA AdoptCalm ==
    ASSUME IInv, Calm, Next, WorkerStep, NEW p \in Pids, Adopt(p), lock = "sync", quiet',
           NEW c \in Rids, c = run.cur
    PROVE  Calm'
<1>1. /\ pc = "reconcile" /\ ~Owned /\ p \in Candidates /\ req' = req
      /\ cf' = cf /\ pc \in InRecord /\ pc \in Listing
  BY DEF Adopt, cloud, InRecord, Listing
<1>2. TypeOK /\ WorkerInv
  BY DEF IInv
<1>3. /\ rows[c] = CurRow /\ rows[c] # None /\ rows[c].pid = None
      /\ run.zone \in Zones /\ SameConfig(CurRow, CurRow) /\ p # None
  BY <1>1, <1>2, AtHand, NoneAssumption DEF Owned, SameConfig
<1>4. /\ Listed(p) /\ IdentityMatches(CurRow, run.seen[p])
      /\ cf[p] = run.seen[p] /\ cf[p] # None /\ cf[p].key = CurRow.key
  BY <1>1, <1>2 DEF Candidates, Listed, IdentityMatches, Calm, SeenIsTrue
<1>5. OwnKey
  BY <1>3 DEF OwnKey
<1>6. \A q \in Pids : run.seen[q] # None => cf'[q] = run.seen[q]
  BY <1>1 DEF Calm, SeenIsTrue
<1>7. CASE CanLink(c, run.zone, p) /\ SetProviderId(run.cur, run.zone, p)
  <2>1. /\ Touches /\ rows'[c].pid = p /\ rows'[c].zone = run.zone
        /\ SameConfig(rows'[c], CurRow)
    BY <1>1, <1>3, <1>5, <1>7, LinkTouches
  <2>2. CASE UpToDate(p) /\ RowDone("unchanged", run.seen)
    <3>1. /\ pc' = "next" /\ Frame /\ run'.todo = run.todo
          /\ run'.cur = None /\ run'.snap = run.snap
          /\ run'.cached = run.cached
      BY <1>1, <1>2, <2>2, RowEndFrame DEF Counters
    <3>2. run'.seen = run.seen
      BY <1>2, <2>2, RowDoneFrame
    <3>3. cf'[p] = Want
      BY <1>1, <1>4, <2>2, MatchIsWant
    <3>4. DoneRight(c)'
      BY <1>3, <2>1, <3>1, <3>3, NowRight DEF Frame
    <3> QED
      BY <1>1, <1>6, <2>1, <3>1, <3>2, <3>4, RowEndsCalm
  <2>3. CASE pc' = "fixup" /\ run' = [run EXCEPT !.target = p] /\ UNCHANGED outcome
    <3>1. /\ run'.todo = run.todo /\ run'.cur = run.cur /\ run'.zone = run.zone
          /\ run'.snap = run.snap /\ run'.seen = run.seen /\ run'.target = p
          /\ run'.acct = run.acct /\ run'.ip = run.ip
          /\ run'.cached = run.cached
      BY <1>2, <2>3 DEF TypeOK, Run
    <3>2. Frame
      BY <1>1, <2>3, <3>1 DEF Frame
    <3>3. TargetInv'
      BY <1>1, <1>4, <2>1, <2>3, <3>1 DEF TargetInv, CurRow
    <3> QED
      BY <1>1, <1>6, <2>1, <2>3, <3>1, <3>2, <3>3, RowWritesCalm
  <2> QED
    BY <1>7, <2>2, <2>3, SpendDisturbs DEF Adopt, Answer
<1>8. CASE ~CanLink(c, run.zone, p) /\ RowFails /\ rows' = rows
  <2>1. /\ pc' = "next" /\ Frame /\ run'.todo = run.todo /\ run'.cur = None
        /\ run'.snap = run.snap /\ run'.cached = run.cached
        /\ outcome'.error /\ run'.seen = run.seen
    BY <1>1, <1>2, <1>8, RowEndFrame
  <2>2. PICK q \in Rids : rows[q] # None /\ rows[q].pid = p
    BY <1>3, <1>8 DEF CanLink
  <2>3. ~Alone(c)
    BY <1>3, <1>4, <2>2 DEF Alone
  <2>4. DoneRight(c)'
    BY <1>1, <1>8, <2>1, <2>3, BehindSame DEF DoneRight, Unobstructed
  <2> QED
    BY <1>1, <1>6, <1>8, <2>1, <2>4, TouchesNothing, RowEndsCalm
<1> QED
  BY <1>7, <1>8 DEF Adopt

(* A record that is created and answered is what the run wants.            *)
LEMMA PostCalm ==
    ASSUME IInv, Calm, Next, WorkerStep, Post, lock = "sync", quiet',
           NEW c \in Rids, c = run.cur
    PROVE  Calm'
<1>1. pc \in InRecord /\ pc \in Listing /\ rows' = rows /\ req' = req
  BY DEF Post, InRecord, Listing, db
<1>2. TypeOK /\ ZoneInv
  BY DEF IInv
<1>3. PICK p \in Pids : /\ PostRemote(p, Want, run.cur) /\ pc' = "save"
                        /\ run' = [run EXCEPT !.target = p]
                        /\ UNCHANGED outcome
  BY SpendDisturbs DEF Post, Answer, TimesOut
<1>4. /\ run'.todo = run.todo /\ run'.cur = run.cur /\ run'.zone = run.zone
      /\ run'.snap = run.snap /\ run'.seen = run.seen /\ run'.target = p
      /\ run'.acct = run.acct /\ run'.ip = run.ip
      /\ run'.cached = run.cached
  BY <1>2, <1>3 DEF TypeOK, Run
<1>5. Frame
  BY <1>1, <1>3, <1>4 DEF Frame
<1>6. p \notin issued /\ cf' = [cf EXCEPT ![p] = Want] /\ cf'[p] = Want
  BY <1>2, <1>3 DEF PostRemote, TypeOK
<1>7. run.seen[p] = None
  <2> SUFFICES ASSUME run.seen[p] # None PROVE FALSE
    OBVIOUS
  <2>1. run.seen[p].zone \in Zones
    BY <1>2 DEF TypeOK, Run, Remote
  <2> QED
    BY <1>2, <1>6, <2>1 DEF ZoneInv, Mentioned
<1>8. \A q \in Pids : run.seen[q] # None => cf'[q] = run.seen[q]
  BY <1>1, <1>2, <1>6, <1>7 DEF Calm, SeenIsTrue, TypeOK
<1>9. Touches
  <2>1. \A q \in Rids : rows[q] # None /\ rows[q].pid # None =>
                            cf'[rows[q].pid] = cf[rows[q].pid]
    <3> SUFFICES ASSUME NEW q \in Rids, rows[q] # None, rows[q].pid # None
                 PROVE  cf'[rows[q].pid] = cf[rows[q].pid]
      OBVIOUS
    <3>1. rows[q].pid \in issued /\ rows[q].pid \in Pids
      BY <1>2, LinkedRow DEF IInv, TypeOK
    <3> QED
      BY <1>2, <1>6, <3>1 DEF TypeOK
  <2> QED
    BY <1>1, <2>1, AtHand DEF Touches
<1>10. Want' = Want
  BY <1>4 DEF Want, CurRow, ValueOf
<1>11. TargetInv'
  <2>1. rows[c].pid = None
    BY AtHand, <1>1 DEF Post, Owned, Calm, TargetInv
  <2>2. \A q \in Rids : rows[q] # None => rows[q].pid # p
    BY <1>2, <1>6, LinkedRow, NoneAssumption DEF IInv
  <2> QED
    BY <1>1, <1>3, <1>4, <1>6, <1>10, <2>1, <2>2 DEF TargetInv
<1> QED
  BY <1>1, <1>3, <1>4, <1>5, <1>8, <1>9, <1>11, RowWritesCalm

(* A created record whose id is saved is the row's.                        *)
LEMMA SaveCalm ==
    ASSUME IInv, Calm, Next, WorkerStep, SaveId, lock = "sync", quiet',
           NEW c \in Rids, c = run.cur
    PROVE  Calm'
<1> DEFINE p == run.target
<1>0. /\ pc = "save" /\ pc \in InRecord /\ pc \in Listing
      /\ CanLink(run.cur, run.zone, p)
  BY AtHand DEF SaveId, CanLink, Calm, TargetInv, InRecord, Listing
<1>1. /\ pc = "save" /\ CanLink(run.cur, run.zone, p)
      /\ SetProviderId(run.cur, run.zone, p)
      /\ RowDone("created", PushedTo(p))
      /\ req' = req /\ cf' = cf /\ pc \in InRecord /\ pc \in Listing
  BY <1>0, SpendDisturbs DEF SaveId, Answer, cloud
<1>2. TypeOK /\ WorkerInv /\ p \in Pids /\ p # None /\ run.zone \in Zones
  BY <1>1, AtHand DEF IInv, WorkerInv, TypeOK, Run
<1>3. OwnKey
  BY <1>1 DEF CanLink, OwnKey
<1>4. /\ Touches /\ rows'[c].pid = p /\ rows'[c].zone = run.zone
      /\ SameConfig(rows'[c], CurRow)
  BY <1>1, <1>2, <1>3, LinkTouches
<1>5. /\ pc' = "next" /\ Frame /\ run'.todo = run.todo /\ run'.cur = None
      /\ run'.snap = run.snap /\ run'.cached = run.cached
  BY <1>1, <1>2, RowEndFrame DEF Counters
<1>6. run'.seen = [run.seen EXCEPT ![p] = Want]
  BY <1>1, <1>2, RowDoneFrame DEF PushedTo
<1>7. cf'[p] = Want /\ Want # None
  BY <1>1, AtHand, NoneAssumption DEF Calm, TargetInv
<1> HIDE DEF p
<1>8. DoneRight(c)'
  BY <1>2, <1>4, <1>5, <1>7, NowRight DEF Frame
<1>9. \A q \in Pids : /\ run'.seen[q] # None => cf'[q] = run'.seen[q]
                      /\ run'.seen[q] = None => run.seen[q] = None
  BY <1>1, <1>2, <1>6, <1>7 DEF Calm, SeenIsTrue, TypeOK, Run
<1> QED
  BY <1>1, <1>4, <1>5, <1>8, <1>9, RowEndsCalm

(* A stale link that is cleared named a record that is gone.               *)
LEMMA ClearCalm ==
    ASSUME IInv, Calm, Next, WorkerStep, ClearStaleId, lock = "sync", quiet',
           NEW c \in Rids, c = run.cur
    PROVE  Calm'
<1>1. /\ pc = "reconcile" /\ Owned /\ ~Refused /\ ~Listed(CurRow.pid)
      /\ req' = req /\ cf' = cf /\ pc \in InRecord /\ pc \in Listing
  BY DEF ClearStaleId, cloud, InRecord, Listing
<1>2. rows[c] = CurRow /\ rows[c] # None /\ rows[c].pid # None
  BY <1>1, AtHand DEF Owned
<1>3. /\ SetProviderId(run.cur, None, None)
      /\ pc' = "create" /\ UNCHANGED <<run, outcome>>
  BY <1>2, SpendDisturbs DEF ClearStaleId, Answer
<1>4. cf[rows[c].pid] = None
  <2> DEFINE p == CurRow.pid
  <2>1. c \in Reached /\ CurRow.zone = run.zone /\ run.zone \in run.cached
    BY <1>1 DEF Reached, Refused, IInv, WorkerInv, InRecord
  <2>2. /\ p \in Pids /\ run.zone \in Zones /\ Mentioned(p, run.zone)
    BY <1>1, <1>2, <2>1, ReachedRow DEF CurRow
  <2>3. run.seen[p] = None
    <3> SUFFICES ASSUME run.seen[p] # None PROVE FALSE
      OBVIOUS
    <3>1. run.seen[p].zone \in Zones /\ run.seen[p].zone # run.zone
      BY <1>1, <2>2 DEF Listed, IInv, TypeOK, Run, Remote
    <3>2. Mentioned(p, run.seen[p].zone)
      BY DEF Mentioned
    <3> QED
      BY <2>2, <3>1, <3>2 DEF IInv, ZoneInv
  <2> QED
    BY <1>1, <1>2, <2>1, <2>3 DEF Calm, HiddenIsGone, CurRow
<1>5. OwnKey
  BY <1>4 DEF OwnKey
<1>6. Touches /\ rows'[c].pid = None
  BY <1>1, <1>3, <1>5, LinkTouches
<1>7. Frame /\ TargetInv'
  BY <1>1, <1>3, <1>6 DEF Frame, TargetInv
<1>8. \A q \in Pids : run.seen[q] # None => cf'[q] = run.seen[q]
  BY <1>1 DEF Calm, SeenIsTrue
<1> QED
  BY <1>1, <1>3, <1>6, <1>7, <1>8, RowWritesCalm

-----------------------------------------------------------------------------
(* The list of rows, when nothing disturbs the run. *)

(* Before the first row nothing is behind the run but rows that are not    *)
(* there.                                                                  *)
LEMMA EarlyCalm ==
    ASSUME IInv, AcctInv, Calm, Next, WorkerStep,
           ListRows \/ ResolveIpv4 \/ ListZones
    PROVE  Calm'
<1> TypeOK /\ WorkerInv /\ SnapshotFresh
  BY DEF IInv
<1>1. cf' = cf /\ rows' = rows
  BY DEF ListRows, ResolveIpv4, ListZones, Local, cloud, db
<1>2. CASE ListRows
  <2>1. /\ run'.seen = NoRemotes /\ run'.cur = None
        /\ run'.todo = {r \in Rids : rows[r] # None}
        /\ pc' \in {"finish", "resolve", "zones"}
        /\ pc' = "finish" => run'.todo = {}
        /\ run'.cached = {} /\ touched' = {}
    BY <1>2 DEF ListRows, WorkerInv, NoRun
  <2>2. SeenIsTrue'
    BY <2>1 DEF SeenIsTrue, NoRemotes
  <2>3. DoneInv'
    BY <1>1, <2>1 DEF DoneInv, IsDone, DoneRight
  <2> QED
    BY <2>1, <2>2, <2>3
    DEF Calm, Untouched, PagesAreTrue, HiddenIsGone, TargetInv, ZoneIsBest,
        EndInv, InRecord
<1>3. CASE ResolveIpv4 \/ ListZones
  <2>1. /\ run'.seen = run.seen /\ run'.cur = run.cur
        /\ run'.todo = run.todo /\ pc \in {"resolve", "zones"}
        /\ run'.snap = run.snap /\ run'.cached = run.cached
        /\ pc' \in {"zones", "next"}
    BY <1>3 DEF ResolveIpv4, ListZones, TypeOK, Run
  <2>2. SeenIsTrue'
    BY <1>1, <2>1 DEF Calm, SeenIsTrue, Listing
  <2>3. \A r \in Rids : r \notin run.todo => rows'[r] = None
    BY <1>1, <2>1
    DEF AcctInv, SnapRows, SnapshotFresh, Listing, Calm, Untouched
  <2>4. DoneInv'
    BY <2>1, <2>3 DEF DoneInv, IsDone, DoneRight
  <2>5. HiddenIsGone' /\ Untouched'
    BY <2>1, HiddenKept DEF Reached, Listing
  <2> QED
    BY <2>1, <2>2, <2>4, <2>5
    DEF Calm, PagesAreTrue, TargetInv, ZoneIsBest, EndInv, InRecord
<1> QED
  BY <1>2, <1>3

(* A row that is passed over is out of scope or cannot be pushed.          *)
LEMMA PassCalm ==
    ASSUME IInv, AcctInv, Calm, Next, WorkerStep,
           NEW r \in Rids, SkipStatic(r) \/ CannotPush(r)
    PROVE  Calm'
<1> TypeOK /\ WorkerInv /\ SnapshotFresh
  BY DEF IInv
<1>1. /\ cf' = cf /\ rows' = rows /\ req' = req /\ run.cur = None
      /\ pc = "next" /\ pc' = "next" /\ r \in run.todo
      /\ run'.seen = run.seen /\ run'.cur = run.cur
      /\ run'.todo = run.todo \ {r} /\ run'.acct = run.acct
      /\ run'.ip = run.ip /\ run'.snap = run.snap
      /\ run'.cached = run.cached
  BY DEF SkipStatic, CannotPush, Local, cloud, db, AcctInv, TypeOK, Run
<1>2. Frame /\ (CannotPush(r) => outcome'.error)
  BY <1>1 DEF SkipStatic, CannotPush, Count, CountError, Frame, TypeOK,
     Outcome
<1>3. rows[r] = run.snap[r]
  BY <1>1 DEF SnapshotFresh, Listing, Calm, Untouched
<1>4. DoneRight(r)'
  <2>1. CASE SkipStatic(r)
    <3>1. ~InScope(rows[r])
      BY <1>3, <2>1 DEF SkipStatic
    <3> QED
      BY <1>1, <1>2, <3>1, BehindSame DEF DoneRight
  <2>2. CASE CannotPush(r)
    <3>1. ~Unobstructed(r)
      BY <1>3, <2>2 DEF CannotPush, Unobstructed, Pushable
    <3> QED
      BY <1>1, <1>2, <2>2, <3>1, BehindSame DEF DoneRight
  <2> QED
    BY <2>1, <2>2
<1>5. DoneInv'
  <2> SUFFICES ASSUME NEW q \in Rids, IsDone(q)', q # r
               PROVE  DoneRight(q)'
    BY <1>4 DEF DoneInv
  <2>1. IsDone(q)
    BY <1>1 DEF IsDone
  <2> QED
    BY <1>1, <1>2, <2>1, BehindSame DEF Calm, DoneInv
<1>6. HiddenIsGone' /\ Untouched'
  BY <1>1, HiddenKept DEF Reached, Listing
<1> QED
  BY <1>1, <1>5, <1>6
  DEF Calm, SeenIsTrue, PagesAreTrue, TargetInv, ZoneIsBest, EndInv, InRecord,
      Listing

(* A row begins in its best zone, and its zone's records are as listed.    *)
LEMMA BeginCalm ==
    ASSUME IInv, AcctInv, Calm, Next, WorkerStep, NEW r \in Rids,
           NEW z \in Zones, BeginRecord(r, z)
    PROVE  Calm'
<1> TypeOK /\ WorkerInv
  BY DEF IInv
<1>1. /\ cf' = cf /\ rows' = rows /\ req' = req /\ outcome' = outcome
      /\ pc = "next" /\ pc' \in {"records", "reconcile"} /\ r \in run.todo
      /\ run'.seen = run.seen /\ run'.cur = r /\ run'.zone = z
      /\ run'.todo = run.todo \ {r} /\ run'.acct = run.acct
      /\ run'.ip = run.ip /\ run'.snap = run.snap /\ run.cur = None
      /\ run'.cached = run.cached
  BY DEF BeginRecord, Local, cloud, db, AcctInv, TypeOK, Run
<1>2. Frame
  BY <1>1 DEF Frame
<1>3. ZoneIsBest'
  BY <1>1 DEF BeginRecord, ZoneIsBest, BestZone, CurRow
<1>4. DoneInv'
  <2> SUFFICES ASSUME NEW q \in Rids, IsDone(q)'
               PROVE  DoneRight(q)'
    BY DEF DoneInv
  <2>1. IsDone(q)
    BY <1>1, NoneAssumption DEF IsDone
  <2> QED
    BY <1>1, <1>2, <2>1, BehindSame DEF Calm, DoneInv
<1>5. HiddenIsGone' /\ Untouched'
  BY <1>1, HiddenKept DEF Reached, Listing
<1> QED
  BY <1>1, <1>3, <1>4, <1>5
  DEF Calm, SeenIsTrue, PagesAreTrue, TargetInv, EndInv, Listing

(* A page shows what is there, and the pages together all that was there   *)
(* when the first one was read.                                            *)
LEMMA PageCalm ==
    ASSUME IInv, Calm, Next, WorkerStep, NEW S \in SUBSET InZoneNow,
           ListPage(S) \/ ListLastPage(S)
    PROVE  Calm'
<1> TypeOK /\ WorkerInv
  BY DEF IInv
<1>1. /\ cf' = cf /\ rows' = rows /\ req' = req /\ outcome' = outcome
      /\ pc \in {"records", "pages"} /\ pc' \in {"pages", "reconcile"}
      /\ run'.cur = run.cur /\ run'.zone = run.zone
      /\ run'.todo = run.todo /\ run'.acct = run.acct
      /\ run'.ip = run.ip /\ run'.snap = run.snap
      /\ Reached' = Reached
  BY DEF ListPage, ListLastPage, db, TypeOK, Run, Reached
<1>2. Touches /\ Frame /\ TargetInv'
  BY <1>1, TouchesNothing DEF Frame, TargetInv, InRecord
<1>3. \A p \in Pids : GotWith(S)[p] # None => cf[p] = GotWith(S)[p]
  BY DEF Calm, PagesAreTrue, IInv, WorkerInv, NoRemotes, GotWith
<1>4. CASE ListPage(S)
  <2>1. /\ run'.got = GotWith(S) /\ run'.seen = run.seen
        /\ run'.cached = run.cached /\ pc' = "pages" /\ ~shifted'
    BY <1>1, <1>4 DEF ListPage, TypeOK, Run, Calm, PagesAreTrue
  <2>2. PagesAreTrue'
    BY <1>1, <1>3, <2>1 DEF PagesAreTrue
  <2>3. HiddenIsGone' /\ Untouched'
    BY <1>1, <2>1, HiddenKept DEF Listing
  <2>4. \A p \in Pids : run'.seen[p] # None => cf'[p] = run'.seen[p]
    BY <1>1, <2>1 DEF Calm, SeenIsTrue, Listing
  <2> QED
    BY <1>1, <1>2, <2>1, <2>2, <2>3, <2>4, RowGoesCalm DEF InRecord
<1>5. CASE ListLastPage(S)
  <2>1. /\ pc' = "reconcile" /\ run'.cached = run.cached \cup {run.zone}
        /\ \A p \in Pids : run'.seen[p] = IF GotWith(S)[p] # None
                                          THEN GotWith(S)[p] ELSE run.seen[p]
        /\ LeftOut(S) = {}
    BY <1>5 DEF ListLastPage, TypeOK, Run, Calm, PagesAreTrue
  <2>2. PagesAreTrue' /\ Untouched'
    BY <1>1, <2>1, WorkerFrame DEF PagesAreTrue, Calm, Untouched, Listing
  <2>3. \A p \in Pids : run'.seen[p] # None => cf'[p] = run'.seen[p]
    BY <1>1, <1>3, <2>1 DEF Calm, SeenIsTrue, Listing
  <2>4. HiddenIsGone'
    <3> SUFFICES ASSUME NEW r \in Reached, run.snap[r].pid # None,
                        run.snap[r].zone \in run'.cached,
                        run'.seen[run.snap[r].pid] = None
                 PROVE  cf[run.snap[r].pid] = None
      BY <1>1 DEF HiddenIsGone
    <3>1. run.snap[r].pid \in Pids
      BY <1>1, ReachedRow DEF Listing
    <3>2. /\ GotWith(S)[run.snap[r].pid] = None
          /\ run.seen[run.snap[r].pid] = None
      BY <2>1, <3>1
    <3>3. CASE run.snap[r].zone = run.zone
      BY <1>1, <2>1, <3>2, <3>3, PageShows DEF LeftOut
    <3>4. CASE run.snap[r].zone \in run.cached
      BY <1>1, <3>2, <3>4 DEF Calm, HiddenIsGone, Listing
    <3> QED
      BY <2>1, <3>3, <3>4
  <2> QED
    BY <1>1, <1>2, <2>1, <2>2, <2>3, <2>4, RowGoesCalm DEF InRecord
<1> QED
  BY <1>4, <1>5

(* At the end every row is behind the run.                                 *)
LEMMA EndCalm ==
    ASSUME IInv, AcctInv, Calm, EndRun
    PROVE  Calm'
<1>1. /\ cf' = cf /\ rows' = rows /\ req' = req /\ outcome' = outcome
      /\ pc = "next" /\ pc' = "finish" /\ run' = run
      /\ run.todo = {} /\ run.cur = None
  BY DEF EndRun, Local, cloud, db, AcctInv
<1>2. DoneInv'
  <2> SUFFICES ASSUME NEW q \in Rids, IsDone(q)'
               PROVE  DoneRight(q)'
    BY DEF DoneInv
  <2>1. IsDone(q) /\ Frame
    BY <1>1 DEF IsDone, Frame
  <2> QED
    BY <1>1, <2>1, BehindSame DEF Calm, DoneInv
<1> QED
  BY <1>1, <1>2
  DEF Calm, Untouched, SeenIsTrue, PagesAreTrue, HiddenIsGone, TargetInv,
      ZoneIsBest, EndInv, InRecord, Listing

-----------------------------------------------------------------------------
(* A run that nothing disturbs stays calm.                                 *)
LEMMA CalmStep ==
    ASSUME IInv, AcctInv, CalmInv, Next
    PROVE  CalmInv'
<1>1. CASE pc' \in {"idle", "lock", "list"}
  BY <1>1 DEF CalmInv, Calm, Untouched, SeenIsTrue, PagesAreTrue,
     HiddenIsGone, TargetInv, ZoneIsBest, DoneInv, IsDone, EndInv, InRecord,
     Listing
<1>2. CASE lock # "sync"
  <2>1. pc \in {"idle", "lock"}
    BY <1>2 DEF IInv, LockInv, TypeOK
  <2>2. CASE Requests \/ WorkerStep
    <3>1. CASE Requests \/ LockForSync
      BY <1>1, <2>1, <3>1 DEF Requests, TakeRequest, LockForSync, StartRun
    <3>2. WorkerStep => LockForSync
      <4>1. /\ ~(ListRows \/ ResolveIpv4 \/ ResolveHangs \/ ListZones)
            /\ ~(EndRun \/ ReleaseLock \/ CallFails)
            /\ \A S \in SUBSET InZoneNow : ~(ListPage(S) \/ ListLastPage(S))
        BY <2>1 DEF ListRows, ResolveIpv4, ResolveHangs, ListZones, ListPage,
           ListLastPage, EndRun, ReleaseLock, CallFails, InRecord
      <4>2. /\ ~(Refuse \/ LeaveUnchanged \/ ClearStaleId \/ PutOwned)
            /\ ~(PutAdopted \/ Post \/ SaveId)
            /\ \A p \in Pids : ~Adopt(p)
        BY <2>1 DEF Refuse, LeaveUnchanged, ClearStaleId, PutOwned,
           PutAdopted, Post, SaveId, Adopt
      <4>3. \A r \in Rids : /\ ~(SkipStatic(r) \/ CannotPush(r))
                            /\ \A z \in Zones : ~BeginRecord(r, z)
        BY <2>1 DEF SkipStatic, CannotPush, BeginRecord
      <4> QED
        BY <4>1, <4>2, <4>3 DEF WorkerStep
    <3> QED
      BY <2>2, <3>1, <3>2
  <2>3. CASE Mutations \/ DeleteStep \/ Environment
    <3>1. pc' \in {"idle", "lock"}
      BY <2>1, <2>3, Outsider DEF Crash, Landing, worker
    <3> QED
      BY <1>1, <3>1
  <2> QED
    BY <2>2, <2>3 DEF Next
<1>3. CASE lock = "sync"
  <2> SUFFICES ASSUME quiet' PROVE Calm'
    BY DEF CalmInv
  <2>9. CASE ReleaseLock
    BY <1>1, <2>9 DEF ReleaseLock, CalmInv
  <2> SUFFICES ASSUME ~ReleaseLock PROVE Calm'
    BY <2>9
  <2>1. WorkerStep /\ ~LockForSync /\ Calm
    BY <1>3, OnlyWorker DEF CalmInv
  <2>2. pc \in InRecord => run.cur \in Rids
    BY <2>1, AtHand
  <2>3. CASE ListRows \/ ResolveIpv4 \/ ListZones \/ EndRun
    BY <2>1, <2>3, EarlyCalm, EndCalm
  <2>4. ASSUME NEW r \in Rids,
               \/ SkipStatic(r) \/ CannotPush(r)
               \/ \E z \in Zones : BeginRecord(r, z)
        PROVE  Calm'
    BY <2>1, <2>4, PassCalm, BeginCalm
  <2>5. CASE Refuse \/ LeaveUnchanged \/ PutOwned \/ PutAdopted
    BY <1>3, <2>1, <2>2, <2>5, RefuseCalm, LeaveCalm, PutsCalm
    DEF Refuse, LeaveUnchanged, InRecord
  <2>6. CASE ClearStaleId \/ Post \/ SaveId
    BY <1>3, <2>1, <2>2, <2>6, ClearCalm, PostCalm, SaveCalm
    DEF ClearStaleId, Post, SaveId, InRecord
  <2>7. ASSUME NEW p \in Pids, Adopt(p)
        PROVE  Calm'
    BY <1>3, <2>1, <2>2, <2>7, AdoptCalm DEF Adopt, InRecord
  <2>8. ~CallFails /\ ~ResolveHangs
    BY <1>3, SpendDisturbs DEF CallFails, ResolveHangs
  <2>10. ASSUME NEW S \in SUBSET InZoneNow, ListPage(S) \/ ListLastPage(S)
         PROVE  Calm'
    BY <2>1, <2>10, PageCalm
  <2> QED
    BY <2>1, <2>3, <2>4, <2>5, <2>6, <2>7, <2>8, <2>10 DEF WorkerStep
<1> QED
  BY <1>2, <1>3

(* The calm of a run is an invariant.                                      *)
LEMMA CalmInvariant == Spec => []CalmInv
<1>1. Init => AcctInv /\ CalmInv
  <2> SUFFICES ASSUME Init PROVE AcctInv /\ CalmInv
    OBVIOUS
  <2>1. AcctInv
    BY AcctInit
  <2>2. CalmInv
    BY DEF Init, CalmInv, Calm, Untouched, SeenIsTrue, PagesAreTrue,
       HiddenIsGone, TargetInv, ZoneIsBest, DoneInv, IsDone, EndInv, InRecord,
       Listing
  <2> QED
    BY <2>1, <2>2
<1>2. IInv /\ AcctInv /\ CalmInv /\ [Next]_vars => (AcctInv /\ CalmInv)'
  <2> SUFFICES ASSUME IInv, AcctInv, CalmInv, [Next]_vars
               PROVE  AcctInv' /\ CalmInv'
    OBVIOUS
  <2>1. CASE Next
    BY <2>1, AcctStep, CalmStep
  <2>2. CASE UNCHANGED vars
    <3>1. AcctInv'
      BY <2>2, AcctStutter
    <3>2. \A r \in Rids : DoneRight(r)' = DoneRight(r)
      BY <2>2 DEF vars, DoneRight, Synced, Unobstructed, Pushable, Alone,
         InScope, ValueOf, Dynamic
    <3>3. CalmInv'
      BY <2>2, <3>2 DEF vars, CalmInv, Calm, Untouched, SeenIsTrue,
         PagesAreTrue, HiddenIsGone, Reached, TargetInv, Want, CurRow,
         ValueOf, ZoneIsBest, DoneInv, IsDone, EndInv
    <3> QED
      BY <3>1, <3>3
  <2> QED
    BY <2>1, <2>2
<1> QED
  BY <1>1, <1>2, Inductive, PTL DEF Spec

(* A run that reports no error and that nothing disturbed has left every   *)
(* row in its scope linked to a record with the row's content.             *)
THEOREM SuccessMeansSynced == Spec => []SuccessIsSynced
<1>1. IInv /\ CalmInv => SuccessIsSynced
  BY NoneAssumption DEF CalmInv, Calm, EndInv, DoneInv, IsDone, DoneRight,
     SuccessIsSynced
<1> QED
  BY <1>1, Inductive, CalmInvariant, PTL

(* An undisturbed run, whatever errors it counts, pushes every row that it *)
(* can push and that nothing on Cloudflare stands in the way of.           *)
THEOREM CalmPushes == Spec => []CalmRunPushes
<1>1. IInv /\ CalmInv => CalmRunPushes
  BY NoneAssumption DEF CalmInv, Calm, EndInv, DoneInv, IsDone, DoneRight, CalmRunPushes,
     Unobstructed, Pushable
<1> QED
  BY <1>1, Inductive, CalmInvariant, PTL

=============================================================================
