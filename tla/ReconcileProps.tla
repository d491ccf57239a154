-------------------------- MODULE ReconcileProps --------------------------
(* What the reconciler must do: its types, its safety, its purpose, and    *)
(* the invariant that the proofs of ReconcileProofs rest on.               *)
EXTENDS Reconcile

Counters == {"created", "updated", "unchanged", "failed"}
Listing == {"resolve", "hung", "zones", "next", "records", "pages",
            "reconcile", "create", "save", "fixup"}
Running == Listing \cup {"list", "finish"}
InRecord == {"records", "pages", "reconcile", "create", "save", "fixup"}

Run == [snap : [Rids -> Row \cup {None}], todo : SUBSET Rids,
        ip : Values \cup {None}, acct : SUBSET Zones, cached : SUBSET Zones,
        seen : [Pids -> Remote \cup {None}],
        got : [Pids -> Remote \cup {None}], due : SUBSET Pids,
        cur : Rids \cup {None},
        zone : Zones \cup {None}, target : Pids \cup {None}]
Outcome == [created : Nat, updated : Nat, unchanged : Nat, failed : Nat,
            error : BOOLEAN]

(* Every variable has its type.                                            *)
TypeOK ==
    /\ rows \in [Rids -> Row \cup {None}]
    /\ rowIds \subseteq Rids /\ sent \subseteq Statement
    /\ cf \in [Pids -> Remote \cup {None}]
    /\ issued \subseteq Pids
    /\ origin \in [Pids -> Rids \cup {None}]
    /\ shifted \in BOOLEAN /\ missed \subseteq Pids
    /\ zones \subseteq Zones /\ wan \in Values /\ hints \subseteq Values
    /\ late \subseteq Write
    /\ lock \in {"free", "sync", "delete"}
    /\ pc \in Running \cup {"idle", "lock"}
    /\ req \in [source : Sources, myip : Values \cup {None}]
    /\ run \in Run /\ outcome \in Outcome
    /\ dpc \in {"idle", "read", "check", "remote", "forget"}
    /\ del \in [id : Rids \cup {None}, row : Row \cup {None}]
    /\ used \in [Disturbances -> Nat]
    /\ touched \subseteq Rids /\ quiet \in BOOLEAN

SameConfig(a, b) == a.key = b.key /\ a.value = b.value /\ a.attr = b.attr

(* mutation_lock (sync.rs:60): while a run is between its listing of the   *)
(* table and its end, the configuration of every row it listed, and the    *)
(* whole of every row it has yet to reach, are what the table holds,       *)
(* except where the statement of a dropped handler has committed since     *)
(* (api.rs:160, 184; storage.rs:142), which the lock does not stop.        *)
SnapshotFresh ==
    pc \in Listing =>
        \A r \in Rids \ touched :
            /\ run.snap[r] = None <=> rows[r] = None
            /\ run.snap[r] # None => SameConfig(rows[r], run.snap[r])
            /\ r \in run.todo => rows[r] = run.snap[r]

(* A row's record on Cloudflare is what the row asks for. *)
Synced(r) ==
    LET row == rows[r]
    IN  /\ row.pid # None
        /\ cf[row.pid] = Desired(row, ValueOf(row), row.zone)

(* A run that reports no error (webhook.rs answers good or nochg, the UI a *)
(* success) and that nothing disturbed has left every row in its scope     *)
(* linked to a Cloudflare record with the row's content in the row's zone. *)
SuccessIsSynced ==
    pc = "finish" /\ ~outcome.error /\ quiet =>
        \A r \in Rids : rows[r] # None /\ InScope(rows[r]) => Synced(r)

(* Each listed row is counted exactly once, so the four numbers stored in  *)
(* sync_runs add up, and a failed row always shows in the error that       *)
(* ok() and the metrics look at.                                           *)
Counted == outcome.created + outcome.updated + outcome.unchanged
             + outcome.failed
SnapRows == {r \in Rids : run.snap[r] # None}
Accounting ==
    /\ pc \in InRecord \cup {"next"} =>
          Counted + Cardinality(run.todo) + (IF run.cur = None THEN 0 ELSE 1)
             = Cardinality(SnapRows)
    /\ outcome.failed > 0 => outcome.error

(* Types for which name and type are the whole identity. *)
Plain(k) == TypeOf[k] \notin {"CAA", "SRV"}
(* No other row has the row's name and type, nor a link to a record that   *)
(* has come to have them.                                                  *)
Alone(r) ==
    \A q \in Rids \ {r} : rows[q] # None =>
        /\ rows[q].key # rows[r].key
        /\ rows[q].pid # None /\ cf[rows[q].pid] # None =>
              cf[rows[q].pid].key # rows[r].key
Pushable(r) ==
    /\ rows[r] # None /\ InScope(rows[r])
    /\ ValueOf(rows[r]) # None
    /\ run.acct \cap InZone[rows[r].key] # {}
(* The row's link, if it has one, names a record in its best zone and with *)
(* its identity, or one that is gone.                                      *)
Unobstructed(r) ==
    /\ Pushable(r) /\ Alone(r)
    /\ rows[r].pid # None =>
          /\ \A z \in Zones : BestZone(rows[r].key, run.acct, z) =>
                                  z = rows[r].zone
          /\ \/ cf[rows[r].pid] = None
             \/ IdentityMatches(rows[r], cf[rows[r].pid])

(* An undisturbed run pushes every row it can: every one in its scope with *)
(* a value and a zone, unless a second row or another row's record has its *)
(* name and type, or its own record has left its best zone or its identity. *)
CalmRunPushes ==
    pc = "finish" /\ quiet => \A r \in Rids : Unobstructed(r) => Synced(r)

(* README.md:27, "Static records are pushed when created or edited": an    *)
(* undisturbed run pushes every row in its scope.                          *)
CalmRunPushesAll ==
    pc = "finish" /\ quiet => \A r \in Rids : Pushable(r) => Synced(r)

(* ClearStaleId and delete_record (sync.rs:333, 298-305): a row forgets,   *)
(* or is deleted with, a Cloudflare record id only when that record no     *)
(* longer exists, whatever the dashboard, lost answers, late writes and    *)
(* crashes do in between. It has two ways out: a listing of the run left   *)
(* the live record out, because the zone changed between two pages; or the *)
(* DELETE of a dropped handler commits after a run has linked the row to a *)
(* new record.                                                             *)
Doomed(r) == [op |-> "delete", rid |-> r] \in sent
ForgetsOnlyTheGone ==
    [][\A r \in Rids :
          rows[r] # None /\ rows[r].pid # None =>
             \/ rows'[r] # None /\ rows'[r].pid = rows[r].pid
             \/ cf[rows[r].pid] = None
             \/ rows[r].pid \in missed /\ run.seen[rows[r].pid] = None
             \/ rows'[r] = None /\ Doomed(r)]_vars

(* sync.rs:324, "Provider record was deleted externally": a run lets go of *)
(* a row's record only when that record no longer exists.                  *)
ClearsOnlyTheGone ==
    [][\A r \in Rids :
          /\ rows[r] # None /\ rows[r].pid # None
          /\ rows'[r] # None /\ rows'[r].pid = None
          => cf[rows[r].pid] = None]_vars

(* A record created for a row whose id was lost (an answer that never      *)
(* came, a failed set_provider_id, a crash between the two) is adopted by  *)
(* the next run, never created again: a plain row has at most one copy in  *)
(* a zone, while it is the only row, nobody else has created or edited a   *)
(* record, and no POST lands after its client has given it up.             *)
OnlySource(r) == /\ rowIds \subseteq {r}
                 /\ \A p \in issued : origin[p] = r
                 /\ used["late"] = 0
OneCopy ==
    \A r \in Rids, p, q \in Pids :
        /\ OnlySource(r)
        /\ cf[p] # None /\ cf[q] # None
        /\ cf[p].zone = cf[q].zone /\ Plain(cf[p].key)
        => p = q

(* A delete the user saw succeed leaves nothing that was created for the   *)
(* row (web/src/components/ConfirmDelete.tsx:24), while every answer of    *)
(* Cloudflare has come, the process has not crashed, no handler has been   *)
(* dropped and no listing has left a live record out: after a lost answer  *)
(* or such a listing, the row does not know of its record, and             *)
(* delete_record leaves it (sync.rs:290).                                  *)
Reliable == /\ used["lost"] = 0 /\ used["late"] = 0 /\ used["crash"] = 0
            /\ used["drop"] = 0 /\ missed = {}
DeleteLeavesNothing ==
    [][\A r \in Rids :
          Reliable /\ rows[r] # None /\ rows'[r] = None =>
             \A p \in Pids : origin[p] = r => cf[p] = None]_vars

(* The purpose of the program: once the disturbances have stopped, a       *)
(* dynamic row points at the router's address, and stays so, if the        *)
(* account has a zone for its name and nothing of a dashboard or of a      *)
(* sibling row stands in its way (Alone; a link that a run refuses); or    *)
(* else the lookup of the address never ends (ip.rs:64), and with it the   *)
(* worker.                                                                 *)
Reconcilable(r) ==
    /\ rows[r] # None /\ Dynamic(rows[r]) /\ Alone(r)
    /\ zones \cap InZone[rows[r].key] # {}
    /\ rows[r].pid # None =>
          /\ \A z \in Zones : BestZone(rows[r].key, zones, z) =>
                                  z = rows[r].zone
          /\ \/ cf[rows[r].pid] = None
             \/ IdentityMatches(rows[r], cf[rows[r].pid])
PointsHome(r) ==
    /\ rows[r].pid # None
    /\ cf[rows[r].pid] = Desired(rows[r], wan, rows[r].zone)
DynamicConverges ==
    \/ <>[](\A r \in Rids : Reconcilable(r) => PointsHome(r))
    \/ <>[](pc = "hung")

(* The promise of Ownership, of the records table and the account.         *)
Owner == INSTANCE Ownership WITH
            link <- [r \in Rids |-> IF rows[r] = None THEN None
                                    ELSE rows[r].pid],
            live <- {p \in Pids : cf[p] # None},
            gone <- {p \in issued : cf[p] = None},
            lost <- missed,
            doomed <- {r \in Rids : Doomed(r)}
ImplementsOwnership == Owner!Spec

-----------------------------------------------------------------------------
(* The inductive invariant. *)

(* The lock is held by whoever is past its acquisition, and by nobody else. *)
LockInv == /\ lock = "sync" <=> pc \in Running
           /\ lock = "delete" <=> dpc # "idle"

WorkerInv ==
    /\ \A r \in run.todo : run.snap[r] # None
    /\ pc \in InRecord => /\ run.cur # None /\ run.zone # None
                          /\ run.cur \notin run.todo
                          /\ run.snap[run.cur] # None
                          /\ ValueOf(CurRow) # None
    /\ pc \in InRecord \ {"records", "pages"} => run.zone \in run.cached
    /\ pc \in {"records", "pages", "reconcile"} /\ run.cur \notin touched =>
          rows[run.cur] = CurRow
    /\ pc \in {"save", "fixup"} => run.target # None
    /\ pc # "pages" => run.got = NoRemotes /\ run.due = {}
    /\ pc = "idle" \/ pc = "lock" \/ pc = "list" => run = NoRun

SameLink(a, b) == a.key = b.key /\ a.zone = b.zone /\ a.pid = b.pid

DeleterInv ==
    /\ dpc # "idle" => del.id # None /\ del.id \in rowIds
    /\ dpc \in {"check", "remote", "forget"} =>
          /\ del.row # None
          /\ del.row.pid # None => del.row.pid \in issued
          /\ rows[del.id] # None => SameLink(rows[del.id], del.row)
    /\ dpc \in {"check", "remote"} => del.row.pid # None
    /\ dpc = "forget" /\ del.row.pid # None => cf[del.row.pid] = None

(* Every place that mentions a Cloudflare record agrees on its zone, and   *)
(* an id that has not been handed out is mentioned nowhere.                *)
Mentioned(p, z) ==
    \/ cf[p] # None /\ cf[p].zone = z
    \/ \E r \in Rids : rows[r] # None /\ rows[r].pid = p /\ rows[r].zone = z
    \/ \E r \in Rids : /\ run.snap[r] # None
                        /\ run.snap[r].pid = p /\ run.snap[r].zone = z
    \/ run.seen[p] # None /\ run.seen[p].zone = z
    \/ run.got[p] # None /\ run.got[p].zone = z
    \/ \E w \in late : w.op = "put" /\ w.pid = p /\ w.rem.zone = z
    \/ pc \in {"save", "fixup"} /\ run.target = p /\ run.zone = z
ZoneInv ==
    \A p \in Pids, z \in Zones :
        Mentioned(p, z) => /\ p \in issued
                           /\ \A y \in Zones : Mentioned(p, y) => y = z

LinkInv ==
    /\ \A r \in Rids :
          /\ rows[r] # None => r \in rowIds
          /\ rows[r] # None /\ rows[r].pid # None => rows[r].zone # None
    /\ \A q, r \in Rids :
          /\ rows[q] # None /\ rows[r] # None
          /\ rows[q].pid = rows[r].pid /\ rows[q].pid # None
          => q = r

(* Whatever commits under a run, the rows it has yet to reach keep their   *)
(* link, and those it has not listed have none.                            *)
Reached == run.todo \cup (IF pc \in {"records", "pages", "reconcile"}
                          THEN {run.cur} ELSE {})
SnapLinks ==
    /\ \A r \in Rids : run.snap[r] # None =>
          /\ r \in rowIds
          /\ run.snap[r].pid # None => run.snap[r].zone # None
    /\ pc \in Listing =>
          \A r \in Rids : rows[r] # None =>
             /\ run.snap[r] = None => rows[r].pid = None
             /\ r \in Reached => SameLink(rows[r], run.snap[r])

(* A linked id that a cached listing of its zone does not show is the id   *)
(* of a record that is gone for good, or that this listing left out; one   *)
(* that the pages so far do not show is due in a later one.                *)
StaleInv ==
    pc \in Listing => \A r \in Reached :
        LET row == run.snap[r]
        IN  /\ row.pid # None /\ row.zone \in run.cached
                  /\ run.seen[row.pid] = None
               => cf[row.pid] = None \/ row.pid \in missed
            /\ row.pid # None /\ pc = "pages" /\ row.zone = run.zone
                  /\ run.got[row.pid] = None
               => cf[row.pid] = None \/ row.pid \in run.due

IInv == TypeOK /\ LockInv /\ WorkerInv /\ DeleterInv /\ ZoneInv /\ LinkInv
          /\ SnapLinks /\ StaleInv /\ SnapshotFresh

=============================================================================
