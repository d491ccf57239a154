----------------------------- MODULE Reconcile -----------------------------
(***************************************************************************)
(* The reconciler of ddnser: the sync worker's run over the records table  *)
(* (sync.rs: run_sync, reconcile), the record handlers of the API that     *)
(* share its mutation_lock (api.rs; sync.rs: delete_record), the records   *)
(* table, and the Cloudflare account both write to.                        *)
(*                                                                         *)
(* Every .await on Postgres, on Cloudflare or on the lock ends a step, so  *)
(* the Cloudflare dashboard, an abandoned request or statement that lands  *)
(* late and a crash of the process can come between any two calls of a     *)
(* run, also between two pages of a listing.                               *)
(***************************************************************************)
EXTENDS Naturals, FiniteSets

CONSTANTS
    Rids,     \* ids the identity column of the records table can hand out
    Pids,     \* record ids Cloudflare can hand out, never the same one twice
    Keys,     \* the (fqdn, record_type) pairs in use
    TypeOf,   \* the record_type of a key
    Values,   \* record contents; for type A, the public IPv4 addresses
    Attrs,    \* SRV: priority, weight and port; else TTL, proxied, MX priority
    Zones,    \* zones the Cloudflare account can hold
    InZone,   \* the zones a key's fqdn belongs to (belongs_to)
    Length,   \* the length of a zone's name
    Max,      \* the bound on each kind of disturbance
    None

RecordTypes == {"A", "AAAA", "CAA", "CNAME", "MX", "TXT", "SRV"}
Disturbances == {"op", "drop", "dashboard", "zone", "wan", "lost", "late",
                 "hang", "crash", "all"}

(* run_sync tells "timer" and "webhook" from every other source; "manual"  *)
(* stands for "record-created" and "record-updated" too.                   *)
Sources == {"timer", "webhook", "manual"}

Row == [key: Keys, value: Values \cup {None}, attr: Attrs,
        zone: Zones \cup {None}, pid: Pids \cup {None}]
Remote == [key: Keys, zone: Zones, value: Values, attr: Attrs]
Write == [op: {"post"}, rid: Rids, rem: Remote]
           \cup [op: {"put"}, pid: Pids, rem: Remote]
           \cup [op: {"delete"}, pid: Pids]
Statement == [op: {"insert"}, key: Keys, value: Values \cup {None}, attr: Attrs]
               \cup [op: {"update"}, rid: Rids, value: Values \cup {None},
                     attr: Attrs]
               \cup [op: {"delete"}, rid: Rids]

ASSUME NoneAssumption ==
    /\ None \notin Rids \cup Pids \cup Values \cup Zones
    /\ None \notin Row \cup Remote
ASSUME KeyAssumption ==
    /\ TypeOf \in [Keys -> RecordTypes]
    /\ InZone \in [Keys -> SUBSET Zones]
    /\ Length \in [Zones -> Nat]
ASSUME BoundAssumption == Max \in [Disturbances -> Nat]

VARIABLES
    rows,     \* the records table
    rowIds,   \* ids the identity column has handed out
    sent,     \* statements whose handler is no more that may still commit
    cf,       \* the DNS records on Cloudflare
    issued,   \* record ids Cloudflare has handed out
    zones,    \* the zones of the account
    late,     \* writes the client has given up on that may still land
    wan,      \* the router's public IPv4
    hints,    \* its former addresses that webhook calls in the channel name
    lock,     \* holder of mutation_lock
    pc,       \* the sync worker's next await
    req,      \* the SyncRequest the worker is serving
    run,      \* the locals of run_sync and reconcile
    outcome,  \* the SyncOutcome being accumulated
    dpc,      \* the next await of the DELETE handler that holds the lock
    del,      \* its locals: the id and the row it read
    used,     \* disturbances so far, by kind and in all
    origin,   \* history: the row a remote record was created for
    shifted,  \* history: a record was moved or deleted under a listing
    missed,   \* history: the live records that a listing has left out
    touched,  \* history: rows changed since the run listed the table
    quiet     \* history: nothing has disturbed the run in progress

db == <<rows, rowIds, sent>>
cloud == <<cf, issued, origin, shifted, missed>>
account == <<zones, wan, hints>>
worker == <<pc, req, run, outcome>>
deleter == <<dpc, del>>
ledger == <<used, quiet, touched>>
vars == <<rows, rowIds, sent, cf, issued, zones, late, wan, hints, lock, pc,
          req, run, outcome, dpc, del, used, origin, shifted, missed, touched,
          quiet>>

-----------------------------------------------------------------------------
(* Values of the run's locals. *)

NoRows == [r \in Rids |-> None]
NoRemotes == [p \in Pids |-> None]
NoRun == [snap |-> NoRows, todo |-> {}, ip |-> None, acct |-> {},
          cached |-> {}, seen |-> NoRemotes, got |-> NoRemotes, due |-> {},
          cur |-> None, zone |-> None, target |-> None]
NoReq == [source |-> "timer", myip |-> None]
NoOutcome == [created |-> 0, updated |-> 0, unchanged |-> 0, failed |-> 0,
              error |-> FALSE]
NoDel == [id |-> None, row |-> None]

(* A step of the worker that changes nothing outside its task. *)
Local == UNCHANGED <<db, cloud, account, late, lock, req, deleter, ledger>>

(* Disturbances are bounded: each kind k happens at most Max[k] times, and *)
(* all of them together Max["all"] times.                                  *)
Disturb == quiet' = (quiet /\ lock # "sync")
Spend(k) == /\ used[k] < Max[k] /\ used["all"] < Max["all"]
            /\ used' = [j \in Disturbances |-> IF j \in {k, "all"}
                                               THEN used[j] + 1 ELSE used[j]]
            /\ Disturb /\ UNCHANGED touched

-----------------------------------------------------------------------------
(* The tests of sync.rs on a row and a remote record. *)

Dynamic(row) == TypeOf[row.key] = "A" /\ row.value = None

(* CAA rows are told apart by their value, SRV rows by their data; for     *)
(* every other type the name and the type are the whole identity.          *)
IdentityMatches(row, rem) ==
    /\ row.key = rem.key
    /\ TypeOf[row.key] = "CAA" => row.value = rem.value
    /\ TypeOf[row.key] = "SRV" => row.attr = rem.attr

(* content_matches, together with the TTL and proxied tests beside it. *)
ContentMatches(row, v, rem) == v = rem.value /\ row.attr = rem.attr

Desired(row, v, z) ==
    [key |-> row.key, zone |-> z, value |-> v, attr |-> row.attr]

(* The most specific zone of the account that the key belongs to. *)
BestZone(k, acct, z) ==
    /\ z \in acct \cap InZone[k]
    /\ \A y \in acct \cap InZone[k] : Length[y] <= Length[z]

(* UNIQUE NULLS NOT DISTINCT (fqdn, record_type, value). *)
UniqueValue(r, k, v) ==
    \A q \in Rids \ {r} :
        rows[q] # None => ~(rows[q].key = k /\ rows[q].value = v)

(* set_provider_id: its WHERE clause and UNIQUE (zone_id,                  *)
(* provider_record_id).                                                    *)
CanLinkAgain(r, z, p) == rows[r] # None /\ rows[r].pid = None  \* faulty
CanLink(r, z, p) ==
    /\ rows[r] # None
    /\ rows[r].pid = None
    /\ \A q \in Rids :
           rows[q] # None => ~(rows[q].zone = z /\ rows[q].pid = p)

SwappedIds(r, z, p) ==  \* faulty
    rows' = [rows EXCEPT ![r] = [@ EXCEPT !.zone = p, !.pid = z]]
SetProviderId(r, z, p) ==
    rows' = [rows EXCEPT ![r] = [@ EXCEPT !.zone = z, !.pid = p]]

-----------------------------------------------------------------------------
(* What one row of the run sees: the row as listed, the value to push, the *)
(* cached listing of its zone.                                             *)

CurRow == run.snap[run.cur]
ValueOf(row) == IF row.value # None THEN row.value
                ELSE IF TypeOf[row.key] = "A" THEN run.ip ELSE None
Want == Desired(CurRow, ValueOf(CurRow), run.zone)
Listed(p) == p \in Pids /\ run.seen[p] # None /\ run.seen[p].zone = run.zone
NoCandidates == {}  \* faulty
Candidates == {p \in Pids : Listed(p) /\ IdentityMatches(CurRow, run.seen[p])}
UpToDateValue(p) == ValueOf(CurRow) = run.seen[p].value  \* faulty
UpToDate(p) == ContentMatches(CurRow, ValueOf(CurRow), run.seen[p])

InScopeNoDynamic(row) == req.source \notin {"timer", "webhook"}  \* faulty
InScope(row) == req.source \notin {"timer", "webhook"} \/ Dynamic(row)

(* The branches of reconcile. *)
Owned == CurRow.pid # None
RefusedAnyZone == /\ Owned /\ Listed(CurRow.pid)      \* faulty
                  /\ ~IdentityMatches(CurRow, run.seen[CurRow.pid])
Refused == Owned /\ \/ CurRow.zone # run.zone
                    \/ /\ Listed(CurRow.pid)
                       /\ ~IdentityMatches(CurRow, run.seen[CurRow.pid])
Settled == Owned /\ ~Refused /\ Listed(CurRow.pid) /\ UpToDate(CurRow.pid)

(* reconcile returned: count its result and go on with the next row. *)
NextRow == [run EXCEPT !.cur = None, !.zone = None, !.target = None,
                       !.got = NoRemotes, !.due = {}]
Count(what) == outcome' = [outcome EXCEPT ![what] = @ + 1]
FlagError == outcome' = [outcome EXCEPT !.error = TRUE]  \* faulty
CountError == outcome' = [outcome EXCEPT !.failed = @ + 1, !.error = TRUE]

RowFails == /\ pc' = "next"
            /\ run' = NextRow
            /\ CountError
RowDone(what, seen) == /\ pc' = "next"
                       /\ run' = [NextRow EXCEPT !.seen = seen]
                       /\ Count(what)
RunFails == /\ pc' = "finish"
            /\ outcome' = [outcome EXCEPT !.error = TRUE]
            /\ UNCHANGED run

(* A call whose effect took place: its answer arrives, or is lost and the  *)
(* row fails. Its counterpart: no effect yet, the client has timed out and *)
(* the write may still land.                                               *)
Answer(ok) == \/ ok /\ UNCHANGED ledger
              \/ RowFails /\ Spend("lost")
TimesOut(w) == /\ late' = late \cup {w}
               /\ RowFails
               /\ Spend("late")

(* A record that is edited may move in Cloudflare's order, and one that is *)
(* deleted moves those behind it: under a listing of its zone, either can  *)
(* bring a record to a page that has been read (LossBounded of Listing).   *)
Shift(p) == shifted' = (shifted \/ (pc = "pages" /\ cf[p].zone = run.zone))
PutRemote(p, rem) == /\ cf' = [cf EXCEPT ![p] = rem]
                     /\ Shift(p)
                     /\ UNCHANGED <<issued, origin, missed>>
PostRemote(p, rem, r) == /\ p \notin issued
                         /\ cf' = [cf EXCEPT ![p] = rem]
                         /\ issued' = issued \cup {p}
                         /\ origin' = [origin EXCEPT ![p] = r]
                         /\ UNCHANGED <<shifted, missed>>

-----------------------------------------------------------------------------
Init ==
    /\ rows = NoRows /\ rowIds = {} /\ sent = {}
    /\ cf = NoRemotes /\ issued = {} /\ origin = NoRemotes
    /\ shifted = FALSE /\ missed = {} /\ touched = {}
    /\ zones \in SUBSET Zones /\ wan \in Values /\ hints = {}
    /\ late = {} /\ lock = "free"
    /\ pc = "idle" /\ req = NoReq /\ run = NoRun /\ outcome = NoOutcome
    /\ dpc = "idle" /\ del = NoDel
    /\ used = [k \in Disturbances |-> 0] /\ quiet = TRUE

-----------------------------------------------------------------------------
(* The sync worker: one request at a time. *)

(* rx.recv: a timer tick, a webhook call with or without a usable myip, a  *)
(* manual sync, or the trigger of a record change. A webhook's myip is the *)
(* address at the time of the call, which may have waited in the channel   *)
(* since before the last changes of address.                               *)
TakeRequest(source, myip) ==
    /\ pc = "idle" /\ pc' = "lock"
    /\ myip # None => source = "webhook" /\ myip \in {wan} \cup hints
    /\ hints' = IF myip = wan THEN hints ELSE hints \ {myip}
    /\ req' = [source |-> source, myip |-> myip]
    /\ UNCHANGED <<db, cloud, zones, wan, late, lock, run, outcome, deleter,
                   ledger>>

StartRun ==
    /\ pc = "lock"
    /\ lock' = "sync" /\ pc' = "list" /\ quiet' = TRUE
    /\ UNCHANGED <<db, cloud, account, late, req, run, outcome, deleter, used,
                   touched>>
LockForSync == lock = "free" /\ StartRun

ListRows ==
    /\ pc = "list"
    /\ LET listed == {r \in Rids : rows[r] # None}
       IN  /\ run' = [run EXCEPT !.snap = rows, !.todo = listed]
           /\ pc' = IF listed = {} THEN "finish"
                    ELSE IF \E r \in listed : Dynamic(rows[r]) THEN "resolve"
                    ELSE "zones"
    /\ touched' = {}
    /\ UNCHANGED <<db, cloud, account, late, lock, req, outcome, deleter, used,
                   quiet>>

(* resolve_ipv4: the router's hint, else the resolvers' consensus, which   *)
(* may be that they do not agree. Nothing bounds the time of their answers *)
(* (ip.rs:64), and until they come the worker waits, with the lock.        *)
ResolveIpv4 ==
    /\ pc = "resolve" /\ pc' = "zones"
    /\ \/ /\ run' = [run EXCEPT !.ip = IF req.myip # None THEN req.myip
                                       ELSE wan]
          /\ UNCHANGED ledger
       \/ req.myip = None /\ UNCHANGED run /\ Spend("lost")
    /\ UNCHANGED <<db, cloud, account, late, lock, req, outcome, deleter>>

ResolveHangs ==
    /\ pc = "resolve" /\ req.myip = None
    /\ pc' = "hung" /\ Spend("hang")
    /\ UNCHANGED <<db, cloud, account, late, lock, req, run, outcome, deleter>>

ListZones ==
    /\ pc = "zones" /\ pc' = "next"
    /\ run' = [run EXCEPT !.acct = zones]
    /\ UNCHANGED outcome /\ Local

SkipStatic(r) ==
    /\ pc = "next" /\ r \in run.todo
    /\ ~InScope(run.snap[r])
    /\ run' = [run EXCEPT !.todo = @ \ {r}]
    /\ Count("unchanged")
    /\ UNCHANGED pc /\ Local

(* "dynamic address unavailable" and "no matching Cloudflare zone". *)
CannotPush(r) ==
    /\ pc = "next" /\ r \in run.todo
    /\ InScope(run.snap[r])
    /\ \/ ValueOf(run.snap[r]) = None
       \/ run.acct \cap InZone[run.snap[r].key] = {}
    /\ run' = [run EXCEPT !.todo = @ \ {r}]
    /\ CountError
    /\ UNCHANGED pc /\ Local

BeginAnyZone(r, z) ==  \* faulty
    /\ pc = "next" /\ r \in run.todo
    /\ InScope(run.snap[r])
    /\ ValueOf(run.snap[r]) # None
    /\ z \in run.acct \cap InZone[run.snap[r].key]
    /\ pc' = IF z \in run.cached THEN "reconcile" ELSE "records"
    /\ run' = [run EXCEPT !.todo = @ \ {r}, !.cur = r, !.zone = z]
    /\ UNCHANGED outcome /\ Local
BeginRecord(r, z) ==
    /\ pc = "next" /\ r \in run.todo
    /\ InScope(run.snap[r])
    /\ ValueOf(run.snap[r]) # None
    /\ BestZone(run.snap[r].key, run.acct, z)
    /\ pc' = IF z \in run.cached THEN "reconcile" ELSE "records"
    /\ run' = [run EXCEPT !.todo = @ \ {r}, !.cur = r, !.zone = z]
    /\ UNCHANGED outcome /\ Local

(* One page of list_records, which may hold any records of the zone that   *)
(* are left to read, and some again. What is read first is what find sees. *)
InZoneNow == {p \in Pids : cf[p] # None /\ cf[p].zone = run.zone}
GotWith(S) == [p \in Pids |-> IF run.got[p] = None /\ p \in S THEN cf[p]
                              ELSE run.got[p]]
DueWithout(S) == (IF pc = "records" THEN InZoneNow ELSE run.due) \ S

ListPage(S) ==
    /\ pc \in {"records", "pages"} /\ pc' = "pages"
    /\ S # {}
    /\ run' = [run EXCEPT !.got = GotWith(S), !.due = DueWithout(S)]
    /\ shifted' = (shifted /\ pc = "pages")
    /\ UNCHANGED <<db, cf, issued, origin, missed, account, late, lock, req,
                   outcome, deleter, ledger>>

(* The last page ends the listing. A record that was in the zone all along *)
(* is in it, unless one has moved or gone since the first page.            *)
LeftOut(S) == DueWithout(S) \cap InZoneNow
ListLastPage(S) ==
    /\ pc \in {"records", "pages"} /\ pc' = "reconcile"
    /\ LeftOut(S) # {} => pc = "pages" /\ shifted
    /\ run' = [run EXCEPT
                 !.cached = @ \cup {run.zone},
                 !.seen = [p \in Pids |-> IF GotWith(S)[p] # None
                                          THEN GotWith(S)[p] ELSE @[p]],
                 !.got = NoRemotes, !.due = {}]
    /\ missed' = missed \cup LeftOut(S)
    /\ shifted' = FALSE
    /\ UNCHANGED <<db, cf, issued, origin, account, late, lock, req, outcome,
                   deleter, ledger>>

(* "provider zone changed" and "provider record identity changed". *)
Refuse ==
    /\ pc = "reconcile" /\ Refused
    /\ RowFails
    /\ Local

LeaveUnchanged ==
    /\ pc = "reconcile" /\ Settled
    /\ RowDone("unchanged", run.seen)
    /\ Local

(* The linked record is gone: forget its id, then create a new one without *)
(* looking for one to adopt. A row that is gone cannot be cleared.         *)
ClearStaleId ==
    /\ pc = "reconcile" /\ Owned /\ ~Refused /\ ~Listed(CurRow.pid)
    /\ \/ /\ rows[run.cur] # None
          /\ SetProviderId(run.cur, None, None)
          /\ Answer(pc' = "create" /\ UNCHANGED <<run, outcome>>)
       \/ /\ rows[run.cur] = None
          /\ RowFails
          /\ UNCHANGED <<rows, ledger>>
    /\ UNCHANGED <<rowIds, sent, cloud, account, late, lock, req, deleter>>

PushedTo(p) == [run.seen EXCEPT ![p] = Want]

(* update_record, for an owned and for an adopted record; on a record that *)
(* has vanished since the listing it is an HTTP 404.                       *)
Put(p) ==
    /\ \/ /\ cf[p] # None
          /\ PutRemote(p, Want)
          /\ Answer(RowDone("updated", PushedTo(p)))
          /\ UNCHANGED late
       \/ /\ cf[p] = None
          /\ RowFails
          /\ UNCHANGED <<cloud, late, ledger>>
       \/ /\ TimesOut([op |-> "put", pid |-> p, rem |-> Want])
          /\ UNCHANGED cloud
    /\ UNCHANGED <<db, account, lock, req, deleter>>

PutOwned == /\ pc = "reconcile" /\ Owned /\ ~Refused /\ ~Settled
            /\ Listed(CurRow.pid)
            /\ Put(CurRow.pid)
PutAdopted == pc = "fixup" /\ Put(run.target)

(* The first listed record with the row's identity; Cloudflare's order is  *)
(* not known. UNIQUE (zone_id, provider_record_id) can refuse the link.    *)
Adopt(p) ==
    /\ pc = "reconcile" /\ ~Owned /\ p \in Candidates
    /\ \/ /\ CanLink(run.cur, run.zone, p)
          /\ SetProviderId(run.cur, run.zone, p)
          /\ Answer(\/ UpToDate(p) /\ RowDone("unchanged", run.seen)
                    \/ /\ ~UpToDate(p)
                       /\ pc' = "fixup"
                       /\ run' = [run EXCEPT !.target = p]
                       /\ UNCHANGED outcome)
       \/ /\ ~CanLink(run.cur, run.zone, p)
          /\ RowFails
          /\ UNCHANGED <<rows, ledger>>
    /\ UNCHANGED <<rowIds, sent, cloud, account, late, lock, req, deleter>>

Post ==
    /\ \/ pc = "create"
       \/ pc = "reconcile" /\ ~Owned /\ Candidates = {}
    /\ \/ \E p \in Pids :
             /\ PostRemote(p, Want, run.cur)
             /\ Answer(/\ pc' = "save"
                       /\ run' = [run EXCEPT !.target = p]
                       /\ UNCHANGED outcome)
             /\ UNCHANGED late
       \/ /\ TimesOut([op |-> "post", rid |-> run.cur, rem |-> Want])
          /\ UNCHANGED cloud
    /\ UNCHANGED <<db, account, lock, req, deleter>>

(* "created record ID could not be saved" when the row is gone.            *)
SaveId ==
    /\ pc = "save"
    /\ \/ /\ CanLink(run.cur, run.zone, run.target)
          /\ SetProviderId(run.cur, run.zone, run.target)
          /\ Answer(RowDone("created", PushedTo(run.target)))
       \/ /\ ~CanLink(run.cur, run.zone, run.target)
          /\ RowFails
          /\ UNCHANGED <<rows, ledger>>
    /\ UNCHANGED <<rowIds, sent, cloud, account, late, lock, req, deleter>>

(* A call that fails without an effect. *)
CallFails ==
    /\ Spend("lost")
    /\ \/ pc \in {"list", "zones"} /\ RunFails
       \/ pc \in {"records", "pages", "create", "save", "fixup"} /\ RowFails
       \/ pc = "reconcile" /\ ~Refused /\ ~Settled /\ RowFails
    /\ UNCHANGED <<db, cloud, account, late, lock, req, deleter>>

EndRun ==
    /\ pc = "next" /\ run.todo = {}
    /\ pc' = "finish"
    /\ UNCHANGED <<run, outcome>> /\ Local

ReleaseLock ==
    /\ pc = "finish" /\ pc' = "idle" /\ lock' = "free"
    /\ req' = NoReq /\ run' = NoRun /\ outcome' = NoOutcome
    /\ quiet' = TRUE /\ touched' = {}
    /\ UNCHANGED <<db, cloud, account, late, deleter, used>>

WorkerStep ==
    \/ LockForSync \/ ListRows \/ ResolveIpv4 \/ ResolveHangs \/ ListZones
    \/ \E r \in Rids : SkipStatic(r) \/ CannotPush(r)
    \/ \E r \in Rids, z \in Zones : BeginRecord(r, z)
    \/ \E S \in SUBSET InZoneNow : ListPage(S) \/ ListLastPage(S)
    \/ Refuse \/ LeaveUnchanged
    \/ ClearStaleId \/ PutOwned \/ PutAdopted \/ Post \/ SaveId
    \/ \E p \in Pids : Adopt(p)
    \/ CallFails \/ EndRun \/ ReleaseLock

-----------------------------------------------------------------------------
(* The API's record handlers. A mutation is one statement under the lock.  *)
(* A handler whose client goes away is dropped at its await, and the lock  *)
(* with it, while the statement it has sent may still commit.              *)

Insert(r, k, v, a) ==
    /\ r \notin rowIds /\ UniqueValue(r, k, v)
    /\ rows' = [rows EXCEPT ![r] = [key |-> k, value |-> v, attr |-> a,
                                    zone |-> None, pid |-> None]]
    /\ rowIds' = rowIds \cup {r}

CreateRecord(r, k, v, a) ==
    /\ lock = "free" /\ Spend("op")
    /\ v = None => TypeOf[k] = "A"
    /\ Insert(r, k, v, a)
    /\ UNCHANGED <<sent, cloud, account, late, lock, worker, deleter>>

CreateDropped(k, v, a) ==
    /\ lock = "free" /\ Spend("drop")
    /\ v = None => TypeOf[k] = "A"
    /\ sent' = sent \cup {[op |-> "insert", key |-> k, value |-> v, attr |-> a]}
    /\ UNCHANGED <<rows, rowIds, cloud, account, late, lock, worker, deleter>>

(* Name and type are immutable, and the link to Cloudflare is kept. *)
Update(r, v, a) ==
    /\ rows[r] # None /\ UniqueValue(r, rows[r].key, v)
    /\ rows' = [rows EXCEPT ![r] = [@ EXCEPT !.value = v, !.attr = a]]
    /\ UNCHANGED rowIds

UpdateRecord(r, v, a) ==
    /\ lock = "free" /\ Spend("op")
    /\ rows[r] # None /\ (v = None => TypeOf[rows[r].key] = "A")
    /\ Update(r, v, a)
    /\ UNCHANGED <<sent, cloud, account, late, lock, worker, deleter>>

UpdateDropped(r, v, a) ==
    /\ lock = "free" /\ Spend("drop")
    /\ rows[r] # None /\ (v = None => TypeOf[rows[r].key] = "A")
    /\ sent' = sent \cup {[op |-> "update", rid |-> r, value |-> v, attr |-> a]}
    /\ UNCHANGED <<rows, rowIds, cloud, account, late, lock, worker, deleter>>

DeleteBegin(r) ==
    /\ lock = "free" /\ Spend("op")
    /\ rows[r] # None
    /\ lock' = "delete" /\ dpc' = "read"
    /\ del' = [NoDel EXCEPT !.id = r]
    /\ UNCHANGED <<db, cloud, account, late, worker>>

(* The handler returns, or is dropped because its client went away. *)
DeleteEnds == lock' = "free" /\ dpc' = "idle" /\ del' = NoDel

ReadOnlyRow ==  \* faulty
    /\ dpc = "read" /\ rows[del.id] # None
    /\ del' = [del EXCEPT !.row = rows[del.id]]
    /\ dpc' = "forget"
    /\ UNCHANGED <<db, cloud, account, late, lock, worker, ledger>>
DeleteRead ==
    /\ dpc = "read"
    /\ \/ /\ rows[del.id] # None
          /\ del' = [del EXCEPT !.row = rows[del.id]]
          /\ dpc' = IF rows[del.id].pid # None THEN "check" ELSE "forget"
          /\ UNCHANGED lock
       \/ rows[del.id] = None /\ DeleteEnds
    /\ UNCHANGED <<db, cloud, account, late, worker, ledger>>

(* get_record, then "provider record identity changed; refusing deletion". *)
DeleteCheck ==
    /\ dpc = "check"
    /\ LET remote == cf[del.row.pid]
           same == remote # None /\ IdentityMatches(del.row, remote)
       IN  \/ same /\ dpc' = "remote" /\ UNCHANGED <<lock, del>>
           \/ ~same /\ DeleteEnds
    /\ UNCHANGED <<db, cloud, account, late, worker, ledger>>

DeleteRemote ==
    /\ dpc = "remote"
    /\ LET p == del.row.pid
       IN  \/ /\ cf[p] # None
              /\ PutRemote(p, None)
              /\ \/ dpc' = "forget" /\ UNCHANGED <<lock, del, ledger>>
                 \/ DeleteEnds /\ Spend("lost")
              /\ UNCHANGED late
           \/ /\ cf[p] = None
              /\ DeleteEnds /\ UNCHANGED <<cloud, late, ledger>>
           \/ /\ late' = late \cup {[op |-> "delete", pid |-> p]}
              /\ DeleteEnds /\ Spend("late") /\ UNCHANGED cloud
    /\ UNCHANGED <<db, account, worker>>

DeleteRow ==
    /\ dpc = "forget"
    /\ rows' = [rows EXCEPT ![del.id] = None]
    /\ DeleteEnds
    /\ UNCHANGED <<rowIds, sent, cloud, account, late, worker, ledger>>

DeleteAborts ==
    /\ dpc # "idle" /\ Spend("lost")
    /\ DeleteEnds
    /\ UNCHANGED <<db, cloud, account, late, worker>>

(* Dropped while it waits for the DELETE of its row. *)
DeleteDropped ==
    /\ dpc = "forget" /\ Spend("drop")
    /\ DeleteEnds
    /\ sent' = sent \cup {[op |-> "delete", rid |-> del.id]}
    /\ UNCHANGED <<rows, rowIds, cloud, account, late, worker>>

DeleteStep == \/ DeleteRead \/ DeleteCheck \/ DeleteRemote \/ DeleteRow
              \/ DeleteAborts \/ DeleteDropped

(* A statement commits after its handler was dropped, whoever has the lock *)
(* by then; one that a constraint refuses is never heard of.               *)
Lands(s, r) ==
    /\ s \in sent /\ sent' = sent \ {s}
    /\ \/ s.op = "insert" /\ Insert(r, s.key, s.value, s.attr)
       \/ s.op = "update" /\ r = s.rid /\ Update(r, s.value, s.attr)
       \/ /\ s.op = "delete" /\ r = s.rid /\ rows[r] # None
          /\ rows' = [rows EXCEPT ![r] = None]
          /\ UNCHANGED rowIds
    /\ touched' = touched \cup {r} /\ Disturb
    /\ UNCHANGED <<cloud, account, late, lock, worker, deleter, used>>

-----------------------------------------------------------------------------
(* The world outside: the dashboard, the router, the network, the host. *)

DashboardCreate(p, rem) ==
    /\ Spend("dashboard")
    /\ rem.zone \in zones \cap InZone[rem.key]
    /\ PostRemote(p, rem, None)
    /\ UNCHANGED <<db, account, late, lock, worker, deleter>>

DashboardEdit(p, rem) ==
    /\ Spend("dashboard")
    /\ cf[p] # None /\ rem # cf[p]
    /\ rem.zone = cf[p].zone /\ rem.zone \in InZone[rem.key]
    /\ cf' = [cf EXCEPT ![p] = rem] /\ Shift(p)
    /\ origin' = [origin EXCEPT ![p] = None]
    /\ UNCHANGED <<db, issued, missed, account, late, lock, worker, deleter>>

DashboardDelete(p) ==
    /\ Spend("dashboard")
    /\ cf[p] # None
    /\ PutRemote(p, None)
    /\ UNCHANGED <<db, account, late, lock, worker, deleter>>

AddZone(z) ==
    /\ Spend("zone")
    /\ z \notin zones
    /\ zones' = zones \cup {z}
    /\ UNCHANGED <<db, cloud, wan, hints, late, lock, worker, deleter>>

(* Webhook calls that wait in the channel may name the former address.     *)
WanChanges(v) ==
    /\ Spend("wan")
    /\ v # wan
    /\ wan' = v /\ hints' \in {hints, hints \cup {wan}}
    /\ UNCHANGED <<db, cloud, zones, late, lock, worker, deleter>>

(* A write whose client has given up lands after all. *)
LateArrives(w) ==
    /\ w \in late /\ late' = late \ {w}
    /\ \/ w.op = "post" /\ \E p \in Pids : PostRemote(p, w.rem, w.rid)
       \/ w.op = "put" /\ cf[w.pid] # None /\ PutRemote(w.pid, w.rem)
       \/ w.op = "delete" /\ cf[w.pid] # None /\ PutRemote(w.pid, None)
    /\ Disturb
    /\ UNCHANGED <<db, account, lock, worker, deleter, used, touched>>

(* The process dies and is restarted: the worker, a handler in progress    *)
(* and the lock are gone, the database and the account are not.            *)
Crash ==
    /\ Spend("crash")
    /\ lock' = "free" /\ hints' = {}
    /\ pc' = "idle" /\ req' = NoReq /\ run' = NoRun /\ outcome' = NoOutcome
    /\ dpc' = "idle" /\ del' = NoDel
    /\ UNCHANGED <<db, cloud, zones, wan, late>>

Requests ==
    \E source \in Sources, myip \in Values \cup {None} :
        TakeRequest(source, myip)

Mutations ==
    \/ \E r \in Rids, k \in Keys, v \in Values \cup {None}, a \in Attrs :
          CreateRecord(r, k, v, a)
    \/ \E r \in Rids, v \in Values \cup {None}, a \in Attrs :
          UpdateRecord(r, v, a)
    \/ \E k \in Keys, v \in Values \cup {None}, a \in Attrs :
          CreateDropped(k, v, a)
    \/ \E r \in Rids, v \in Values \cup {None}, a \in Attrs :
          UpdateDropped(r, v, a)
    \/ \E r \in Rids : DeleteBegin(r)
    \/ \E s \in sent, r \in Rids : Lands(s, r)

Environment ==
    \/ \E p \in Pids, rem \in Remote :
          DashboardCreate(p, rem) \/ DashboardEdit(p, rem)
    \/ \E p \in Pids : DashboardDelete(p)
    \/ \E z \in Zones : AddZone(z)
    \/ \E v \in Values : WanChanges(v)
    \/ \E w \in late : LateArrives(w)
    \/ Crash

Next == Requests \/ WorkerStep \/ Mutations \/ DeleteStep \/ Environment

Spec == Init /\ [][Next]_vars

(* The worker and the handlers are tasks of the tokio runtime. Every call  *)
(* of theirs to Cloudflare ends, with an answer or the client's 30 s       *)
(* timeout, and every one to Postgres; so does a lookup of the address     *)
(* that ResolveHangs does not take. The timer keeps requesting runs.       *)
(* Nobody else has to do anything.                                         *)
FairSpec == /\ Spec
            /\ WF_vars(Requests)
            /\ WF_vars(WorkerStep)
            /\ WF_vars(DeleteStep)

=============================================================================
