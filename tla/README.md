# A verification of ddnser

ddnser keeps DNS records, stored in Postgres, in step with a Cloudflare
account: a router calls a webhook when its address changes, a timer asks for a
run every hour, and an OIDC-protected UI edits the records. This directory
holds TLA+ models of its core, the TLC runs that check them on small
instances, and TLAPS proofs of their main invariants for all instances. Source
references are `file:line` in the repository (`sync.rs` is `src/sync.rs`).

## 1. Inventory

| Component | State | Operations | Meets | Modelled |
| --- | --- | --- | --- | --- |
| Reconciliation, `sync.rs` `run_sync`, `reconcile`, `delete_record` | the locals of a run, its cached listings | list, resolve, push each row; delete a row and its record | table, account, lock | `Reconcile` |
| Scheduler, `sync.rs` `Syncer` | channel of 16, worker, timer, `mutation_lock`, oneshots | `trigger`, `sync_now`, worker loop, timer loop | handlers, reconciliation | `SyncQueue` |
| Records table, `storage.rs`, `migrations/` | `records` and its constraints | one statement per operation | reconciliation, API | `Reconcile`, `Records` |
| Record handlers, `api.rs` | none of their own | create, edit, delete under the lock, then trigger | table, scheduler | `Reconcile`, `SyncQueue`, `Records` |
| Validation, `api.rs` `validate` | none | normalise and refuse | handlers; what it promises, `desired` and `caa_data` unwrap | `Records` |
| Cloudflare client, `cloudflare.rs` | the account, outside | list by pages, get, create, update, delete, each with a 30 s timeout | reconciliation | effects in `Reconcile`, paging in `Listing` |
| Webhook, `webhook.rs` | none | authenticate, `parse_myip`, `sync_now`, answer | scheduler | its request, its hint and its answer |
| Public address, `ip.rs` | none | the router's hint, else a vote of eight services | reconciliation | `PublicAddress` |
| History and metrics, `storage.rs`, `metrics.rs` | `sync_runs`, counters | save, prune, read the latest | worker, UI, Prometheus | the newest row, in `SyncQueue` |
| Login, `auth.rs` | encrypted cookies in the browsers | login, callback, logout, session check | identity provider | `Login` |
| Signing keys, `auth.rs` `refresh_keys` | the client with its keys, time of the last refresh | compare-and-exchange, fetch, replace | callbacks | `Login` |
| Assets, web UI, packaging | none | - | - | no |

What is hard in it: every `.await` of a run is a point where the dashboard, an
API call, a lost answer or a restart can come in between; the record on
Cloudflare and its id in the table are written by different calls; a call that
timed out may still take effect; a run works on a listing of the table and on
cached listings of the zones, and a listing of a zone is itself put together
from pages; handlers are dropped at an await when their client goes away, and
the statement they have sent may commit after that; nothing ends a lookup of
the address that is not answered; the channel is bounded, the worker is alone
and nobody restarts it; callbacks race for the refresh of the keys, and the
tabs of a browser for its cookie; what `validate` lets into the table, a run
unwraps. `PROJECT.json` lists these hazards with their lines and the properties
that watch them. What makes each component correct:

- reconciliation: a run works on current rows, reports what it did, pushes
  what it can, never loses track of a record it could see, never creates what
  it already created, and converges;
- scheduler: one holder of the lock, an answer for everyone who waits, from a
  run that saw what the caller had committed, and a run for every edit;
- history: who has an answer finds that run on the status page;
- validation: what is stored can be pushed, edited, and told from its copies;
- listing: it ends, and misses no more than was deleted or moved meanwhile;
- public address: one lie cannot bring an address in, nor keep ours out;
- login: a new signing key is accepted, with one fetch a minute at most.

## 2. Modules

| Module | Contents |
| --- | --- |
| `Ownership` | abstract: which row holds which record, which records exist |
| `Reconcile` | the reconciler, the record handlers, the table and the account |
| `ReconcileProps` | its properties, the refinement of `Ownership`, the inductive invariant |
| `ReconcileProofs` | the inductive invariant, the snapshot, the links, the refinement: the proofs |
| `ReconcileRunProofs` | the proofs about the run: what it counts, what its success means |
| `ReconcileCopyProofs` | the proofs about the records that runs create, and what a deletion leaves |
| `SyncQueue` | the scheduler, the handlers that meet it, and the history of runs |
| `SyncQueueProps`, `SyncQueueProofs` | its properties and inductive invariant; the proofs |
| `Listing`, `ListingProofs` | a paged listing of a zone that changes; the proofs |
| `Records`, `RecordsProofs` | what is accepted, what is stored, what a run makes of it; the proofs |
| `PublicAddress`, `PublicAddressProofs` | hint, vote and result; the proofs |
| `Login`, `LoginProofs` | tabs, cookies, callbacks and the refresh of the keys; the proofs |
| `MCReconcile`, `MCSyncQueue`, `MCListing`, `MCLogin`, `MCInputs` | values of the constants for TLC |

`Reconcile` and `SyncQueue` are the two levels of one system. `SyncQueue` takes
a run as one listing and one push and keeps the queue, the callers and the lock
in detail; `Reconcile` takes the queue as a stream of requests and keeps the
inside of a run. They meet in `mutation_lock` and in the worker's phases
`lock`, `run`. The others open what `Reconcile` takes for granted or as a
value: `Listing` the order of a zone, from which `Reconcile` takes when a page
may leave a record out, `PublicAddress` its `ResolveIpv4`, `Records` its
values. `Login` shares nothing with the rest but the process.

Definitions marked `\* faulty` are variants of the definition that follows
them with a plausible mistake. No specification uses them; `PROJECT.json`
names the property that rejects each.

### Reconcile

A row is its key (name and type), its value (`None` for a dynamic A row), one
attribute and its link (`zone`, `pid`). The attribute stands for what
`content_matches` and `desired` compare beside the value: TTL, the proxied
flag, the MX priority, and for SRV also priority, weight and port, which are
part of an SRV record's identity. Ids are never given out twice, as the
identity column and Cloudflare guarantee. Strings are abstracted to values;
`belongs_to` is the constant `InZone`, the length of a zone's name `Length`.

`pc` is the next await of the worker: `idle` (`rx.recv`), `lock`, `list`,
`resolve`, `hung` (a lookup of the address that never ends), `zones`, `next`
(head of the loop), `records` and `pages` (the first and the later pages of a
listing), `reconcile` (the branches of `reconcile`), `create`, `save`, `fixup`
(the later calls of a branch) and `finish`. A call has these outcomes:

- it takes effect and is answered, or takes effect and the answer is lost
  (`Answer`), and the row fails;
- it has no effect and fails (`CallFails`);
- the client gives up after 30 s and the write lands later or never
  (`TimesOut`, `LateArrives`).

A database call of the worker that fails has had its effect by then, or never
will; one of a handler may have it later, see below.

A listing is a step per page, with anything in between. A page holds any
records of the zone that are still due, and any again (`ListPage`); `got` is
what the pages so far have shown, `due` what was there at the first page and
has not come yet. The last page brings all that is due, unless a record of the
zone was edited or deleted since the first page (`shifted`): then it may leave
live records out (`ListLastPage`), and they are noted in `missed`. This is what
`LossBounded` of `Listing` says of the order, without its count.

The rows of a run are taken in any order, a listing may return its records in
any order (so `Adopt` takes any candidate). A creation or an edit through the
API is one statement under the lock, hence one step; the deletion handler has
a step per call (`dpc`). A handler whose client goes away is dropped at its
await and lets go of the lock, while its statement may still commit:
`CreateDropped`, `UpdateDropped` and `DeleteDropped` put the statement into
`sent`, and `Lands` is its commit, at any later time, whoever has the lock, or
never. `DeleteAborts` ends a deletion at any other call. `Crash` loses the
worker, the handler and the lock, and keeps the table, the account and `sent`.

A webhook's hint is the router's address at the time of the call. `TakeRequest`
takes the present one or one of `hints`: former addresses that calls still in
the channel have named when the address changed. `ResolveHangs` is a lookup
without an answer, for which `ip.rs:64` has no timeout: the worker then stays
`hung`, with the lock, until the process is restarted.

History variables: `origin` (the row a record was created for), `missed` and
`shifted` (see above), `touched` (the rows a late statement has changed since
the run listed the table), `quiet` (nothing has disturbed the run).

Bounds: `Max` bounds each kind of disturbance (API operations, dashboard
changes, new zones, new addresses, dropped handlers, lost answers, late writes,
hanging lookups, crashes), and `Max["all"]` all of them together. The worker
itself is not bounded: runs go on for ever.

### SyncQueue

A connection carries one request at a time (`call`): `lock` (waiting for
`mutation_lock`), `mutate` (its statement), `send` (waiting for room in the
channel), `reply` (waiting for the oneshot), `ok` (answered with success),
`idle`. A DELETE holds the lock and triggers nothing, an edit releases the lock
and then triggers, a sync or webhook call sends a request with a oneshot. The
table is the number of changes committed; `listed` is how many the run in
progress has seen, `tried` and `pushed` how many the last run over all rows has
tried to push, and has pushed without an error.

`Drop` is the server dropping a handler whose client has gone, at any await:
it releases the lock if the handler holds it, and leaves an answer without a
receiver (`Orphan`) in the channel or with the worker. A statement the handler
was waiting for is then `adrift`, as is one whose answer was lost or that the
process was waiting for at a restart: it commits later (`Land`), whoever has
the lock, or never. `Panic` is an `unwrap` of a run going wrong: the task ends,
its guard, the receiver and all that is queued are dropped, and later sends
fail (`SendFails`). `RunHangs` is a run whose lookup of the address never ends.
A refused statement, a failed run and a restart are steps as well. A webhook's
hint and the value pushed belong to `Reconcile`.

After a run the worker saves it (`SaveRun`): the row is committed; it is not;
or it is, and the answer of the database is lost. `newest` is what the newest
row of `sync_runs` has listed; that it is the last one saved assumes that the
clock does not go back (`storage.rs:165` orders by `finished_at`).
`Syncer::last`, which the worker also sets, is read by nobody.

### Listing

The zone is a sequence in Cloudflare's order, a new record takes any place in
it, an edit may move one, and ids are handed out once. A listing asks for page
after page (`FetchPage`) while others create, delete and move records.

### Records

A text is what it stands for (a sequence of parts) and the form it is written
in (case, a final dot, blanks, quotes, leading zeros, ...). `Accepts` and
`Stored` are `validate`; `Checks` and `Collides` the constraints of the table;
`Unwraps`, `Sent` and `ContentMatches` are what `desired`, `caa_data` and
`content_matches` need and make of a stored row; `Listed` is in how many forms
Cloudflare may list it: names, addresses, CAA and SRV data in other spellings,
TXT as it was sent. TTL and the proxied flag (`sync.rs:356-357`) are compared
in `Reconcile`. The actions are the handlers' statements with their
answers (`ok`, `invalid`, `conflict`, `violated`).

### PublicAddress

The router has an address, which may change at any time, also during a vote.
Each service is a stream of at most `Most` answers, since some of the eight
give several of one provider, and every answer is collected and counted, as
`ip.rs:65-73` does: an honest service answers with the address it sees, a liar
anything, and a stream may end at any time. `had` collects the router's
addresses since the vote began. That a stream may never end is `ResolveHangs`
of `Reconcile`.

### Login

A tab is at the provider, or has a callback at the server, at one of its awaits
or accesses to shared memory: `exchange`, `load` and `swap` (the two accesses
to `last_refresh`), `fetch`, `replace`, `again` (the second verification). A
cookie jar belongs to a browser and holds the flow of the tab that logged in
last; every response of a callback removes it, so that a slow callback may end
a newer login of another tab. Keys are numbers, rotated by the provider, which
publishes the old one for a while or not. A session that expires is a logout.
Of the time stamp only its age matters: `Minute` makes it old, and a thread
between its load and its swap is assumed not to sleep through a minute.
Failures, closed connections, expired flows and restarts are counted in
`faults`.

## 3. Runs

| Run | Checks | Instance |
| --- | --- | --- |
| `faults` | `TypeOK`, `IInv`, `Accounting`, `SnapshotFresh`, `OneCopy`, `ForgetsOnlyTheGone`, `ImplementsOwnership` | two A rows of one name, 4 record ids; 2 API operations, a dropped handler, a dashboard change, a lost answer, a late write, a crash, any 4 of these |
| `kinds` | `SuccessIsSynced`, `CalmRunPushes`, `DeleteLeavesNothing` | an SRV name in two nested zones, a CAA name, one row; 3 operations, a dashboard change, a zone that appears, any 4 |
| `dynamic` | `DynamicConverges` | an A and a TXT name, two rows; 2 operations, a dashboard change, a change of address, a lost answer, a hanging lookup, a crash, any 3 |
| `calls` | `TypeOK`, `IInv`, `Tracked`, `ReadYourWrites`, `StatusFollows`, `Answered`, `AnsweredEditIsTried` | two connections, channel of one; any 2 of an operation, a dropped handler, a lost answer, a failed, an unsaved, a panicking or a hanging run, a restart |
| `login` | `TypeOK`, `OneFetchPerMinute`, `LoneLoginSucceeds`, `KeysSettle` | two tabs of an administrator, one of a user, two rotations, one fault |
| `listing` | `TypeOK`, `LossBounded`, `NeverOverflows` | two pages of two; 4 creations, 2 deletions, 2 moves, a failure |
| `inputs` | `NoPanic`, `ChecksNeverFire`, `EditKeepsRow`, `NoTwins`, `PushSettles`, `AddressIsOurs`, `HonestWins` | 700 requests against two rows; four services, two of them with two answers, one of these lying, two public addresses of the router |

The runs that expect a violation are listed below. `dynamic` and `calls` do not
check for deadlock, because a lookup that hangs stops the worker in the code,
and all who wait for the lock or the channel with it. `dynamic` hands out
record ids in one order only (`IdsInOrder`): they are opaque, and symmetry
cannot be used with liveness.

Why these are enough: each disturbance interferes through one row, one record
or one slot of the channel, so the smallest instance in which two of them can
meet has two rows, or one row and as many record ids as can be created in it
(an operation, a dashboard record, a recreation, a late creation). `Max["all"]`
lets any kinds meet, though not all of them at once. In `faults` a row needs
one operation, so that three disturbances are left to meet it. Two connections
with the timer make three senders compete for a channel of one, so that it is
full and requests overtake each other's waits; requests queue behind others in
the proofs, for every capacity. Two tabs of one browser meet in its cookie,
three callbacks give the swap a winner, a loser and one that comes too late; of
two rotations one can fall into a slow fetch. Pages of two have a record before
and after a shift, and with as many records as two pages hold the total meets
the page from both sides and the last page is full. Four services allow a tie
of two against two, also of one service's two answers. `inputs` runs two models
that share nothing: one rests in its initial state while the other runs. The
proofs remove the bounds for the safety properties they cover.

What the properties say, in words:

- `SnapshotFresh`: from its listing of the table to its end, a run's rows are
  what the table holds. This is what the lock is for; it holds for all rows but
  those that the statement of a dropped handler has changed since (`touched`).
- `SuccessIsSynced`: a run nothing has disturbed and that reports no error has
  left every row in its scope linked to a record with the row's content.
- `CalmRunPushes`: an undisturbed run pushes every row in its scope that has a
  value and a zone and that nothing obstructs (`Unobstructed`): no other row
  has its name and type or a link to a record that has them, and its own link,
  if any, names a record in its best zone and with its identity, or a gone one.
- `ForgetsOnlyTheGone`: a row forgets a record, or is deleted with one, only
  when the record is gone; when the run's listing left the live record out
  (`missed`), which takes an edit or a deletion between its pages; or when the
  DELETE of a dropped handler commits after a run has linked the row again.
- `OneCopy`: what was created and not saved is adopted, not created again: a
  row whose name and type are its identity has one record in a zone, as long
  as the row is the only source of records (`OnlySource`: no other row was
  ever created, nobody else made or edited a record, no POST landed late).
- `Accounting`: each listed row is counted once, and a failure is never hidden.
- `ImplementsOwnership`: a row holds one record, a record is held by one row,
  and a row lets go only of what no longer exists or was left out, or is
  itself doomed by a deletion that was abandoned after its record was removed.
- `DynamicConverges`: a dynamic row ends up at the router's address for good,
  whatever other rows there are, if there is a zone for it and nothing stands in
  its way (`Reconcilable`: no row with its name and type or a link to a record
  that has them; a link of its own that a run does not refuse); or the lookup
  of the address hangs.
- `Tracked`: who waits for an answer has exactly one request under way, nobody
  else has any.
- `ReadYourWrites`: an answer comes from a run that listed the table after the
  call was made.
- `DeleteLeavesNothing`: a deleted row leaves no record made for it, as long as
  every answer has come, nobody was dropped, the process has not crashed and no
  listing left a live record out (`Reliable`; see below).
- `StatusFollows`: who was answered finds that run, or a later one, as the
  newest of `sync_runs`, unless its saving failed.
- `OneFetchPerMinute`: however many callbacks race, one fetch a minute begins.
- `LoneLoginSucceeds`: an administrator's login that is alone and undisturbed
  ends in a session, also as the first after a rotation.
- `KeysSettle`: once the provider stops rotating, from some time on no login is
  refused because its key is not known.
- `LossBounded`: a listing misses, of the records there all the time, at most
  one for each record deleted or moved meanwhile, and none if there was none.
  `NeverOverflows`: it ends.
- `NoPanic`: no unwrap of a run fails on a stored row. `ChecksNeverFire`:
  `validate` refuses what the table would. `EditKeepsRow`: a row sent back as
  it was read stays as it is. `NoTwins`: no two rows ask for one record in two
  spellings. `PushSettles`: a row just pushed is up to date for the next run.
- `AddressIsOurs`: the address resolved is public, and one the router had
  during the vote or named itself, unless two answers told the same lie.
  `HonestWins`: two honest answers carry an address that does not change, if no
  other was told as often as they are many.
- `Answered`: every call is answered, or a lookup of the address hangs.
  `AnsweredEditIsTried`: a run over all rows that has listed an edit comes after
  its answer, unless the worker has died or hangs or the process is restarted.
  A static edit whose run fails, or that is lost with the channel in a restart,
  waits for the next manual run or edit (`sync.rs:448`).

Fairness. In `Reconcile` the worker and the deletion handler have weak
fairness, since tokio runs every task that can run and every call to Cloudflare
ends with an answer or the client's timeout, every one to Postgres with an
answer or an error. A lookup of the address has no timeout, and its end is not
assumed: it may hang (`ResolveHangs`, `RunHangs`), and the liveness properties
say what is left of them then. Requests have weak fairness as a whole, since
the timer never stops, and any source may be the one that keeps coming. No
disturbance is fair. In `SyncQueue` acquiring the lock and a permit of the
channel have strong fairness: both serve their waiters in order, so a waiter is
served although others keep taking the resource in between. Clients are not
fair: they may never call, or never go away; nor is what is adrift. In `Login`
only time passes (`Minute`) and a thread goes on from its load to its swap; a
fetch has no timeout, so nothing is assumed of it, and a callback that never
returns from it is no obstacle to the others. `KeysSettle` needs that only
finitely many fetches fail or are abandoned, which `MaxFaults` says.

### Disagreements with the documentation

These runs expect a violation; `PROJECT.json` quotes the lines.

| Run | Property | What happens |
| --- | --- | --- |
| `edited` | `CalmRunPushesAll` | an SRV row whose priority, weight or port is edited after it was pushed is refused by every later run (likewise the value of a CAA row) |
| `siblings` | `CalmRunPushesAll` | the second of two rows of one name and type adopts the record the first one holds, and fails for ever on the unique constraint |
| `paging` | `ClearsOnlyTheGone` | a deletion between two pages hides a live linked record, which the run takes for "deleted externally": it forgets the id and creates a second record |
| `dropped` | `CommittedEditIsPushed` | a client that goes away between the commit and the trigger leaves an edit that no timer or webhook run pushes |
| `aaaa` | `BothTypesResolve` | an AAAA row has to have a value, and nothing resolves an IPv6 address: dynamic AAAA records do not exist |

Observations that no run is made of:

- `web/src/components/ConfirmDelete.tsx:24` says that a deletion "removes the
  record from ddnser and from Cloudflare". When the answer to the creation, or
  the saving of the id, was lost, the row does not know of its record, and
  `delete_record` (`sync.rs:290`) removes the row only. This is why
  `DeleteLeavesNothing` speaks of a process that has lost no answer. The same
  holds after a listing that left the record out (`paging`).
- `README.md:22-23` says that "an identical Cloudflare record" is reused. The
  code adopts the first record of the same name and type (and CAA or SRV
  identity), whatever its content, and overwrites it (`sync.rs:374-395`).
- The comment at `ip.rs:60-63` wants no "single malicious resolver" to spoof
  the address, and `README.md:36-37` asks for "at least two agreeing resolvers".
  The vote counts answers (`ip.rs:70-75`): a service that gives two may agree
  with itself. `AddressIsOurs` is about answers for this reason. How many a
  service gives is not in the repository, so no run claims it.
- A linked record that is renamed in the dashboard to the name of another row
  blocks that row: the row tries to adopt it and the unique constraint refuses
  the link, on every run, although no row shares its name. `Unobstructed`
  excludes it beside the sibling of `siblings`.
- CAA values are stored with their quotes and leading zeros, so two CAA rows
  may mean the same; `NoTwins` leaves them out. The unique constraint has no
  column for priority and port, so two MX or SRV rows with one target are
  refused (409).

## 4. Proofs

Eight modules prove, for every value of the constants, from the assumptions in
the modules (`None` is none of the other values, a capacity and a page size are
positive, the functions have their types, others create no more records than
2^32 pages hold). Every
safety property of the passing runs, that is, every invariant and every action
property, is a theorem:

| Theorem | Statement |
| --- | --- |
| `ReconcileProofs!Inductive` | `Spec => []IInv` |
| `ReconcileProofs!TypeCorrect` | `Spec => []TypeOK` |
| `ReconcileProofs!Snapshot` | `Spec => []SnapshotFresh` |
| `ReconcileProofs!Forgets` | `Spec => ForgetsOnlyTheGone` |
| `ReconcileProofs!Refinement` | `Spec => ImplementsOwnership` |
| `ReconcileRunProofs!EveryRowCounted` | `Spec => []Accounting` |
| `ReconcileRunProofs!SuccessMeansSynced` | `Spec => []SuccessIsSynced` |
| `ReconcileRunProofs!CalmPushes` | `Spec => []CalmRunPushes` |
| `ReconcileCopyProofs!DeletesAll` | `Spec => DeleteLeavesNothing` |
| `ReconcileCopyProofs!OneRecordPerZone` | `Spec => []OneCopy` |
| `SyncQueueProofs!Inductive` | `Spec => []IInv` |
| `SyncQueueProofs!TypeCorrect` | `Spec => []TypeOK` |
| `SyncQueueProofs!EveryWaitTracked` | `Spec => []Tracked` |
| `SyncQueueProofs!AnswersAreCurrent` | `Spec => []ReadYourWrites` |
| `SyncQueueProofs!StatusIsCurrent` | `Spec => []StatusFollows` |
| `LoginProofs!TypeCorrect` | `Spec => []TypeOK` |
| `LoginProofs!FetchesAreRare` | `Spec => []OneFetchPerMinute` |
| `LoginProofs!AloneSucceeds` | `Spec => LoneLoginSucceeds` |
| `ListingProofs!TypeCorrect` | `Spec => []TypeOK` |
| `ListingProofs!LossIsBounded` | `Spec => []LossBounded` |
| `ListingProofs!PagesSuffice` | `Spec => []NeverOverflows` |
| `RecordsProofs!RowsStayGood` | `Spec => []Inv` |
| `RecordsProofs!RunsDoNotPanic` | `Spec => []NoPanic` |
| `RecordsProofs!ValidatePreempts` | `Spec => []ChecksNeverFire` |
| `RecordsProofs!ResubmitKeeps` | `Spec => []EditKeepsRow` |
| `RecordsProofs!OneSpelling` | `Spec => []NoTwins` |
| `RecordsProofs!NoEndlessRewriting` | `Spec => []PushSettles` |
| `PublicAddressProofs!NoForeignAddress` | `AddressSpec => []AddressIsOurs` |
| `PublicAddressProofs!HonestAddressWins` | `AddressSpec => []HonestWins` |

The invariant of the reconciler. `SnapshotFresh` needs to know who holds the
lock (`LockInv`) and what the worker is doing (`WorkerInv`); what commits
without the lock is in `touched`. That only the gone or the left out are
forgotten needs more: a run takes a record for gone when its cached listing
does not show it. The listing is of one zone, so the proof needs that a record
never changes zone and that all who mention it (the account, the table, the
cached listing and its pages, an abandoned write, the worker's target) agree on
the zone (`ZoneInv`); and it needs that a linked record missing from a cached
listing is in `missed`, or was gone when the listing ended and stays so,
because ids are not reused; and, while the pages come, that one which has not
come is gone or due (`StaleInv`). A late statement does not disturb this, since
it changes the link of no row that the run has yet to reach and gives none to a
row it has not listed (`SnapLinks`). A record that the deletion handler has
deleted stays deleted because ids are not reused (`DeleterInv`), so an
abandoned deletion dooms only a row whose record is gone. `LinkInv` is the
unique constraint and its consequences. The proof describes each step of the
account and of the table by one of a few moves (`CloudStep`, `TableStep`,
`RunStep`) and then goes through the moves instead of the forty actions. The
two modules below extend this one and rest on `IInv`.

The invariants of a run (`ReconcileRunProofs`). `AcctInv` is `Accounting` with
what it needs: the table is finite, and nothing is counted before the first
row. What an undisturbed run has done is `CalmInv`: while `quiet` holds, a
listing shows what is there, page by page (`SeenIsTrue`, `PagesAreTrue`), a
record about to be saved or fixed up is the one the row needs (`TargetInv`),
and every row the run is done with is synced unless an error was counted and
something obstructed it (`DoneInv`). The heart of the proof is that a later row
of the run does not undo an earlier one: it writes only to a record it is
linked to, has just created or has just adopted, and no two rows are linked to
one record (`LinkInv`). For `CalmRunPushes` a row that nothing obstructs must
also never fail, and stay unobstructed while the others are pushed: the links
and keys that other rows gain in the run are their own. The proof found the
premises of `CalmRunPushes` to be too weak as first written; see the renamed
record above.

The invariants of what runs create (`ReconcileCopyProofs`). `LateInv`: no write
is under way that its client has given up, if none was. `OriginInv`: as long as
every answer comes, a live record made for a row is the row's, or is about to
be saved as its own; it is inductive because a row forgets only what is gone
(`LetsGoOfGone`). `CopyInv`, for a row that is the only source of records:
every record has the row's name and type (`KeyInv`), the link leaves out no
record in its zone (`LinkLeavesOut`), the run's only listing shows every record
of the zone at hand and shows one at most, and a run that is about to create
has an empty zone before it (`AtHand`), even when it comes from a forgotten
link and never looked for a record to adopt.

The invariant of the scheduler. `Exclusive` ties the lock to its holder's
program counter; `Tracked` counts the requests of each waiting handler; and
`Promised` carries a call's promise from the moment it is made (`since`) to the
run that serves it: what it expects is at most what has been committed, and
when a run starts for it the run lists all of that.

`Saved` relates what was answered to what is stored.

The invariant of the login. A callback that has loaded a time stamp which is
still there has seen it old; so `recent` is false while `loaded` is not empty,
and the swap that begins a fetch empties it. `LoneInv` follows a login that is
alone from await to await: either the client has the provider's key, or no
fetch has begun for a minute, and then the tab wins the swap, fetches the key
and finds it at its second verification.

The invariant of the records: every row is `Good`, that is, accepted as it
stands and stored as it stands. The lemma behind it, `StoredIsGood`, says that
normalisation is idempotent and leads from accepted to accepted; what the
CHECK constraints, the unwraps and the comparison need of a row follows from
its being good. `NoTwins` also needs that no two rows collide.

The invariant of the vote: an honest service's answer is one of `had`. Two
votes for an address that is none of these are two lies (`ForeignVotes`). While
the router's address has not changed, all honest answers carry it and every
other address has the votes of liars only (`TheirVotes`).

The invariant of the listing: `Missed`, the records that were there all the
time and stand on a page already read, are at most as many as were deleted or
moved since. A deletion or a move brings one record at most from a page to come
to a page already read (`OneEdge`, `EdgeMissesOne`), an insertion none
(`InsertedAt`, `RemovedAt`). When the last page has been read, all that the
listing lacks is in `Missed`. The page number is bounded by the number of
records ever created.

Only model-checked: `DynamicConverges`, `Answered`, `AnsweredEditIsTried` and
`KeysSettle`, since liveness under fairness is out of the provers' reach, and
the properties that runs show to be violated.

## 5. Not modelled, and the plan

Not modelled: the lengths of names and TXT values; the encoding of requests and
the decoding of answers, beyond their failing; the text of `/metrics` and of
the webhook's answer; credentials and cryptography, taken as sound; command
line, routing and assets. A zone is not removed from the account while records
live in it. Two processes at once are excluded, as the comment at `sync.rs:60`
requires. Cloudflare is assumed to list a record as it was sent, but for the
case and final dot of names, the quotes of CAA values and the form of IPv6
addresses. A database call of a run that fails is taken to have had its effect
by then or not at all.

Next, in order:

1. The safety part of the liveness properties: what a run that meets no
   disturbance after the last one leaves, as an invariant of `Reconcile`.
2. A composition of `SyncQueue` with an abstract run that `Reconcile`
   implements.
3. A weaker premise for `OneCopy`: several rows of distinct names.
