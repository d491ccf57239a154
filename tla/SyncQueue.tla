----------------------------- MODULE SyncQueue -----------------------------
(***************************************************************************)
(* The scheduler of ddnser: the sync worker and its bounded channel, the   *)
(* timer, and the HTTP handlers that share mutation_lock with the worker   *)
(* or wait for its answer (sync.rs: Syncer; api.rs; webhook.rs).           *)
(*                                                                         *)
(* A run has two steps here (Reconcile has its inside): it lists the table *)
(* under the lock, then pushes what it listed, or fails, or panics, or     *)
(* waits for ever for a lookup of the address. The table is the number of  *)
(* changes committed to it, and a row of sync_runs the number that its run *)
(* has listed.                                                             *)
(***************************************************************************)
EXTENDS Naturals, Sequences

CONSTANTS
    Conns,     \* HTTP connections, one request at a time on each
    Capacity,  \* of the channel; 16 in sync.rs
    Kinds,     \* the requests that clients make
    Max,       \* the bound on each kind of disturbance
    None

Disturbances == {"op", "drop", "lost", "fail", "unsaved", "panic", "hang",
                 "crash", "all"}

ASSUME ConnAssumption == {None, "free", "worker"} \cap Conns = {}
ASSUME KindAssumption == /\ Kinds \subseteq {"edit", "delete", "sync", "webhook"}
                         /\ None \notin Kinds
ASSUME CapacityAssumption == Capacity \in Nat \ {0}
ASSUME BoundAssumption == Max \in [Disturbances -> Nat]

VARIABLES
    call,    \* the request on each connection and where its handler waits
    lock,    \* holder of mutation_lock
    queue,   \* the mpsc channel
    timer,   \* the timer task: in interval.tick, in send, or returned
    wpc,     \* the sync worker's next await
    cur,     \* the SyncRequest it serves
    result,  \* whether the run had no error
    table,   \* changes committed to the records table
    adrift,  \* statements of handlers that are no more that may still commit
    listed,  \* those the run in progress, or the last one, has listed
    tried,   \* those the last run over all rows has tried to push
    pushed,  \* those the last such run without an error has pushed
    newest,  \* the table that the newest row of sync_runs has listed
    kept,    \* history: whether the last outcome is in sync_runs
    used     \* disturbances so far, by kind and in all

channel == <<queue, timer>>
worker == <<wpc, cur, result>>
runs == <<newest, kept>>
data == <<table, adrift, listed, tried, pushed, runs>>
vars == <<call, lock, queue, timer, wpc, cur, result, table, adrift, listed,
          tried, pushed, newest, kept, used>>

-----------------------------------------------------------------------------
(* "since" and "heard" are history: the changes a request can expect a run *)
(* to see, and those the run that answered it had listed.                  *)
Waiting == {"lock", "mutate", "send", "reply"}
Call == [at: Waiting \cup {"idle", "ok"}, kind: Kinds \cup {None},
         since: Nat, heard: Nat]
NoCall == [at |-> "idle", kind |-> None, since |-> 0, heard |-> 0]

Request == [conn: Conns \cup {None}, source: {"timer", "webhook", "manual"}]
NoRequest == [conn |-> None, source |-> "timer"]

(* trigger and sync_now; a trigger has no oneshot to answer. *)
RequestOf(c) == [conn |-> IF call[c].kind = "edit" THEN None ELSE c,
                 source |-> IF call[c].kind = "webhook" THEN "webhook"
                            ELSE "manual"]
(* The oneshot of a handler that is no more has nobody to answer. *)
OrphanKept(req, c) == req  \* faulty
Orphan(req, c) == IF req.conn = c THEN [req EXCEPT !.conn = None] ELSE req

Spend(k) == /\ used[k] < Max[k] /\ used["all"] < Max["all"]
            /\ used' = [j \in Disturbances |-> IF j \in {k, "all"}
                                               THEN used[j] + 1 ELSE used[j]]
Goes(c, where) == call' = [call EXCEPT ![c].at = where]
Ends(c) == call' = [call EXCEPT ![c] = NoCall]
RoomForOneMore == wpc # "dead" /\ Len(queue) <= Capacity  \* faulty
HasRoom == wpc # "dead" /\ Len(queue) < Capacity

Init ==
    /\ call = [c \in Conns |-> NoCall]
    /\ lock = "free" /\ queue = <<>> /\ timer = "tick"
    /\ wpc = "recv" /\ cur = NoRequest /\ result = TRUE
    /\ table = 0 /\ adrift = 0 /\ listed = 0 /\ tried = 0 /\ pushed = 0
    /\ newest = 0 /\ kept = TRUE
    /\ used = [k \in Disturbances |-> 0]

-----------------------------------------------------------------------------
(* The handlers. *)

(* create_record and update_record, delete_record, sync_now, nic_update;   *)
(* a request that is refused before it waits for anything is left out.     *)
Arrive(c, k) ==
    /\ call[c].at \notin Waiting
    /\ \/ k \in {"edit", "delete"} /\ Spend("op")
       \/ k \in {"sync", "webhook"} /\ UNCHANGED used
    /\ call' = [call EXCEPT
                  ![c] = [at |-> IF k \in {"edit", "delete"} THEN "lock"
                                 ELSE "send",
                          kind |-> k, since |-> table, heard |-> 0]]
    /\ UNCHANGED <<lock, channel, worker, data>>

LockForMutation(c) ==
    /\ call[c].at = "lock" /\ lock = "free"
    /\ lock' = c /\ Goes(c, "mutate")
    /\ UNCHANGED <<channel, worker, data, used>>

(* The statement under the lock commits, or is refused. One whose answer   *)
(* is lost may commit later, though the handler has let go of the lock; an *)
(* edit is then answered with an error and triggers nothing.               *)
Commit(c) ==
    /\ table' = table + 1
    /\ call' = [call EXCEPT ![c].since = table + 1,
                            ![c].at = IF call[c].kind = "edit" THEN "send"
                                      ELSE "ok"]
Mutate(c) ==
    /\ call[c].at = "mutate" /\ lock' = "free"
    /\ \/ Commit(c) /\ UNCHANGED <<adrift, used>>
       \/ Ends(c) /\ UNCHANGED <<table, adrift, used>>
       \/ Ends(c) /\ Spend("lost") /\ adrift' = adrift + 1 /\ UNCHANGED table
    /\ UNCHANGED <<channel, worker, listed, tried, pushed, runs>>

TrySend(c) ==  \* faulty
    /\ call[c].at = "send" /\ wpc # "dead"
    /\ queue' = IF HasRoom THEN Append(queue, RequestOf(c)) ELSE queue
    /\ Goes(c, IF call[c].kind = "edit" THEN "ok" ELSE "reply")
    /\ UNCHANGED <<lock, timer, worker, data, used>>
SendForLast(c) ==  \* faulty
    /\ call[c].at = "send" /\ HasRoom
    /\ queue' = Append(queue, [RequestOf(c) EXCEPT !.conn = None])
    /\ call' = [call EXCEPT ![c].at = "ok", ![c].heard = listed]
    /\ UNCHANGED <<lock, timer, worker, data, used>>
(* tx.send: a permit of the channel's semaphore. *)
Send(c) ==
    /\ call[c].at = "send" /\ HasRoom
    /\ queue' = Append(queue, RequestOf(c))
    /\ Goes(c, IF call[c].kind = "edit" THEN "ok" ELSE "reply")
    /\ UNCHANGED <<lock, timer, worker, data, used>>

(* The receiver is gone: trigger ignores it, sync_now returns None. *)
SendFails(c) ==
    /\ call[c].at = "send" /\ wpc = "dead"
    /\ \/ call[c].kind = "edit" /\ Goes(c, "ok")
       \/ call[c].kind # "edit" /\ Ends(c)
    /\ UNCHANGED <<lock, channel, worker, data, used>>

DropKeepsLock(c) ==  \* faulty
    /\ call[c].at \in Waiting /\ Spend("drop")
    /\ Ends(c)
    /\ cur' = Orphan(cur, c)
    /\ queue' = [i \in 1..Len(queue) |-> Orphan(queue[i], c)]
    /\ UNCHANGED <<lock, timer, wpc, result, data>>
(* The client goes away and the server drops the handler at its await, and *)
(* the lock with it; the statement it was waiting for may still commit.    *)
Drop(c) ==
    /\ call[c].at \in Waiting /\ Spend("drop")
    /\ Ends(c)
    /\ lock' = IF lock = c THEN "free" ELSE lock
    /\ cur' = Orphan(cur, c)
    /\ queue' = [i \in 1..Len(queue) |-> Orphan(queue[i], c)]
    /\ \/ UNCHANGED adrift
       \/ call[c].at = "mutate" /\ adrift' = adrift + 1
    /\ UNCHANGED <<timer, wpc, result, table, listed, tried, pushed, runs>>

(* A statement commits after its handler is gone, whoever has the lock.    *)
Land ==
    /\ adrift > 0 /\ adrift' = adrift - 1
    /\ table' = table + 1
    /\ UNCHANGED <<call, lock, channel, worker, listed, tried, pushed, runs,
                   used>>

-----------------------------------------------------------------------------
(* The timer. *)

Tick ==
    /\ timer = "tick" /\ timer' = "send"
    /\ UNCHANGED <<call, lock, queue, worker, data, used>>

TimerSend ==
    /\ timer = "send"
    /\ \/ /\ HasRoom /\ timer' = "tick"
          /\ queue' = Append(queue, NoRequest)
       \/ wpc = "dead" /\ timer' = "ended" /\ UNCHANGED queue
    /\ UNCHANGED <<call, lock, worker, data, used>>

-----------------------------------------------------------------------------
(* The worker. *)

Receive ==
    /\ wpc = "recv" /\ queue # <<>>
    /\ cur' = Head(queue) /\ queue' = Tail(queue)
    /\ wpc' = "lock"
    /\ UNCHANGED <<call, lock, timer, result, data, used>>

LockForRun ==
    /\ wpc = "lock" /\ lock = "free"
    /\ lock' = "worker" /\ wpc' = "run"
    /\ listed' = table
    /\ UNCHANGED <<call, channel, cur, result, table, adrift, tried, pushed,
                   runs, used>>

(* A timer or webhook run counts static rows as unchanged. *)
AfterRunUnsaved == "answer"  \* faulty
AfterRun == "save"
RunSync ==
    /\ wpc = "run" /\ wpc' = AfterRun /\ lock' = "free"
    /\ tried' = IF cur.source = "manual" THEN listed ELSE tried
    /\ \/ /\ result' = TRUE
          /\ pushed' = IF cur.source = "manual" THEN listed ELSE pushed
          /\ UNCHANGED used
       \/ result' = FALSE /\ Spend("fail") /\ UNCHANGED pushed
    /\ UNCHANGED <<call, channel, cur, table, adrift, listed, runs>>

(* Nothing bounds the time of a lookup of the address (ip.rs:64).          *)
RunHangs ==
    /\ wpc = "run" /\ wpc' = "hung" /\ Spend("hang")
    /\ UNCHANGED <<call, lock, channel, cur, result, data>>

PanicKeepsLock ==  \* faulty
    /\ wpc = "run" /\ Spend("panic")
    /\ wpc' = "dead" /\ queue' = <<>> /\ cur' = NoRequest
    /\ call' = [c \in Conns |-> IF call[c].at = "reply" THEN NoCall
                                ELSE call[c]]
    /\ UNCHANGED <<lock, timer, result, data>>
(* A panic ends the task: the guard, the receiver with everything queued   *)
(* and every oneshot in it are dropped, and nobody restarts it.            *)
Panic ==
    /\ wpc = "run" /\ Spend("panic")
    /\ wpc' = "dead" /\ lock' = "free"
    /\ queue' = <<>> /\ cur' = NoRequest
    /\ call' = [c \in Conns |-> IF call[c].at = "reply" THEN NoCall
                                ELSE call[c]]
    /\ UNCHANGED <<timer, result, data>>

(* save_sync_run: the row is committed; it is not, which is only logged;   *)
(* or it is and nobody hears of it.                                        *)
SaveRun ==
    /\ wpc = "save" /\ wpc' = "answer"
    /\ \/ newest' = listed /\ kept' = TRUE /\ UNCHANGED used
       \/ Spend("unsaved") /\ kept' = FALSE /\ newest' \in {newest, listed}
    /\ UNCHANGED <<call, lock, channel, cur, result, table, adrift, listed,
                   tried, pushed>>

(* POST /api/sync returns the outcome as it is, nic_update an error (911)  *)
(* for one that is not ok.                                                 *)
Answer ==
    /\ wpc = "answer" /\ wpc' = "recv" /\ cur' = NoRequest
    /\ LET c == cur.conn
       IN  \/ c = None /\ UNCHANGED call
           \/ /\ c # None /\ (call[c].kind = "webhook" => result)
              /\ call' = [call EXCEPT ![c].at = "ok", ![c].heard = listed]
           \/ c # None /\ call[c].kind = "webhook" /\ ~result /\ Ends(c)
    /\ UNCHANGED <<lock, channel, result, data, used>>

(* The process dies and is restarted; a statement in progress may commit.  *)
Crash ==
    /\ Spend("crash")
    /\ call' = [c \in Conns |-> NoCall]
    /\ lock' = "free" /\ queue' = <<>> /\ timer' = "tick"
    /\ wpc' = "recv" /\ cur' = NoRequest
    /\ \/ UNCHANGED adrift
       \/ (\E c \in Conns : call[c].at = "mutate") /\ adrift' = adrift + 1
    /\ \/ UNCHANGED newest
       \/ wpc = "save" /\ newest' = listed
    /\ UNCHANGED <<result, table, listed, tried, pushed, kept>>

-----------------------------------------------------------------------------
WorkerStep == Receive \/ LockForRun \/ RunSync \/ SaveRun \/ Answer
Next ==
    \/ \E c \in Conns : \/ \E k \in Kinds : Arrive(c, k)
                        \/ LockForMutation(c) \/ Mutate(c)
                        \/ Send(c) \/ SendFails(c) \/ Drop(c)
    \/ Land
    \/ Tick \/ TimerSend
    \/ WorkerStep \/ RunHangs \/ Panic \/ Crash

Spec == Init /\ [][Next]_vars

(* tokio runs every task that can run, every call to the database or to    *)
(* Cloudflare ends, a run ends unless a lookup of the address hangs, and   *)
(* both the mutex and the channel serve their waiters in order, so that    *)
(* whoever keeps asking is served. Nobody has to make a call, and what is  *)
(* adrift need not land.                                                   *)
Fairness ==
    /\ WF_vars(WorkerStep) /\ SF_vars(LockForRun)
    /\ WF_vars(Tick) /\ SF_vars(TimerSend)
    /\ \A c \in Conns : /\ SF_vars(LockForMutation(c)) /\ WF_vars(Mutate(c))
                        /\ SF_vars(Send(c)) /\ WF_vars(SendFails(c))
FairSpec == Spec /\ Fairness

=============================================================================
