--------------------------- MODULE SyncQueueProps --------------------------
(* What the scheduler must do, and the invariant of SyncQueueProofs.       *)
EXTENDS SyncQueue

(* Every variable has its type, and the channel holds at most Capacity.    *)
TypeOK ==
    /\ call \in [Conns -> Call]
    /\ lock \in {"free", "worker"} \cup Conns
    /\ queue \in Seq(Request) /\ Len(queue) <= Capacity
    /\ timer \in {"tick", "send", "ended"}
    /\ wpc \in {"recv", "lock", "run", "hung", "save", "answer", "dead"}
    /\ cur \in Request
    /\ result \in BOOLEAN
    /\ table \in Nat /\ adrift \in Nat /\ listed \in Nat
    /\ tried \in Nat /\ pushed \in Nat /\ newest \in Nat /\ kept \in BOOLEAN
    /\ used \in [Disturbances -> Nat]

(* A sync or webhook call is answered with the outcome of a run that       *)
(* listed the table after the call was made (sync.rs:138-153): whatever    *)
(* was committed when the caller asked is in the answer, however many runs *)
(* were queued or under way.                                               *)
ReadYourWrites ==
    \A c \in Conns :
        call[c].at = "ok" /\ call[c].kind \in {"sync", "webhook"} =>
            call[c].heard >= call[c].since

(* Who reads /api/status or the metrics after the answer to a sync or      *)
(* webhook call finds that call's run or a later one, unless the outcome   *)
(* of the last run could not be saved (sync.rs:82-98, storage.rs:163).     *)
StatusFollows ==
    \A c \in Conns :
        call[c].at = "ok" /\ call[c].kind \in {"sync", "webhook"} =>
            newest >= call[c].heard \/ ~kept

(* Every handler that waits for an answer has exactly one request in the   *)
(* channel or with the worker, and nobody else has one: no oneshot is      *)
(* forgotten when a client goes away, a run panics or the process dies.    *)
Pending(c) == {i \in 1..Len(queue) : queue[i].conn = c}
TrackedAt(c) ==
    IF call[c].at = "reply"
    THEN \/ cur.conn = c /\ Pending(c) = {}
         \/ cur.conn # c /\ \E i \in 1..Len(queue) : Pending(c) = {i}
    ELSE cur.conn # c /\ Pending(c) = {}
Tracked == \A c \in Conns : TrackedAt(c)

(* Every request is answered, or its client has gone: with the channel     *)
(* full, the lock taken, the worker dead from a panic, or the process      *)
(* restarted; unless a lookup of the address never ends (ip.rs:64), which  *)
(* keeps worker, lock and channel for good.                                *)
Answered ==
    \A c \in Conns :
        call[c].at \in Waiting ~> call[c].at \notin Waiting \/ wpc = "hung"

(* A later run over all rows tries to push an edit that was answered with  *)
(* success (api.rs:162, 189), whatever else is dropped, fails or commits   *)
(* late: only a panic, a hanging lookup or a restart, which empties the    *)
(* channel, leaves it to the next such run. A run that fails is its try.   *)
AnsweredEditIsTried ==
    \A n \in 1..Max["op"], b \in 0..Max["crash"] :
        /\ used["crash"] = b
        /\ \E c \in Conns : /\ call[c].at = "ok" /\ call[c].kind = "edit"
                           /\ call[c].since = n
        ~> tried >= n \/ wpc \in {"dead", "hung"} \/ used["crash"] > b

(* README.md:27, "Static records are pushed when created or edited": with  *)
(* edits as the only changes, every committed one is pushed.               *)
CommittedEditIsPushed ==
    \A n \in 1..Max["op"] : table >= n ~> pushed >= n

-----------------------------------------------------------------------------
(* The inductive invariant. *)

(* The lock has the holder that its users take it to have. *)
Exclusive == /\ lock = "worker" <=> wpc \in {"run", "hung"}
             /\ \A c \in Conns : lock = c <=> call[c].at = "mutate"

(* What a request was promised, up to the answer. *)
Serving == wpc \in {"run", "hung", "save", "answer"}
Promised ==
    /\ wpc \in {"recv", "dead"} => cur = NoRequest
    /\ \A c \in Conns : /\ call[c].since <= table
                        /\ call[c].at \in {"lock", "mutate"} =>
                             call[c].kind \in {"edit", "delete"}
                        /\ Serving /\ cur.conn = c => listed >= call[c].since

(* What has been answered is in sync_runs, unless the last save failed.    *)
Saved ==
    /\ newest <= listed /\ listed <= table
    /\ wpc = "answer" => newest = listed \/ ~kept
    /\ \A c \in Conns : call[c].heard <= listed

IInv == /\ TypeOK /\ Exclusive /\ Tracked /\ Promised /\ ReadYourWrites
        /\ Saved /\ StatusFollows

=============================================================================
