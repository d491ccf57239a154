--------------------------- MODULE SyncQueueProofs -------------------------
(***************************************************************************)
(* Proofs about the scheduler, for every number of connections, capacity   *)
(* of the channel and number of disturbances.                              *)
(***************************************************************************)
EXTENDS SyncQueueProps, TLAPS

(* Before anything has happened.                                           *)
LEMMA InitInv == Init => IInv
BY ConnAssumption, CapacityAssumption, BoundAssumption
DEF Init, IInv, TypeOK, Exclusive, Tracked, Promised, ReadYourWrites, Pending,
    TrackedAt, NoCall, NoRequest, Call, Request, Waiting, Serving,
    Saved, StatusFollows

(* Disturbances are counted.                                               *)
LEMMA SpendType ==
    ASSUME TypeOK, NEW k \in Disturbances, Spend(k)
    PROVE  used' \in [Disturbances -> Nat]
BY DEF TypeOK, Spend

(* A handler at its next await is still a handler.                         *)
LEMMA GoesType ==
    ASSUME TypeOK, NEW c \in Conns,
           NEW where \in Waiting \cup {"idle", "ok"}, Goes(c, where)
    PROVE  /\ call' \in [Conns -> Call]
           /\ call'[c].at = where /\ call'[c].kind = call[c].kind
           /\ call'[c].since = call[c].since
           /\ call'[c].heard = call[c].heard
           /\ \A d \in Conns \ {c} : call'[d] = call[d]
<1> DEFINE new == [call[c] EXCEPT !.at = where]
<1>0. call[c] \in Call
  BY DEF TypeOK
<1>1. /\ new \in Call /\ new.at = where /\ new.kind = call[c].kind
      /\ new.since = call[c].since /\ new.heard = call[c].heard
  BY <1>0 DEF Call
<1>2. call' = [call EXCEPT ![c] = new]
  BY DEF Goes
<1> HIDE DEF new
<1> QED
  BY <1>1, <1>2 DEF TypeOK

(* A handler that has returned, or was dropped, has no call.               *)
LEMMA EndsType ==
    ASSUME TypeOK, NEW c \in Conns, Ends(c)
    PROVE  /\ call' \in [Conns -> Call]
           /\ call'[c] = NoCall
           /\ \A d \in Conns \ {c} : call'[d] = call[d]
<1>1. NoCall \in Call
  BY DEF NoCall, Call
<1> QED
  BY <1>1 DEF TypeOK, Ends

(* A new request.                                                          *)
LEMMA ArriveType ==
    ASSUME TypeOK, NEW c \in Conns, NEW k \in Kinds, Arrive(c, k)
    PROVE  /\ call' \in [Conns -> Call]
           /\ call'[c].at \in {"lock", "send"}
           /\ call'[c].kind = k /\ call'[c].since = table
           /\ call'[c].at = "lock" => k \in {"edit", "delete"}
           /\ \A d \in Conns \ {c} : call'[d] = call[d]
<1> DEFINE new == [at |-> IF k \in {"edit", "delete"} THEN "lock" ELSE "send",
                   kind |-> k, since |-> table, heard |-> 0]
<1>1. /\ new \in Call /\ new.at \in {"lock", "send"}
      /\ new.kind = k /\ new.since = table
      /\ new.at = "lock" => k \in {"edit", "delete"}
  BY DEF TypeOK, Call, Waiting
<1>2. call' = [call EXCEPT ![c] = new]
  BY DEF Arrive
<1> HIDE DEF new
<1> QED
  BY <1>1, <1>2 DEF TypeOK

(* A committed change.                                                     *)
LEMMA CommitType ==
    ASSUME TypeOK, NEW c \in Conns, Commit(c)
    PROVE  /\ call' \in [Conns -> Call] /\ table' = table + 1
           /\ call'[c].at \in {"send", "ok"}
           /\ call'[c].kind = call[c].kind /\ call'[c].since = table + 1
           /\ \A d \in Conns \ {c} : call'[d] = call[d]
<1> DEFINE here == IF call[c].kind = "edit" THEN "send" ELSE "ok"
           new == [call[c] EXCEPT !.since = table + 1, !.at = here]
<1>0. call[c] \in Call /\ table + 1 \in Nat /\ here \in {"send", "ok"}
  BY DEF TypeOK
<1>2. call' = [call EXCEPT ![c] = new] /\ table' = table + 1
  BY DEF Commit
<1> HIDE DEF here
<1>1. /\ new \in Call /\ new.at \in {"send", "ok"}
      /\ new.kind = call[c].kind /\ new.since = table + 1
  BY <1>0 DEF Call, Waiting
<1> HIDE DEF new
<1> QED
  BY <1>1, <1>2 DEF TypeOK

(* What is sent through the channel is a request.                          *)
LEMMA RequestType ==
    ASSUME TypeOK, NEW c \in Conns
    PROVE  RequestOf(c) \in Request /\ NoRequest \in Request
BY DEF RequestOf, NoRequest, Request

-----------------------------------------------------------------------------
(* Types. *)

(* Every step keeps every variable in its type.                            *)
LEMMA TypeStep ==
    ASSUME TypeOK, Tracked, Next
    PROVE  TypeOK'
<1> USE DEF channel, worker, data, runs
<1>1. ASSUME NEW c \in Conns, NEW k \in Kinds, Arrive(c, k)
      PROVE  TypeOK'
  <2>1. used' \in [Disturbances -> Nat]
    BY <1>1, SpendType DEF Arrive, TypeOK, Disturbances
  <2> QED
    BY <1>1, <2>1, ArriveType DEF Arrive, TypeOK
<1>2. ASSUME NEW c \in Conns, LockForMutation(c)
      PROVE  TypeOK'
  BY <1>2, GoesType DEF LockForMutation, TypeOK, Waiting
<1>3. ASSUME NEW c \in Conns, Mutate(c)
      PROVE  TypeOK'
  <2>1. CASE Commit(c) /\ UNCHANGED <<adrift, used>>
    BY <1>3, <2>1, CommitType DEF Mutate, TypeOK
  <2>2. CASE Ends(c)
    <3>1. call' \in [Conns -> Call]
      BY <2>2, EndsType
    <3>2. /\ lock' = "free"
          /\ UNCHANGED <<channel, worker, listed, tried, pushed, runs>>
      BY <1>3 DEF Mutate
    <3>3. /\ used' \in [Disturbances -> Nat]
          /\ table' \in Nat /\ adrift' \in Nat
      <4>1. CASE UNCHANGED <<table, adrift, used>>
        BY <4>1 DEF TypeOK
      <4>2. CASE Spend("lost") /\ adrift' = adrift + 1 /\ UNCHANGED table
        BY <4>2, SpendType DEF TypeOK, Disturbances
      <4>3. CASE Commit(c) /\ UNCHANGED <<adrift, used>>
        BY <4>3 DEF Commit, TypeOK
      <4> QED
        BY <1>3, <4>1, <4>2, <4>3 DEF Mutate
    <3> QED
      BY <3>1, <3>2, <3>3 DEF TypeOK
  <2> QED
    BY <1>3, <2>1, <2>2 DEF Mutate
<1>4. ASSUME NEW c \in Conns, Send(c)
      PROVE  TypeOK'
  <2>1. call' \in [Conns -> Call]
    BY <1>4, GoesType DEF Send, Waiting
  <2>2. queue' \in Seq(Request) /\ Len(queue') <= Capacity
    BY <1>4, RequestType, CapacityAssumption DEF Send, HasRoom, TypeOK
  <2> QED
    BY <1>4, <2>1, <2>2 DEF Send, TypeOK
<1>5. ASSUME NEW c \in Conns, SendFails(c)
      PROVE  TypeOK'
  BY <1>5, GoesType, EndsType DEF SendFails, TypeOK
<1>6. ASSUME NEW c \in Conns, Drop(c)
      PROVE  TypeOK'
  <2>1. \A q \in Request : Orphan(q, c) \in Request
    BY DEF Orphan, Request
  <2>2. queue' \in Seq(Request) /\ Len(queue') = Len(queue)
    <3>1. /\ queue \in Seq(Request)
          /\ queue' = [i \in 1..Len(queue) |-> Orphan(queue[i], c)]
      BY <1>6 DEF Drop, TypeOK
    <3>2. /\ Len(queue) \in Nat
          /\ \A i \in 1..Len(queue) : Orphan(queue[i], c) \in Request
      BY <2>1, <3>1
    <3> QED
      BY <3>1, <3>2
  <2>3. adrift' \in Nat /\ used' \in [Disturbances -> Nat]
    <3>1. Spend("drop") /\ "drop" \in Disturbances
      BY <1>6 DEF Drop, Disturbances
    <3>2. adrift' = adrift \/ adrift' = adrift + 1
      BY <1>6 DEF Drop
    <3>3. adrift' \in Nat
      BY <3>2 DEF TypeOK
    <3> QED
      BY <3>1, <3>3, SpendType
  <2>4. cur' \in Request /\ lock' \in {"free", "worker"} \cup Conns
    BY <1>6, <2>1 DEF Drop, TypeOK
  <2>5. call' \in [Conns -> Call]
    BY <1>6, EndsType DEF Drop
  <2> QED
    BY <1>6, <2>2, <2>3, <2>4, <2>5 DEF Drop, TypeOK
<1>7. CASE Tick
  BY <1>7 DEF Tick, TypeOK
<1>8. CASE TimerSend
  <2>1. queue' \in Seq(Request) /\ Len(queue') <= Capacity
    <3>1. NoRequest \in Request
      BY DEF NoRequest, Request
    <3> QED
      BY <1>8, <3>1, CapacityAssumption DEF TimerSend, HasRoom, TypeOK
  <2> QED
    BY <1>8, <2>1 DEF TimerSend, TypeOK
<1>9. CASE Receive
  <2>1. /\ cur' \in Request /\ queue' \in Seq(Request)
        /\ Len(queue') <= Capacity
    BY <1>9, CapacityAssumption DEF Receive, TypeOK
  <2> QED
    BY <1>9, <2>1 DEF Receive, TypeOK
<1>10. CASE LockForRun \/ SaveRun
  <2>1. CASE LockForRun
    BY <2>1 DEF LockForRun, TypeOK
  <2>2. CASE SaveRun
    <3>1. used' \in [Disturbances -> Nat]
      BY <2>2, SpendType DEF SaveRun, TypeOK, Disturbances
    <3>2. /\ newest' \in Nat /\ kept' \in BOOLEAN /\ wpc' = "answer"
      BY <2>2 DEF SaveRun, TypeOK
    <3>3. UNCHANGED <<call, lock, channel, cur, result, table, adrift, listed,
                      tried, pushed>>
      BY <2>2 DEF SaveRun
    <3> QED
      BY <3>1, <3>2, <3>3 DEF TypeOK
  <2> QED
    BY <1>10, <2>1, <2>2
<1>11. CASE RunSync
  BY <1>11, SpendType DEF RunSync, AfterRun, TypeOK, Disturbances
<1>12. CASE Panic \/ Crash
  <2>1. /\ NoCall \in Call /\ NoRequest \in Request
        /\ <<>> \in Seq(Request) /\ Len(<<>>) = 0
    BY DEF NoCall, Call, NoRequest, Request
  <2>2. used' \in [Disturbances -> Nat]
    BY <1>12, SpendType DEF Panic, Crash, Disturbances
  <2>3. /\ call' \in [Conns -> Call] /\ adrift' \in Nat
        /\ newest' \in Nat /\ kept' \in BOOLEAN
    BY <1>12, <2>1 DEF Panic, Crash, TypeOK
  <2>4. cur' \in Request /\ queue' \in Seq(Request) /\ Len(queue') <= Capacity
    <3>1. cur' = NoRequest /\ queue' = <<>>
      BY <1>12 DEF Panic, Crash
    <3> QED
      BY <2>1, <3>1, CapacityAssumption
  <2> QED
    BY <1>12, <2>2, <2>3, <2>4 DEF Panic, Crash, TypeOK
<1>13. CASE Answer
  <2>1. NoRequest \in Request
    BY DEF NoRequest, Request
  <2>2. call' \in [Conns -> Call]
    <3>1. cur.conn # None => cur.conn \in Conns
      BY DEF TypeOK, Request
    <3>2. CASE call' = [call EXCEPT ![cur.conn].at = "ok",
                                    ![cur.conn].heard = listed]
               /\ cur.conn # None
      <4> DEFINE new == [call[cur.conn] EXCEPT !.at = "ok", !.heard = listed]
      <4>1. new \in Call
        <5>1. call[cur.conn] \in Call /\ listed \in Nat
          BY <3>1, <3>2 DEF TypeOK
        <5>2. \A old \in Call :
                 [old EXCEPT !.at = "ok", !.heard = listed] \in Call
          BY <5>1 DEF Call
        <5> QED
          BY <5>1, <5>2
      <4>2. call' = [call EXCEPT ![cur.conn] = new]
        <5>1. call' = [call EXCEPT ![cur.conn].at = "ok",
                                   ![cur.conn].heard = listed]
          BY <3>2
        <5>2. call' = [call EXCEPT ![cur.conn] =
                                     [@ EXCEPT !.at = "ok", !.heard = listed]]
          BY <3>1, <5>1, <3>2 DEF TypeOK
        <5> QED
          BY <5>2
      <4> HIDE DEF new
      <4> QED
        BY <4>1, <4>2 DEF TypeOK
    <3> QED
      BY <1>13, <3>1, <3>2, EndsType DEF Answer, TypeOK
  <2> QED
    BY <1>13, <2>1, <2>2 DEF Answer, TypeOK
<1>14. CASE RunHangs
  BY <1>14, SpendType DEF RunHangs, TypeOK, Disturbances
<1>15. CASE Land
  BY <1>15 DEF Land, TypeOK
<1> QED
  BY <1>1, <1>2, <1>3, <1>4, <1>5, <1>6, <1>7, <1>8, <1>9, <1>10, <1>11,
     <1>12, <1>13, <1>14, <1>15 DEF Next, WorkerStep

-----------------------------------------------------------------------------
(* The lock. *)

(* The lock passes only from nobody to its new holder and back.            *)
LEMMA ExclusiveStep ==
    ASSUME IInv, Next
    PROVE  Exclusive'
<1> TypeOK /\ Exclusive /\ Tracked
  BY DEF IInv
<1> USE ConnAssumption DEF channel, worker, data, runs
<1>1. ASSUME UNCHANGED lock,
             wpc' \in {"run", "hung"} <=> wpc \in {"run", "hung"},
             \A c \in Conns : call'[c].at = "mutate" <=> call[c].at = "mutate"
      PROVE  Exclusive'
  BY <1>1 DEF Exclusive
<1>2. ASSUME NEW c \in Conns, NEW k \in Kinds, Arrive(c, k)
      PROVE  Exclusive'
  BY <1>1, <1>2, ArriveType DEF Arrive, Waiting
<1>3. ASSUME NEW c \in Conns, LockForMutation(c)
      PROVE  Exclusive'
  BY <1>3, GoesType DEF LockForMutation, Exclusive, Waiting
<1>4. ASSUME NEW c \in Conns, Mutate(c)
      PROVE  Exclusive'
  <2>1. /\ call'[c].at # "mutate"
        /\ \A d \in Conns \ {c} : call'[d] = call[d]
    <3>1. CASE Commit(c)
      BY <3>1, CommitType
    <3>2. CASE Ends(c)
      BY <3>2, EndsType DEF NoCall
    <3> QED
      BY <1>4, <3>1, <3>2 DEF Mutate
  <2> QED
    BY <1>4, <2>1 DEF Mutate, Exclusive
<1>5. ASSUME NEW c \in Conns, Send(c) \/ SendFails(c)
      PROVE  Exclusive'
  <2>1. call'[c].at # "mutate" /\ \A d \in Conns \ {c} : call'[d] = call[d]
    <3>1. ASSUME NEW where \in {"ok", "reply"}, Goes(c, where)
          PROVE  <2>1
      <4>1. where \in Waiting \cup {"idle", "ok"}
        BY DEF Waiting
      <4> QED
        BY <3>1, <4>1, GoesType
    <3> QED
      BY <1>5, <3>1, EndsType DEF Send, SendFails, NoCall
  <2> QED
    BY <1>1, <1>5, <2>1 DEF Send, SendFails
<1>6. ASSUME NEW c \in Conns, Drop(c)
      PROVE  Exclusive'
  <2>1. call'[c].at # "mutate" /\ \A d \in Conns \ {c} : call'[d] = call[d]
    BY <1>6, EndsType DEF Drop, NoCall
  <2> QED
    BY <1>6, <2>1 DEF Drop, Exclusive
<1>7. CASE Tick \/ TimerSend \/ Receive \/ SaveRun \/ RunHangs \/ Land
  BY <1>1, <1>7 DEF Tick, TimerSend, Receive, SaveRun, RunHangs, Land
<1>8. CASE LockForRun \/ RunSync \/ Crash
  BY <1>8 DEF LockForRun, RunSync, AfterRun, Crash, Exclusive, NoCall
<1>9. CASE Panic
  BY <1>9 DEF Panic, Exclusive, NoCall
<1>10. CASE Answer
  <2>1. cur.conn # None => cur.conn \in Conns /\ call[cur.conn].at = "reply"
    BY DEF TypeOK, Request, Tracked, TrackedAt
  <2>2. \A c \in Conns : c # cur.conn => call'[c] = call[c]
    BY <1>10, <2>1, EndsType DEF Answer, TypeOK
  <2>3. cur.conn # None => call'[cur.conn].at \in {"ok", "idle"}
    BY <1>10, <2>1, EndsType DEF Answer, NoCall, TypeOK, Call
  <2>4. \A c \in Conns : call'[c].at = "mutate" <=> call[c].at = "mutate"
    BY <2>1, <2>2, <2>3
  <2> QED
    BY <1>1, <1>10, <2>4 DEF Answer
<1> QED
  BY <1>2, <1>3, <1>4, <1>5, <1>6, <1>7, <1>8, <1>9, <1>10
  DEF Next, WorkerStep

-----------------------------------------------------------------------------
(* Who waits for whom. *)

(* A step that leaves the channel and the worker's request alone, and that *)
(* starts and ends no wait for an answer, keeps every wait tracked.        *)
LEMMA TrackedKept ==
    ASSUME Tracked, UNCHANGED <<queue, cur>>,
           \A c \in Conns : call'[c].at = "reply" <=> call[c].at = "reply"
    PROVE  Tracked'
BY DEF Tracked, TrackedAt, Pending

(* One more request at the end of the channel is pending for its sender    *)
(* and for nobody else.                                                    *)
LEMMA AppendPends ==
    ASSUME TypeOK, NEW req \in Request, queue' = Append(queue, req),
           NEW c \in Conns
    PROVE  /\ Len(queue') = Len(queue) + 1
           /\ req.conn # c => Pending(c)' = Pending(c)
           /\ req.conn = c => Pending(c)' = Pending(c) \cup {Len(queue) + 1}
<1>1. /\ Len(queue') = Len(queue) + 1 /\ Len(queue) \in Nat
      /\ queue'[Len(queue) + 1] = req
      /\ \A i \in 1..Len(queue) : queue'[i] = queue[i]
  BY DEF TypeOK
<1>2. 1..Len(queue') = 1..Len(queue) \cup {Len(queue) + 1}
  BY <1>1
<1>3. Pending(c)' = {i \in 1..Len(queue') : queue'[i].conn = c}
  BY DEF Pending
<1> QED
  BY <1>1, <1>2, <1>3 DEF Pending

(* A request to send is pending once it is sent, unless it is a trigger.   *)
LEMMA SendTracked ==
    ASSUME TypeOK, Tracked, NEW c \in Conns, Send(c)
    PROVE  Tracked'
<1> USE ConnAssumption
<1> DEFINE where == IF call[c].kind = "edit" THEN "ok" ELSE "reply"
<1>1. /\ RequestOf(c) \in Request /\ queue' = Append(queue, RequestOf(c))
      /\ cur' = cur /\ call[c].at = "send"
  BY RequestType DEF Send, worker
<1>2. call'[c].at = where /\ \A d \in Conns \ {c} : call'[d] = call[d]
  <2>1. Goes(c, where) /\ where \in Waiting \cup {"idle", "ok"}
    BY DEF Send, Waiting
  <2> HIDE DEF where
  <2> QED
    BY <2>1, GoesType
<1>3. RequestOf(c).conn = IF call[c].kind = "edit" THEN None ELSE c
  BY DEF RequestOf
<1>4. cur.conn # c /\ Pending(c) = {}
  BY <1>1 DEF Tracked, TrackedAt
<1>5. ASSUME NEW d \in Conns \ {c}
      PROVE  TrackedAt(d)'
  <2>1. Pending(d)' = Pending(d) /\ Len(queue') = Len(queue) + 1
    BY <1>1, <1>3, AppendPends
  <2>2. TrackedAt(d) /\ call'[d] = call[d] /\ Len(queue) \in Nat
    BY <1>2 DEF Tracked, TypeOK
  <2> QED
    BY <1>1, <2>1, <2>2 DEF TrackedAt
<1>6. TrackedAt(c)'
  <2>1. CASE call[c].kind = "edit"
    <3>1. Pending(c)' = Pending(c)
      BY <1>1, <1>3, <2>1, AppendPends
    <3> QED
      BY <1>1, <1>2, <1>4, <2>1, <3>1 DEF TrackedAt
  <2>2. CASE call[c].kind # "edit"
    <3>1. /\ Pending(c)' = {Len(queue) + 1} /\ Len(queue') = Len(queue) + 1
          /\ Len(queue) \in Nat
      BY <1>1, <1>3, <1>4, <2>2, AppendPends DEF TypeOK
    <3> QED
      BY <1>1, <1>2, <1>4, <2>2, <3>1 DEF TrackedAt
  <2> QED
    BY <2>1, <2>2
<1> QED
  BY <1>5, <1>6 DEF Tracked

(* The request that the worker receives is pending no more.                *)
LEMMA ReceiveTracked ==
    ASSUME TypeOK, Tracked, Promised, Receive
    PROVE  Tracked'
<1> USE ConnAssumption
<1>1. /\ cur.conn = None /\ cur' = queue[1] /\ call' = call
      /\ Len(queue) \in Nat \ {0} /\ Len(queue') = Len(queue) - 1
      /\ \A i \in 1..Len(queue') : queue'[i] = queue[i + 1]
  BY DEF Receive, TypeOK, Promised, NoRequest
<1> SUFFICES ASSUME NEW d \in Conns
             PROVE  TrackedAt(d)'
  BY DEF Tracked
<1>2. TrackedAt(d) /\ cur.conn # d
  BY <1>1 DEF Tracked
<1>3. \A i \in Nat : i \in Pending(d)' <=> i >= 1 /\ i + 1 \in Pending(d)
  BY <1>1 DEF Pending
<1>4. Pending(d)' \subseteq Nat /\ Pending(d) \subseteq 1..Len(queue)
  BY <1>1 DEF Pending
<1>5. cur'.conn = d <=> 1 \in Pending(d)
  BY <1>1 DEF Pending
<1>6. CASE call[d].at = "reply"
  <2>1. PICK i \in 1..Len(queue) : Pending(d) = {i}
    BY <1>2, <1>6 DEF TrackedAt
  <2>2. CASE i = 1
    BY <1>1, <1>3, <1>4, <1>5, <1>6, <2>1, <2>2 DEF TrackedAt
  <2>3. CASE i # 1
    <3>1. Pending(d)' = {i - 1} /\ i - 1 \in 1..Len(queue')
      BY <1>1, <1>3, <1>4, <2>1, <2>3
    <3> QED
      BY <1>1, <1>5, <1>6, <2>1, <2>3, <3>1 DEF TrackedAt
  <2> QED
    BY <2>2, <2>3
<1>7. CASE call[d].at # "reply"
  BY <1>1, <1>2, <1>3, <1>4, <1>5, <1>7 DEF TrackedAt
<1> QED
  BY <1>6, <1>7

(* Nothing is pending for a client that has gone.                          *)
LEMMA DropTracked ==
    ASSUME TypeOK, Tracked, NEW c \in Conns, Drop(c)
    PROVE  Tracked'
<1> USE ConnAssumption
<1>1. /\ call'[c].at # "reply" /\ \A d \in Conns \ {c} : call'[d] = call[d]
      /\ cur' = Orphan(cur, c)
      /\ queue' = [i \in 1..Len(queue) |-> Orphan(queue[i], c)]
  BY EndsType DEF Drop, NoCall
<1>2. \A q \in Request, d \in Conns :
        Orphan(q, c).conn = d <=> q.conn = d /\ d # c
  BY DEF Orphan, Request
<1>3. /\ Len(queue') = Len(queue) /\ Len(queue) \in Nat /\ cur \in Request
      /\ \A i \in 1..Len(queue) : queue[i] \in Request
  BY <1>1 DEF TypeOK
<1>4. ASSUME NEW d \in Conns
      PROVE  Pending(d)' = IF d = c THEN {} ELSE Pending(d)
  <2>1. Pending(d)' = {i \in 1..Len(queue) : Orphan(queue[i], c).conn = d}
    BY <1>1, <1>3 DEF Pending
  <2> QED
    BY <1>2, <1>3, <2>1 DEF Pending
<1> QED
  BY <1>1, <1>2, <1>3, <1>4 DEF Tracked, TrackedAt

(* Every step keeps every wait tracked.                                    *)
LEMMA TrackedStep ==
    ASSUME IInv, Next
    PROVE  Tracked'
<1> TypeOK /\ Tracked /\ Promised
  BY DEF IInv
<1> USE ConnAssumption DEF channel, worker, data, runs
<1>1. ASSUME NEW c \in Conns, NEW k \in Kinds, Arrive(c, k)
      PROVE  Tracked'
  BY <1>1, ArriveType, TrackedKept DEF Arrive, Waiting
<1>2. ASSUME NEW c \in Conns, LockForMutation(c)
      PROVE  Tracked'
  BY <1>2, GoesType, TrackedKept DEF LockForMutation, Waiting
<1>3. ASSUME NEW c \in Conns, Mutate(c)
      PROVE  Tracked'
  <2>1. CASE Commit(c)
    BY <1>3, <2>1, CommitType, TrackedKept DEF Mutate
  <2>2. CASE Ends(c)
    BY <1>3, <2>2, EndsType, TrackedKept DEF Mutate, NoCall
  <2> QED
    BY <1>3, <2>1, <2>2 DEF Mutate
<1>4. ASSUME NEW c \in Conns, SendFails(c)
      PROVE  Tracked'
  <2>1. CASE Goes(c, "ok")
    BY <1>4, <2>1, GoesType, TrackedKept DEF SendFails
  <2>2. CASE Ends(c)
    BY <1>4, <2>2, EndsType, TrackedKept DEF SendFails, NoCall
  <2> QED
    BY <1>4, <2>1, <2>2 DEF SendFails
<1>5. CASE Tick \/ LockForRun \/ RunSync \/ SaveRun \/ RunHangs \/ Land
  BY <1>5, TrackedKept DEF Tick, LockForRun, RunSync, SaveRun, RunHangs, Land
<1>6. CASE TimerSend
  <2>1. CASE UNCHANGED queue
    BY <1>6, <2>1, TrackedKept DEF TimerSend
  <2>2. CASE queue' = Append(queue, NoRequest)
    <3>1. NoRequest \in Request /\ \A d \in Conns : NoRequest.conn # d
      BY DEF NoRequest, Request
    <3>2. \A d \in Conns : Pending(d)' = Pending(d)
                            /\ Len(queue') = Len(queue) + 1
      BY <2>2, <3>1, AppendPends
    <3>3. call' = call /\ cur' = cur /\ Len(queue) \in Nat
      BY <1>6 DEF TimerSend, TypeOK
    <3> QED
      BY <3>2, <3>3 DEF Tracked, TrackedAt
  <2> QED
    BY <1>6, <2>1, <2>2 DEF TimerSend
<1>7. CASE Panic \/ Crash
  <2>1. /\ \A c \in Conns : call'[c].at # "reply" /\ cur'.conn # c
        /\ queue' = <<>>
    BY <1>7 DEF Panic, Crash, NoCall, NoRequest
  <2> QED
    BY <2>1 DEF Tracked, TrackedAt, Pending
<1>8. CASE Answer
  <2>1. cur.conn # None => /\ cur.conn \in Conns
                           /\ call'[cur.conn].at # "reply"
                           /\ Pending(cur.conn) = {}
    BY <1>8, EndsType
    DEF Answer, NoCall, TypeOK, Call, Request, Tracked, TrackedAt
  <2>2. \A d \in Conns : d # cur.conn => call'[d] = call[d]
    BY <1>8, EndsType DEF Answer, TypeOK, Request
  <2>3. queue' = queue /\ \A d \in Conns : cur'.conn # d
    BY <1>8 DEF Answer, NoRequest
  <2> QED
    BY <2>1, <2>2, <2>3 DEF Tracked, TrackedAt, Pending
<1> QED
  BY <1>1, <1>2, <1>3, <1>4, <1>5, <1>6, <1>7, <1>8, SendTracked,
     ReceiveTracked, DropTracked DEF Next, WorkerStep

-----------------------------------------------------------------------------
(* What a request was promised. *)

(* A step of one handler keeps the promises if it leaves the worker alone  *)
(* and expects nothing of a run it did not wait for.                       *)
LEMMA HandlerKeeps ==
    ASSUME IInv, NEW c \in Conns,
           \A d \in Conns \ {c} : call'[d] = call[d],
           call' \in [Conns -> Call],
           UNCHANGED <<wpc, listed>>,
           table' \in {table, table + 1},
           cur = NoRequest => cur' = NoRequest,
           \A d \in Conns : cur'.conn = d => cur.conn = d,
           call'[c].since <= table',
           cur'.conn = c => call'[c].since = call[c].since,
           call'[c].at \in {"lock", "mutate"} =>
               call'[c].kind \in {"edit", "delete"},
           call'[c].at = "ok" => call'[c].kind \notin {"sync", "webhook"}
    PROVE  Promised' /\ ReadYourWrites'
<1>1. \A d \in Conns : call[d].since \in Nat /\ table \in Nat
  BY DEF IInv, TypeOK, Call
<1>2. Promised'
  BY <1>1 DEF IInv, Promised, Serving
<1>3. ReadYourWrites'
  BY DEF IInv, ReadYourWrites
<1> QED
  BY <1>2, <1>3

(* Every step of a handler keeps the promises.                             *)
LEMMA HandlerPromise ==
    ASSUME IInv, NEW c \in Conns,
           \/ \E k \in Kinds : Arrive(c, k)
           \/ LockForMutation(c) \/ Mutate(c) \/ Send(c) \/ SendFails(c)
           \/ Drop(c)
    PROVE  Promised' /\ ReadYourWrites'
<1> TypeOK /\ Exclusive /\ Tracked /\ Promised /\ ReadYourWrites
  BY DEF IInv
<1> USE ConnAssumption DEF channel, worker, data, runs
<1>1. /\ call[c] \in Call /\ call[c].since \in Nat /\ table \in Nat
      /\ call[c].since <= table
      /\ call[c].at # "reply" => cur.conn # c
      /\ call[c].at \in {"lock", "mutate"} => call[c].kind \in {"edit", "delete"}
  BY DEF TypeOK, Call, Promised, Exclusive, Tracked, TrackedAt
<1>2. ASSUME NEW k \in Kinds, Arrive(c, k)
      PROVE  Promised' /\ ReadYourWrites'
  <2>1. call[c].at # "reply" /\ UNCHANGED <<wpc, cur, table, listed>>
    BY <1>2 DEF Arrive, Waiting
  <2> QED
    BY <1>1, <1>2, <2>1, ArriveType, HandlerKeeps
<1>3. CASE LockForMutation(c)
  <2>1. /\ Goes(c, "mutate") /\ UNCHANGED <<wpc, cur, table, listed>>
        /\ call[c].at = "lock" /\ "mutate" \in Waiting \cup {"idle", "ok"}
    BY <1>3 DEF LockForMutation, Waiting
  <2> QED
    BY <1>1, <2>1, GoesType, HandlerKeeps
<1>4. ASSUME Ends(c), UNCHANGED <<wpc, listed>>,
             cur' \in {cur, Orphan(cur, c)},
             table' = table
      PROVE  Promised' /\ ReadYourWrites'
  <2>1. /\ cur = NoRequest => cur' = NoRequest
        /\ \A d \in Conns : cur'.conn = d => cur.conn = d
    BY <1>1, <1>4 DEF Orphan, NoRequest, TypeOK, Request
  <2>2. /\ call' \in [Conns -> Call] /\ call'[c] = NoCall
        /\ \A d \in Conns \ {c} : call'[d] = call[d]
    BY <1>4, EndsType
  <2>3. Promised'
    <3>1. \A d \in Conns : call[d].since \in Nat
      BY DEF TypeOK, Call
    <3>2. listed \in Nat
      BY DEF TypeOK
    <3> QED
      BY <1>1, <1>4, <2>1, <2>2, <3>1, <3>2 DEF Promised, Serving, NoCall
  <2>4. ReadYourWrites'
    BY <2>2 DEF ReadYourWrites, NoCall
  <2> QED
    BY <2>3, <2>4
<1>5. CASE Mutate(c)
  <2>1. call[c].at = "mutate" /\ UNCHANGED <<wpc, cur, listed>>
    BY <1>5 DEF Mutate
  <2>2. CASE Commit(c)
    BY <1>1, <2>1, <2>2, CommitType, HandlerKeeps
  <2>3. CASE Ends(c) /\ table' = table
    BY <1>4, <2>1, <2>3
  <2> QED
    BY <1>5, <2>2, <2>3 DEF Mutate
<1>6. CASE Send(c) \/ SendFails(c)
  <2>1. UNCHANGED <<wpc, cur, table, listed>>
    BY <1>6 DEF Send, SendFails
  <2>2. CASE Ends(c)
    BY <1>4, <2>1, <2>2
  <2>3. ASSUME NEW where \in {"ok", "reply"}, Goes(c, where),
               where = "ok" => call[c].kind = "edit"
        PROVE  Promised' /\ ReadYourWrites'
    <3>1. where \in Waiting \cup {"idle", "ok"}
      BY DEF Waiting
    <3>2. /\ call'[c].at = where /\ call'[c].kind = call[c].kind
          /\ call'[c].since = call[c].since /\ call' \in [Conns -> Call]
          /\ \A d \in Conns \ {c} : call'[d] = call[d]
      BY <2>3, <3>1, GoesType
    <3> QED
      BY <1>1, <2>1, <2>3, <3>2, HandlerKeeps
  <2> QED
    BY <1>6, <2>2, <2>3 DEF Send, SendFails
<1>7. CASE Drop(c)
  BY <1>4, <1>7 DEF Drop
<1> QED
  BY <1>2, <1>3, <1>5, <1>6, <1>7

(* Every step of the worker, the timer or the process keeps the promises:  *)
(* a run lists the table after whatever it answers for was asked.          *)
LEMMA WorkerPromise ==
    ASSUME IInv, \/ Tick \/ TimerSend \/ WorkerStep
                 \/ RunHangs \/ Land \/ Panic \/ Crash
    PROVE  Promised' /\ ReadYourWrites'
<1> TypeOK /\ Exclusive /\ Tracked /\ Promised /\ ReadYourWrites
  BY DEF IInv
<1> USE ConnAssumption DEF channel, worker, data, runs
<1>1. /\ \A c \in Conns : call[c].since \in Nat /\ call[c].since <= table
      /\ table \in Nat /\ listed \in Nat
  BY DEF TypeOK, Call, Promised
<1>2. CASE Tick \/ TimerSend \/ SaveRun \/ RunHangs \/ Land
  BY <1>1, <1>2
  DEF Tick, TimerSend, SaveRun, RunHangs, Land, Promised, ReadYourWrites,
      Serving
<1>3. CASE Receive
  BY <1>3 DEF Receive, Promised, ReadYourWrites, Serving
<1>4. CASE LockForRun
  BY <1>1, <1>4 DEF LockForRun, Promised, ReadYourWrites, Serving
<1>5. CASE RunSync
  BY <1>5 DEF RunSync, AfterRun, Promised, ReadYourWrites, Serving
<1>6. CASE Panic \/ Crash
  <2>1. /\ wpc' \in {"recv", "dead"} /\ cur' = NoRequest
        /\ table' = table
        /\ \A c \in Conns : call'[c] \in {NoCall, call[c]}
    BY <1>6 DEF Panic, Crash
  <2>2. \A c \in Conns : /\ call'[c].since <= table'
                         /\ call'[c].at \in {"lock", "mutate"} =>
                              call'[c].kind \in {"edit", "delete"}
    BY <1>1, <2>1 DEF NoCall, Promised
  <2>3. ReadYourWrites'
    BY <2>1 DEF ReadYourWrites, NoCall
  <2> QED
    BY <2>1, <2>2, <2>3 DEF Promised, Serving
<1>7. CASE Answer
  <2>1. /\ wpc = "answer" /\ wpc' = "recv" /\ cur' = NoRequest
        /\ table' = table
    BY <1>7 DEF Answer
  <2>2. \A d \in Conns : d # cur.conn => call'[d] = call[d]
    BY <1>7, EndsType DEF Answer, TypeOK, Request
  <2>3. cur.conn # None =>
          /\ cur.conn \in Conns /\ call'[cur.conn].at \in {"ok", "idle"}
          /\ call'[cur.conn].since <= table
          /\ call'[cur.conn].at = "ok" =>
               call'[cur.conn].heard >= call'[cur.conn].since
    <3> HAVE cur.conn # None
    <3> DEFINE c == cur.conn
               new == [call[c] EXCEPT !.at = "ok", !.heard = listed]
    <3>1. c \in Conns /\ call[c] \in Call /\ listed >= call[c].since
      BY <2>1 DEF TypeOK, Request, Promised, Serving
    <3>2. /\ new.at = "ok" /\ new.heard = listed
          /\ new.since = call[c].since
      BY <3>1 DEF Call
    <3>3. CASE call' = [call EXCEPT ![c] = new]
      <4> HIDE DEF new
      <4> QED
        BY <1>1, <3>1, <3>2, <3>3 DEF TypeOK
    <3>4. CASE Ends(c)
      BY <1>1, <3>1, <3>4, EndsType DEF NoCall
    <3> QED
      BY <1>7, <3>1, <3>3, <3>4 DEF Answer
  <2>4. Promised'
    BY <1>1, <2>1, <2>2, <2>3 DEF Promised, Serving
  <2>5. ReadYourWrites'
    BY <2>2, <2>3 DEF ReadYourWrites
  <2> QED
    BY <2>4, <2>5
<1> QED
  BY <1>2, <1>3, <1>4, <1>5, <1>6, <1>7 DEF WorkerStep

-----------------------------------------------------------------------------
(* What is in sync_runs. *)

(* A step that leaves the runs alone keeps what is known of them, if the   *)
(* calls it changes have heard of nothing.                                 *)
LEMMA SavedKept ==
    ASSUME IInv, UNCHANGED <<listed, runs>>, table' \in {table, table + 1},
           wpc' = "answer" => wpc = "answer",
           \A d \in Conns :
               /\ call'[d].heard \in {call[d].heard, 0}
               /\ call'[d].at = "ok" =>
                    \/ call'[d].kind \notin {"sync", "webhook"}
                    \/ call'[d] = call[d]
    PROVE  Saved' /\ StatusFollows'
<1>1. /\ table \in Nat /\ listed \in Nat
      /\ \A d \in Conns : call[d].heard \in Nat
  BY DEF IInv, TypeOK, Call
<1>2. Saved'
  BY <1>1 DEF IInv, Saved, runs
<1>3. StatusFollows'
  BY DEF IInv, StatusFollows, runs
<1> QED
  BY <1>2, <1>3

(* A handler hears of a run only from the worker.                          *)
LEMMA HandlerSaved ==
    ASSUME IInv, NEW c \in Conns,
           \/ \E k \in Kinds : Arrive(c, k)
           \/ LockForMutation(c) \/ Mutate(c) \/ Send(c) \/ SendFails(c)
           \/ Drop(c)
    PROVE  Saved' /\ StatusFollows'
<1> TypeOK /\ Promised
  BY DEF IInv
<1>1. /\ UNCHANGED <<listed, runs>> /\ wpc' = wpc
      /\ table' \in {table, table + 1}
  BY DEF Arrive, LockForMutation, Mutate, Commit, Send, SendFails, Drop,
         channel, worker, data, runs
<1>2. ASSUME \A d \in Conns \ {c} : call'[d] = call[d],
             call'[c].heard \in {call[c].heard, 0},
             call'[c].at = "ok" => call'[c].kind \notin {"sync", "webhook"}
      PROVE  Saved' /\ StatusFollows'
  BY <1>1, <1>2, SavedKept
<1>3. CASE Ends(c)
  BY <1>2, <1>3, EndsType DEF NoCall
<1>4. ASSUME NEW k \in Kinds, Arrive(c, k)
      PROVE  Saved' /\ StatusFollows'
  <2>1. call'[c].heard = 0
    BY <1>4 DEF Arrive, TypeOK
  <2> QED
    BY <1>2, <1>4, <2>1, ArriveType
<1>5. ASSUME NEW where \in Waiting \cup {"idle", "ok"}, Goes(c, where),
             where = "ok" => call[c].kind = "edit"
      PROVE  Saved' /\ StatusFollows'
  BY <1>2, <1>5, GoesType
<1>6. CASE LockForMutation(c) \/ Send(c) \/ SendFails(c)
  BY <1>3, <1>5, <1>6 DEF LockForMutation, Send, SendFails, Waiting
<1>7. CASE Mutate(c) /\ Commit(c)
  <2>1. call'[c].heard = call[c].heard
    BY <1>7 DEF Commit, TypeOK, Call
  <2>2. call[c].kind \in {"edit", "delete"}
    BY <1>7 DEF Mutate, Promised
  <2> QED
    BY <1>2, <1>7, <2>1, <2>2, CommitType
<1>8. CASE Mutate(c) \/ Drop(c)
  BY <1>3, <1>7, <1>8 DEF Mutate, Drop
<1> QED
  BY <1>4, <1>6, <1>8

(* The worker answers with a run that it has saved, or could not save.     *)
LEMMA WorkerSaved ==
    ASSUME IInv, \/ Tick \/ TimerSend \/ WorkerStep
                 \/ RunHangs \/ Land \/ Panic \/ Crash
    PROVE  Saved' /\ StatusFollows'
<1> TypeOK /\ Saved /\ StatusFollows
  BY DEF IInv
<1> USE DEF channel, worker, data, runs
<1>1. /\ table \in Nat /\ listed \in Nat /\ newest \in Nat
      /\ \A c \in Conns : call[c] \in Call /\ call[c].heard \in Nat
      /\ newest <= listed /\ listed <= table
      /\ \A c \in Conns : call[c].heard <= listed
  BY DEF TypeOK, Call, Saved
<1>2. CASE Tick \/ TimerSend \/ Receive \/ RunSync \/ RunHangs \/ Land
  BY <1>2, SavedKept
  DEF Tick, TimerSend, Receive, RunSync, AfterRun, RunHangs, Land
<1>3. CASE LockForRun
  BY <1>1, <1>3 DEF LockForRun, Saved, StatusFollows
<1>4. CASE SaveRun
  BY <1>1, <1>4 DEF SaveRun, Saved, StatusFollows
<1>5. CASE Panic
  <2>1. /\ wpc' = "dead" /\ UNCHANGED <<table, listed, newest, kept>>
        /\ \A c \in Conns : call'[c] \in {NoCall, call[c]}
    BY <1>5 DEF Panic
  <2> QED
    BY <2>1, SavedKept DEF NoCall
<1>6. CASE Crash
  <2>1. /\ wpc' = "recv" /\ listed' = listed /\ table' = table
        /\ newest' \in {newest, listed}
        /\ \A c \in Conns : call'[c] = NoCall
    BY <1>6 DEF Crash
  <2>2. Saved'
    BY <1>1, <2>1 DEF Saved, NoCall
  <2> QED
    BY <2>1, <2>2 DEF StatusFollows, NoCall
<1>7. CASE Answer
  <2>1. /\ wpc = "answer" /\ wpc' = "recv"
        /\ UNCHANGED <<table, listed, newest, kept>>
    BY <1>7 DEF Answer
  <2>2. newest = listed \/ ~kept
    BY <2>1 DEF Saved
  <2>3. \A d \in Conns : d # cur.conn => call'[d] = call[d]
    BY <1>7, EndsType DEF Answer, TypeOK, Request
  <2>4. cur.conn # None =>
          /\ cur.conn \in Conns
          /\ \/ call'[cur.conn].heard = listed
             \/ call'[cur.conn] = NoCall
    <3> HAVE cur.conn # None
    <3> DEFINE c == cur.conn
               new == [call[c] EXCEPT !.at = "ok", !.heard = listed]
    <3>1. c \in Conns /\ new.heard = listed
      BY <1>1 DEF TypeOK, Request, Call
    <3>2. call' = [call EXCEPT ![c] = new] \/ Ends(c)
      BY <1>7, <3>1 DEF Answer
    <3> HIDE DEF new
    <3> QED
      BY <3>1, <3>2, EndsType DEF TypeOK
  <2>5. \A d \in Conns : \/ call'[d] = call[d]
                          \/ call'[d].heard = listed
                          \/ call'[d] = NoCall
    BY <2>3, <2>4, ConnAssumption
  <2>6. Saved'
    BY <1>1, <2>1, <2>5 DEF Saved, NoCall
  <2>7. StatusFollows'
    BY <1>1, <2>1, <2>2, <2>5 DEF StatusFollows, NoCall
  <2> QED
    BY <2>6, <2>7
<1> QED
  BY <1>2, <1>3, <1>4, <1>5, <1>6, <1>7 DEF WorkerStep

(* A step that changes nothing keeps everything.                           *)
LEMMA StutterInv ==
    ASSUME IInv, UNCHANGED vars
    PROVE  IInv'
BY DEF vars, IInv, TypeOK, Exclusive, Tracked, TrackedAt, Pending, Promised,
       Serving, ReadYourWrites, Saved, StatusFollows, runs

-----------------------------------------------------------------------------
(* The invariant is inductive: every reachable state of the scheduler has  *)
(* its types, one holder of the lock, one pending request for each waiting *)
(* handler, every promise kept and every answered run saved, or known to   *)
(* be lost.                                                                *)
THEOREM Inductive == Spec => []IInv
<1>1. IInv /\ [Next]_vars => IInv'
  <2> SUFFICES ASSUME IInv, Next
               PROVE  IInv'
    BY StutterInv
  <2>1. TypeOK' /\ Exclusive' /\ Tracked'
    BY TypeStep, ExclusiveStep, TrackedStep DEF IInv
  <2>2. Promised' /\ ReadYourWrites'
    BY HandlerPromise, WorkerPromise DEF Next
  <2>3. Saved' /\ StatusFollows'
    BY HandlerSaved, WorkerSaved DEF Next
  <2> QED
    BY <2>1, <2>2, <2>3 DEF IInv
<1> QED
  BY InitInv, <1>1, PTL DEF Spec

(* The channel never holds more than its capacity, and all else is of its  *)
(* type (sync.rs:71, the bound of the mpsc channel).                       *)
THEOREM TypeCorrect == Spec => []TypeOK
<1>1. IInv => TypeOK
  BY DEF IInv
<1> QED
  BY Inductive, <1>1, PTL

(* Whoever waits for an answer has exactly one request under way, and no   *)
(* request is answered to a handler that is not waiting (sync.rs:138-153). *)
THEOREM EveryWaitTracked == Spec => []Tracked
<1>1. IInv => Tracked
  BY DEF IInv
<1> QED
  BY Inductive, <1>1, PTL

(* POST /api/sync and the webhook are answered with a run that listed the  *)
(* table after the call was made, whatever was queued or under way         *)
(* (sync.rs:76-100, 138-153; api.rs:204-210; webhook.rs:85-95).            *)
THEOREM AnswersAreCurrent == Spec => []ReadYourWrites
<1>1. IInv => ReadYourWrites
  BY DEF IInv
<1> QED
  BY Inductive, <1>1, PTL

(* Who is answered and then reads /api/status finds that run or a later    *)
(* one, unless the last outcome could not be saved (sync.rs:82-98).        *)
THEOREM StatusIsCurrent == Spec => []StatusFollows
<1>1. IInv => StatusFollows
  BY DEF IInv
<1> QED
  BY Inductive, <1>1, PTL

=============================================================================
