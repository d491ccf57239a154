---------------------------- MODULE MCSyncQueue ----------------------------
(* Small instances of SyncQueue. *)
EXTENDS SyncQueueProps

CONSTANTS c1, c2

NoDisturbance == [k \in Disturbances |-> 0]
(* A sync call waits like a webhook call, and is answered whatever its run *)
(* came to.                                                                *)
CallKinds == {"edit", "delete", "webhook"}
CallBounds == [[k \in Disturbances |-> 1] EXCEPT !["all"] = 2]
DropKinds == {"edit", "sync"}
DropBounds == [NoDisturbance EXCEPT !["op"] = 1, !["drop"] = 1, !["all"] = 2]

=============================================================================
