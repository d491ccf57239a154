---------------------------- MODULE MCReconcile ----------------------------
(* Small instances of Reconcile. *)
EXTENDS ReconcileProps, TLC

CONSTANTS
    r1, r2,                \* row ids
    p1, p2, p3, p4, p5,    \* Cloudflare record ids
    v1, v2,                \* contents
    home, mail,            \* names
    top, sub               \* zones, sub within top

NoDisturbance == [k \in Disturbances |-> 0]

(* Keys: one or two names, of one type or of two. *)
OneA == home :> "A"
OneSrv == home :> "SRV"
AAndTxt == home :> "A" @@ mail :> "TXT"
SrvAndCaa == home :> "SRV" @@ mail :> "CAA"

OneZone == [k \in Keys |-> {top}]
SrvInBoth == home :> {top, sub} @@ mail :> {top}
OneLength == top :> 1
TwoLengths == top :> 1 @@ sub :> 2

(* Which disturbances an instance has, and how many of each and in all. *)
FaultBounds == [NoDisturbance EXCEPT !["op"] = 2, !["drop"] = 1,
                  !["dashboard"] = 1, !["lost"] = 1, !["late"] = 1,
                  !["crash"] = 1, !["all"] = 4]
KindBounds == [NoDisturbance EXCEPT !["op"] = 3, !["dashboard"] = 1,
                 !["zone"] = 1, !["all"] = 4]
DynamicBounds == [NoDisturbance EXCEPT !["op"] = 2, !["dashboard"] = 1,
                    !["wan"] = 1, !["lost"] = 1, !["hang"] = 1,
                    !["crash"] = 1, !["all"] = 3]
EditBounds == [NoDisturbance EXCEPT !["op"] = 2, !["all"] = 2]
PagingBounds == [NoDisturbance EXCEPT !["op"] = 2, !["dashboard"] = 2,
                   !["all"] = 4]

(* Cloudflare's ids are opaque: it is enough that they are handed out in   *)
(* one order.                                                              *)
IdsInOrder ==
    issued' # issued => (CHOOSE p \in Pids : p \notin issued) \in issued'

Symmetry == Permutations(Pids) \cup Permutations(Values) \cup Permutations(Rids)

=============================================================================
