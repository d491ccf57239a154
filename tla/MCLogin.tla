------------------------------ MODULE MCLogin ------------------------------
(* A small instance of Login: an administrator with two tabs, and a user   *)
(* who is not one.                                                         *)
EXTENDS Login, TLC

CONSTANTS admin, user, t1, t2, t3

TabOwners == t1 :> admin @@ t2 :> admin @@ t3 :> user

=============================================================================
