----------------------------- MODULE MCListing -----------------------------
(* Small instances of Listing. *)
EXTENDS Listing, TLC

PagingBounds == "create" :> 4 @@ "delete" :> 2 @@ "move" :> 2 @@ "fail" :> 1

=============================================================================
