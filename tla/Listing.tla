------------------------------ MODULE Listing ------------------------------
(***************************************************************************)
(* The paged listings of the Cloudflare client (cloudflare.rs: list, the   *)
(* body of list_zones and list_records) while the account changes between  *)
(* two pages: how much a listing can miss, and that it ends. Reconcile     *)
(* takes from here that a listing may leave out a record only when others  *)
(* changed the zone between its pages.                                     *)
(***************************************************************************)
EXTENDS Naturals, FiniteSets, Sequences

CONSTANTS
    PerPage,   \* 100 in cloudflare.rs
    LastPage,  \* u32::MAX, where page.checked_add(1) fails
    Bound      \* the most disturbances of each kind

Disturbances == {"create", "delete", "move", "fail"}

ASSUME PageAssumption == PerPage \in Nat \ {0} /\ LastPage \in Nat \ {0}
ASSUME BoundAssumption == Bound \in [Disturbances -> Nat]
(* Others do not fill 2^32 pages.                                          *)
ASSUME SizeAssumption == Bound["create"] <= PerPage * LastPage

SeqX == INSTANCE SequencesExt

VARIABLES
    zone,     \* the zone's records, in the order Cloudflare pages them
    issued,   \* how many ids Cloudflare has handed out: 1, 2, ...
    at,       \* the listing: "idle", "listing", "listed" or "overflow"
    page,     \* the page to ask for
    got,      \* the records of the pages so far
    through,  \* history: in the zone since this listing began
    shifts,   \* history: deletions and moves since this listing began
    used      \* disturbances so far, by kind

vars == <<zone, issued, at, page, got, through, shifts, used>>
cloud == <<zone, issued>>
client == <<at, page, got>>

-----------------------------------------------------------------------------
Spend(k) == used[k] < Bound[k] /\ used' = [used EXCEPT ![k] = @ + 1]

(* What Cloudflare answers for a page: its records, and total_pages. *)
OnPage(p) == {zone[i] : i \in {j \in DOMAIN zone :
                                  (j - 1) \div PerPage + 1 = p}}
TotalPages == (Len(zone) + PerPage - 1) \div PerPage

Init ==
    /\ zone = <<>> /\ issued = 0
    /\ at = "idle" /\ page = 1 /\ got = {}
    /\ through = {} /\ shifts = 0
    /\ used = [k \in Disturbances |-> 0]

-----------------------------------------------------------------------------
(* The client. *)

(* faulty: pages numbered from 0 *)
StartAtZero ==
    /\ at \in {"idle", "listed"} /\ at' = "listing"
    /\ page' = 0 /\ got' = {}
    /\ through' = SeqX!ToSet(zone) /\ shifts' = 0
    /\ UNCHANGED <<cloud, used>>
Start ==
    /\ at \in {"idle", "listed"} /\ at' = "listing"
    /\ page' = 1 /\ got' = {}
    /\ through' = SeqX!ToSet(zone) /\ shifts' = 0
    /\ UNCHANGED <<cloud, used>>

(* One request of the loop; its end, its next page, or no next page. *)
StopsAtTheTotal == page = TotalPages  \* faulty
StopsBeforeTheLast == page + 1 >= TotalPages  \* faulty
NoMorePages == page >= TotalPages
FetchPage ==
    /\ at = "listing"
    /\ got' = got \cup OnPage(page)
    /\ \/ NoMorePages /\ at' = "listed" /\ UNCHANGED page
       \/ ~NoMorePages /\ page < LastPage /\ page' = page + 1 /\ UNCHANGED at
       \/ ~NoMorePages /\ page = LastPage /\ at' = "overflow" /\ UNCHANGED page
    /\ UNCHANGED <<cloud, through, shifts, used>>

(* No answer, an HTTP or API error, or an answer that does not decode or   *)
(* names another page: the listing fails as a whole.                       *)
FetchFails ==
    /\ at = "listing" /\ Spend("fail")
    /\ at' = "idle"
    /\ UNCHANGED <<cloud, page, got, through, shifts>>

-----------------------------------------------------------------------------
(* Others who use the account, and this program's own pushes. *)

(* A new record has a new id and takes any place in Cloudflare's order.    *)
Create(i) ==
    /\ Spend("create")
    /\ i \in 1..(Len(zone) + 1)
    /\ issued' = issued + 1 /\ zone' = SeqX!InsertAt(zone, i, issued')
    /\ UNCHANGED <<client, through, shifts>>

Delete(i) ==
    /\ Spend("delete")
    /\ i \in DOMAIN zone
    /\ zone' = SeqX!RemoveAt(zone, i)
    /\ through' = through \ {zone[i]} /\ shifts' = shifts + 1
    /\ UNCHANGED <<issued, client>>

(* An edit may change a record's place in that order.                      *)
Move(i, j) ==
    /\ Spend("move")
    /\ i \in DOMAIN zone /\ j \in DOMAIN zone /\ i # j
    /\ zone' = SeqX!InsertAt(SeqX!RemoveAt(zone, i), j, zone[i])
    /\ shifts' = shifts + 1
    /\ UNCHANGED <<issued, client, through>>

Next ==
    \/ Start \/ FetchPage \/ FetchFails
    \/ \E i \in 1..(Len(zone) + 1) : Create(i)
    \/ \E i \in DOMAIN zone : Delete(i) \/ \E j \in DOMAIN zone : Move(i, j)

Spec == Init /\ [][Next]_vars

-----------------------------------------------------------------------------
(* Every variable has its type.                                            *)
TypeOK ==
    /\ issued \in Nat
    /\ zone \in Seq(1..issued) /\ SeqX!IsInjective(zone)
    /\ at \in {"idle", "listing", "listed", "overflow"}
    /\ page \in 1..LastPage
    /\ got \subseteq 1..issued
    /\ through \subseteq SeqX!ToSet(zone)
    /\ shifts \in Nat
    /\ used \in [Disturbances -> Nat]

(* A listing may miss a record that was in the zone all the time, since a  *)
(* deletion on an earlier page, or an edit that changes the order, moves   *)
(* records to pages already read; but it misses at most one for each       *)
(* deletion or move meanwhile, and none when there is none, whatever is    *)
(* created (cloudflare.rs:175-198).                                        *)
LossBounded ==
    at = "listed" => Cardinality(through \ got) <= shifts

(* The loop ends although the number of pages changes under it: it never   *)
(* runs past the last page until the page number overflows.                *)
NeverOverflows == at # "overflow"

=============================================================================
