----------------------------- MODULE Ownership -----------------------------
(***************************************************************************)
(* What ddnser promises about the Cloudflare records it owns: a row of the *)
(* records table holds the id of at most one record, no record is held by  *)
(* two rows, ids are never given out twice, and a row lets go of an id     *)
(* only when the record it names is gone from Cloudflare or has been lost  *)
(* sight of by a listing, or when the row is doomed: a deletion that was   *)
(* abandoned after it had removed the row's record comes true. No other    *)
(* record that ddnser holds is ever left behind.                           *)
(***************************************************************************)
CONSTANTS Rids, Pids, None

VARIABLES
    link,   \* the provider_record_id each row holds, or None
    live,   \* the ids of the DNS records that exist on Cloudflare
    gone,   \* the ids of those that existed once
    lost,   \* the ids of live records that a listing has left out
    doomed  \* rows with an abandoned deletion that may still come true

vars == <<link, live, gone, lost, doomed>>

Init == /\ link = [r \in Rids |-> None]
        /\ live = {} /\ gone = {}
        /\ lost = {} /\ doomed = {}

Appear(p) ==
    /\ p \notin live \cup gone
    /\ live' = live \cup {p}
    /\ UNCHANGED <<link, gone, lost, doomed>>

Vanish(p) ==
    /\ p \in live
    /\ live' = live \ {p}
    /\ gone' = gone \cup {p}
    /\ UNCHANGED <<link, lost, doomed>>

Overlook(S) ==
    /\ S \subseteq live
    /\ lost' = lost \cup S
    /\ UNCHANGED <<link, live, gone, doomed>>

(* A listed or a created record is taken by a row that holds none; it may  *)
(* have vanished since.                                                    *)
Take(r, p) ==
    /\ link[r] = None
    /\ p \in live \cup gone
    /\ \A q \in Rids : link[q] # p
    /\ link' = [link EXCEPT ![r] = p]
    /\ UNCHANGED <<live, gone, lost, doomed>>

LetGo(r) ==
    /\ link[r] \in gone \cup lost
    /\ link' = [link EXCEPT ![r] = None]
    /\ UNCHANGED <<live, gone, lost, doomed>>

Doom(r) ==
    /\ link[r] \in gone \cup {None}
    /\ doomed' = doomed \cup {r}
    /\ UNCHANGED <<link, live, gone, lost>>

Strike(r) ==
    /\ r \in doomed /\ doomed' = doomed \ {r}
    /\ link' = [link EXCEPT ![r] = None]
    /\ UNCHANGED <<live, gone, lost>>

Next == \/ \E p \in Pids : Appear(p) \/ Vanish(p)
        \/ \E S \in SUBSET Pids : Overlook(S)
        \/ \E r \in Rids, p \in Pids : Take(r, p)
        \/ \E r \in Rids : LetGo(r) \/ Doom(r) \/ Strike(r)

Spec == Init /\ [][Next]_vars

=============================================================================
