------------------------------- MODULE Login -------------------------------
(***************************************************************************)
(* Signing in with the OpenID Connect provider (auth.rs: login, callback,  *)
(* authenticate, logout, require_session) and the refresh of the           *)
(* provider's signing keys (refresh_keys), which all callbacks share.      *)
(*                                                                         *)
(* A step of a callback ends where another request can come in between:    *)
(* at an await, or at an access to shared memory. The responses of one     *)
(* browser's tabs change one cookie jar. A signing key is the number of    *)
(* rotations before it. A flow (csrf, nonce and verifier, all random) is   *)
(* named by the tab whose last login made it. Of last_refresh matter only  *)
(* its age and whether it is still what a callback has read of it.         *)
(***************************************************************************)
EXTENDS Naturals, FiniteSets

CONSTANTS
    Tabs, Browsers,
    BrowserOf,  \* the browser of each tab
    Admins,     \* browsers whose user has the admin claim
    MaxRotations, MaxFaults,  \* bounds
    None

ASSUME TabAssumption == BrowserOf \in [Tabs -> Browsers]
ASSUME NoneAssumption == None \notin Tabs \cup Nat
ASSUME BoundAssumption == MaxRotations \in Nat /\ MaxFaults \in Nat

VARIABLES
    jar,        \* per browser: the flow in its flow cookie, and whether it
                \* has a session cookie that has not expired
    tab,        \* per tab: where its login stands, and what it has read
    client,     \* the keys of Oidc.client
    recent,     \* now_secs() - last_refresh < JWKS_REFRESH_MIN_INTERVAL_SECS
    loaded,     \* the callbacks that have loaded last_refresh to swap it and
                \* for which it has not changed since
    signing,    \* the provider's signing key
    published,  \* the keys at the provider's jwks_uri
    begun,      \* history: fetches begun since recent last became FALSE
    alone,      \* history: the tab that has been alone since its login
    faults      \* how many there were

vars == <<jar, tab, client, recent, loaded, signing, published, begun, alone,
          faults>>
provider == <<signing, published>>
refresh == <<recent, loaded, begun>>

-----------------------------------------------------------------------------
Places == {"idle", "provider", "exchange", "load", "swap", "fetch",
           "replace", "again"}
AtServer(t) == tab[t].at \notin {"idle", "provider"}

Idle == [at |-> "idle", snap |-> {}, key |-> None, jwks |-> {}]

Fault == faults < MaxFaults /\ faults' = faults + 1

Move(t, place) == tab' = [tab EXCEPT ![t].at = place]
Leave(t) == tab' = [tab EXCEPT ![t] = Idle]

(* What others do ends the time a tab has been alone. *)
Alone(t) == alone' = IF alone = t THEN t ELSE None
Disturb == alone' = None

(* The response of a callback: it removes the flow cookie, whichever login *)
(* set it, and sets a session cookie if the login was accepted.            *)
Respond(t, accepted) ==
    /\ jar' = [jar EXCEPT ![BrowserOf[t]] =
                  [flow |-> None, session |-> accepted \/ @.session]]
    /\ Leave(t)
Authorized(t) == BrowserOf[t] \in Admins

Init ==
    /\ jar = [b \in Browsers |-> [flow |-> None, session |-> FALSE]]
    /\ tab = [t \in Tabs |-> Idle]
    /\ signing = 0 /\ published = {0}
    /\ client = published
    /\ recent = FALSE /\ loaded = {} /\ begun = 0
    /\ alone = None /\ faults = 0

-----------------------------------------------------------------------------
(* A browser. *)

(* GET /auth/login: a fresh flow in the cookie and in the redirect.        *)
(* The tab is alone when the server has no other callback under way and    *)
(* the provider's key is known or may be fetched at once.                  *)
Login(t) ==
    /\ ~AtServer(t)
    /\ jar' = [jar EXCEPT ![BrowserOf[t]].flow = t]
    /\ Move(t, "provider")
    /\ alone' = IF /\ \A u \in Tabs \ {t} : ~AtServer(u)
                   /\ signing \in client \/ ~recent
                THEN t ELSE None
    /\ UNCHANGED <<client, refresh, provider, faults>>

(* GET /auth/callback, up to the await of the code exchange. *)
Callback(t) ==
    /\ tab[t].at = "provider"
    /\ LET flow == jar[BrowserOf[t]].flow IN
       \/ flow = None /\ Leave(t) /\ UNCHANGED jar
       \/ flow \notin {None, t} /\ Respond(t, FALSE)
       \/ /\ flow = t
          /\ tab' = [tab EXCEPT ![t].at = "exchange", ![t].snap = client]
          /\ UNCHANGED jar
    /\ Alone(t)
    /\ UNCHANGED <<client, refresh, provider, faults>>

(* The connection is closed: the server drops the callback at its await.   *)
Vanish(t) ==
    /\ tab[t].at \in {"exchange", "fetch", "replace"} /\ Fault
    /\ Leave(t) /\ Disturb
    /\ UNCHANGED <<jar, client, refresh, provider>>

Logout(b) ==
    /\ jar[b].session
    /\ jar' = [jar EXCEPT ![b].session = FALSE]
    /\ UNCHANGED <<tab, client, refresh, provider, alone, faults>>

(* FLOW_TTL_SECS are over. A session that expires is a Logout. *)
FlowExpires(b) ==
    /\ jar[b].flow # None /\ Fault
    /\ jar' = [jar EXCEPT ![b].flow = None]
    /\ Disturb
    /\ UNCHANGED <<tab, client, refresh, provider>>

-----------------------------------------------------------------------------
(* A callback at the server. *)

(* The provider signs the ID token, which is verified with the keys that   *)
(* were read before the exchange.                                          *)
Exchange(t) ==
    /\ tab[t].at = "exchange"
    /\ IF signing \in tab[t].snap
       THEN Respond(t, Authorized(t))
       ELSE /\ tab' = [tab EXCEPT ![t].at = "load", ![t].key = signing]
            /\ UNCHANGED jar
    /\ Alone(t)
    /\ UNCHANGED <<client, refresh, provider, faults>>

ExchangeFails(t) ==
    /\ tab[t].at = "exchange" /\ Fault
    /\ Respond(t, FALSE) /\ Disturb
    /\ UNCHANGED <<client, refresh, provider>>

LoadLast(t) ==
    /\ tab[t].at = "load"
    /\ IF recent
       THEN Move(t, "again")
       ELSE Move(t, "swap")
    /\ loaded' = IF recent THEN loaded ELSE loaded \cup {t}
    /\ Alone(t)
    /\ UNCHANGED <<jar, client, recent, begun, provider, faults>>

(* compare_exchange, and what a swap without the comparison would do. *)
WonAlways(t) == tab[t].at = "swap"  \* faulty
Won(t) == t \in loaded
NoStampStored == loaded  \* faulty
StampStored == {}
Swap(t) ==
    /\ tab[t].at = "swap"
    /\ IF Won(t)
       THEN /\ Move(t, "fetch")
            /\ recent' = TRUE /\ loaded' = StampStored /\ begun' = begun + 1
       ELSE /\ Move(t, "again")
            /\ UNCHANGED refresh
    /\ Alone(t)
    /\ UNCHANGED <<jar, client, provider, faults>>

(* The provider answers the fetch; the answer may take its time. *)
Fetch(t) ==
    /\ tab[t].at = "fetch"
    /\ tab' = [tab EXCEPT ![t].at = "replace", ![t].jwks = published]
    /\ Alone(t)
    /\ UNCHANGED <<jar, client, refresh, provider, faults>>

FetchFails(t) ==
    /\ tab[t].at \in {"fetch", "replace"} /\ Fault
    /\ tab' = [tab EXCEPT ![t].at = "again", ![t].jwks = {}]
    /\ Disturb
    /\ UNCHANGED <<jar, client, refresh, provider>>

(* A client with the keys fetched, whatever keys the client now there has. *)
NewKeysKept(t) == client  \* faulty: the client is built and not stored
NewKeys(t) == tab[t].jwks
Replace(t) ==
    /\ tab[t].at = "replace"
    /\ client' = NewKeys(t)
    /\ tab' = [tab EXCEPT ![t].at = "again", ![t].jwks = {}]
    /\ Alone(t)
    /\ UNCHANGED <<jar, refresh, provider, faults>>

(* The second verification, with the keys there are now; a faulty one uses *)
(* the client of the first.                                                *)
VerifiesBySnap(t) == tab[t].key \in tab[t].snap  \* faulty
Verifies(t) == tab[t].key \in client
Again(t) ==
    /\ tab[t].at = "again"
    /\ Respond(t, Verifies(t) /\ Authorized(t))
    /\ Alone(t)
    /\ UNCHANGED <<client, refresh, provider, faults>>

-----------------------------------------------------------------------------
(* Time, the provider, and the process. *)

(* 60 s since the last refresh. A thread between its load and its swap     *)
(* runs on within that time.                                               *)
Minute ==
    /\ recent /\ \A t \in Tabs : tab[t].at # "swap"
    /\ recent' = FALSE /\ begun' = 0
    /\ UNCHANGED <<jar, tab, client, loaded, provider, alone, faults>>

(* The provider signs with a new key, and publishes the old one or not. *)
Rotate(keep) ==
    /\ signing < MaxRotations
    /\ signing' = signing + 1
    /\ published' = {signing'} \cup (IF keep THEN {signing} ELSE {})
    /\ Disturb
    /\ UNCHANGED <<jar, tab, client, refresh, faults>>

(* main: discover reads the keys; the cookies outlive the process. *)
Restart ==
    /\ Fault
    /\ tab' = [t \in Tabs |-> IF AtServer(t) THEN Idle ELSE tab[t]]
    /\ client' = published
    /\ recent' = FALSE /\ loaded' = {} /\ begun' = 0
    /\ Disturb
    /\ UNCHANGED <<jar, provider>>

Next ==
    \/ \E t \in Tabs :
          \/ Login(t) \/ Callback(t) \/ Vanish(t)
          \/ Exchange(t) \/ ExchangeFails(t)
          \/ LoadLast(t) \/ Swap(t) \/ Fetch(t) \/ FetchFails(t)
          \/ Replace(t) \/ Again(t)
    \/ \E b \in Browsers : Logout(b) \/ FlowExpires(b)
    \/ Minute \/ Restart
    \/ \E keep \in BOOLEAN : Rotate(keep)

Spec == Init /\ [][Next]_vars

(* Time passes, and a thread goes on between two instructions. A fetch has *)
(* no timeout, so nothing is assumed of it.                                *)
FairSpec == Spec /\ WF_vars(Minute) /\ \A t \in Tabs : WF_vars(Swap(t))

-----------------------------------------------------------------------------
(* Every variable has its type.                                            *)
TypeOK ==
    /\ jar \in [Browsers -> [flow : Tabs \cup {None}, session : BOOLEAN]]
    /\ tab \in [Tabs -> [at : Places, snap : SUBSET Nat,
                         key : Nat \cup {None}, jwks : SUBSET Nat]]
    /\ client \in SUBSET Nat
    /\ recent \in BOOLEAN
    /\ loaded \subseteq {t \in Tabs : tab[t].at = "swap"}
    /\ signing \in 0..MaxRotations /\ published \in SUBSET Nat
    /\ begun \in Nat
    /\ alone \in Tabs \cup {None}
    /\ faults \in 0..MaxFaults

(* Between two swaps that read the same time stamp only one goes on, and   *)
(* none while that stamp is recent: however many callbacks meet a key they *)
(* do not know, one fetch a minute begins (auth.rs:148-163).               *)
OneFetchPerMinute == begun <= 1

(* The keys settle: although the loser of the swap verifies with the keys  *)
(* there were, a fetch that fails uses up its minute and a slow one brings *)
(* back old keys, from some time on no login is refused because its key is *)
(* not known, if the provider stops rotating its keys (auth.rs:317-330).   *)
UnknownKey(t) == tab[t].at = "again" /\ tab[t].key \notin client
KeysSettle == <>[][\A t \in Tabs : ~(UnknownKey(t) /\ Again(t))]_vars

(* An administrator's login that is alone at the server from beginning to  *)
(* end, with no failure meanwhile, ends in a session, also when it is the  *)
(* first after a rotation of the keys (auth.rs:286-330).                   *)
LoneLoginSucceeds ==
    [][\A t \in Tabs :
          alone = t /\ alone' = t /\ Authorized(t) /\ AtServer(t)
             /\ tab'[t].at = "idle"
          => jar'[BrowserOf[t]].session]_vars

=============================================================================
