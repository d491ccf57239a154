---------------------------- MODULE LoginProofs ----------------------------
(***************************************************************************)
(* For any number of tabs, browsers, rotations and faults: the variables   *)
(* of Login keep their types, at most one fetch of the signing keys begins *)
(* in a minute, and a login that is alone and undisturbed succeeds.        *)
(***************************************************************************)
EXTENDS Login, TLAPS

JarType == [Browsers -> [flow : Tabs \cup {None}, session : BOOLEAN]]
TabRow == [at : Places, snap : SUBSET Nat, key : Nat \cup {None},
           jwks : SUBSET Nat]
TabType == [Tabs -> TabRow]

(* Whoever has loaded a time stamp that is still there has seen it old, so *)
(* that only the swap that replaces it begins a fetch, and makes it recent *)
(* until the minute is over.                                               *)
IInv == /\ TypeOK
        /\ begun = 0 \/ (begun = 1 /\ recent)
        /\ loaded # {} => ~recent

LEMMA InitInv == Init => IInv
<1> SUFFICES ASSUME Init PROVE IInv
    OBVIOUS
<1> USE DEF Init
<1>1. jar \in JarType
    BY DEF JarType
<1>2. tab \in TabType
    BY DEF TabType, TabRow, Idle, Places
<1>3. client \in SUBSET Nat /\ published \in SUBSET Nat
    OBVIOUS
<1>4. signing \in 0..MaxRotations /\ faults \in 0..MaxFaults
    BY BoundAssumption
<1>5. begun \in Nat /\ recent \in BOOLEAN /\ alone \in Tabs \cup {None}
      /\ loaded \subseteq {t \in Tabs : tab[t].at = "swap"}
    OBVIOUS
<1> HIDE DEF Init
<1>6. TypeOK
    BY <1>1, <1>2, <1>3, <1>4, <1>5 DEF TypeOK, JarType, TabType, TabRow
<1> QED
    BY <1>6 DEF IInv, Init

(* A tab that is not at its swap moves, and the others stay. *)
LEMMA MovesOne ==
    ASSUME TypeOK, NEW t \in Tabs, tab[t].at # "swap",
           NEW row, tab' = [tab EXCEPT ![t] = row], UNCHANGED loaded
    PROVE  (loaded \subseteq {u \in Tabs : tab[u].at = "swap"})'
BY DEF TypeOK

(* The response of a callback. *)
LEMMA Responds ==
    ASSUME TypeOK, NEW t \in Tabs, NEW accepted \in BOOLEAN,
           Respond(t, accepted)
    PROVE  jar' \in JarType /\ tab' \in TabType
           /\ tab' = [tab EXCEPT ![t] = Idle]
<1>1. BrowserOf[t] \in Browsers
    BY TabAssumption
<1>2. jar' \in JarType
    BY <1>1 DEF Respond, TypeOK, JarType
<1>3. tab' = [tab EXCEPT ![t] = Idle] /\ Idle \in TabRow
    BY DEF Respond, Leave, Idle, Places, TabRow
<1> QED
    BY <1>2, <1>3 DEF TypeOK, TabType, TabRow

(* What no action touches but those that are named. *)
LEMMA Histories ==
    ASSUME IInv, NEW t \in Tabs, Alone(t) \/ Disturb
    PROVE  alone' \in Tabs \cup {None}
BY DEF IInv, TypeOK, Alone, Disturb

LEMMA Spent ==
    ASSUME IInv, Fault
    PROVE  faults' \in 0..MaxFaults
BY BoundAssumption DEF IInv, TypeOK, Fault

(* A step of a tab that leaves the refresh and the provider alone.         *)
LEMMA TabMoves ==
    ASSUME IInv, NEW t \in Tabs, tab[t].at # "swap",
           NEW row, tab' = [tab EXCEPT ![t] = row],
           row \in TabRow,
           jar' \in JarType, client' \in SUBSET Nat,
           alone' \in Tabs \cup {None}, faults' \in 0..MaxFaults,
           UNCHANGED <<recent, loaded, begun, signing, published>>
    PROVE  IInv'
<1>1. tab' \in TabType
    BY DEF IInv, TypeOK, TabType, TabRow
<1>2. (loaded \subseteq {u \in Tabs : tab[u].at = "swap"})'
    BY MovesOne DEF IInv
<1> QED
    BY <1>1, <1>2 DEF IInv, TypeOK, JarType, TabType, TabRow

LEMMA Types ==
    ASSUME IInv
    PROVE  /\ jar \in JarType /\ tab \in TabType
           /\ client \in SUBSET Nat /\ published \in SUBSET Nat
           /\ signing \in Nat /\ alone \in Tabs \cup {None}
           /\ faults \in 0..MaxFaults
           /\ \A t \in Tabs : tab[t] \in TabRow /\ BrowserOf[t] \in Browsers
           /\ Idle \in TabRow
<1>1. Idle \in TabRow
    BY DEF Idle, TabRow, Places
<1>2. \A t \in Tabs : tab[t] \in TabRow /\ BrowserOf[t] \in Browsers
    BY TabAssumption DEF IInv, TypeOK, TabRow
<1>3. jar \in JarType /\ tab \in TabType
    BY DEF IInv, TypeOK, JarType, TabType, TabRow
<1>4. signing \in Nat
    BY BoundAssumption DEF IInv, TypeOK
<1> QED
    BY <1>1, <1>2, <1>3, <1>4 DEF IInv, TypeOK

-----------------------------------------------------------------------------
(* The actions of a tab. *)

LEMMA LoginInv ==
    ASSUME IInv, NEW t \in Tabs, Login(t) PROVE IInv'
<1> DEFINE row == [tab[t] EXCEPT !.at = "provider"]
<1>1. tab[t].at # "swap"
    BY DEF Login, AtServer
<1>2. tab' = [tab EXCEPT ![t] = row] /\ row \in TabRow
    BY Types DEF Login, Move, TabRow, Places, TabType
<1>3. jar' \in JarType
    BY Types DEF Login, JarType
<1>4. client' \in SUBSET Nat /\ faults' \in 0..MaxFaults
    BY Types DEF Login
<1>5. alone' \in Tabs \cup {None}
    BY DEF Login
<1> QED
    BY <1>1, <1>2, <1>3, <1>4, <1>5, TabMoves DEF Login, refresh, provider

LEMMA CallbackInv ==
    ASSUME IInv, NEW t \in Tabs, Callback(t) PROVE IInv'
<1> DEFINE row == [tab[t] EXCEPT !.at = "exchange", !.snap = client]
<1>1. tab[t].at # "swap"
    BY DEF Callback
<1>2. client' \in SUBSET Nat /\ faults' \in 0..MaxFaults
    BY Types DEF Callback
<1>3. alone' \in Tabs \cup {None}
    BY Histories DEF Callback
<1>4. CASE Leave(t) /\ UNCHANGED jar
    BY <1>1, <1>2, <1>3, <1>4, Types, TabMoves
       DEF Callback, Leave, refresh, provider
<1>5. CASE Respond(t, FALSE)
    <2>1. jar' \in JarType /\ tab' = [tab EXCEPT ![t] = Idle]
        BY <1>5, Responds DEF IInv
    <2> QED
        BY <1>1, <1>2, <1>3, <2>1, Types, TabMoves DEF Callback, refresh, provider
<1>6. CASE /\ tab' = [tab EXCEPT ![t].at = "exchange", ![t].snap = client]
           /\ UNCHANGED jar
    <2>1. tab' = [tab EXCEPT ![t] = row] /\ row \in TabRow
        BY <1>6, Types DEF TabRow, TabType, Places
    <2> QED
        BY <1>1, <1>2, <1>3, <1>6, <2>1, Types, TabMoves
           DEF Callback, refresh, provider
<1> QED
    BY <1>4, <1>5, <1>6 DEF Callback

LEMMA VanishInv ==
    ASSUME IInv, NEW t \in Tabs, Vanish(t) PROVE IInv'
<1>1. tab[t].at # "swap" /\ tab' = [tab EXCEPT ![t] = Idle]
    BY DEF Vanish, Leave
<1>2. faults' \in 0..MaxFaults /\ alone' \in Tabs \cup {None}
    BY Spent, Histories DEF Vanish
<1>3. jar' \in JarType /\ client' \in SUBSET Nat
    BY Types DEF Vanish
<1> QED
    BY <1>1, <1>2, <1>3, Types, TabMoves DEF Vanish, refresh, provider

LEMMA ExchangeInv ==
    ASSUME IInv, NEW t \in Tabs, Exchange(t) PROVE IInv'
<1> DEFINE row == [tab[t] EXCEPT !.at = "load", !.key = signing]
<1>1. tab[t].at # "swap"
    BY DEF Exchange
<1>2. client' \in SUBSET Nat /\ faults' \in 0..MaxFaults
    BY Types DEF Exchange
<1>3. alone' \in Tabs \cup {None}
    BY Histories DEF Exchange
<1>4. CASE Respond(t, Authorized(t))
    <2>1. Authorized(t) \in BOOLEAN
        BY DEF Authorized
    <2>2. jar' \in JarType /\ tab' = [tab EXCEPT ![t] = Idle]
        BY <1>4, <2>1, Responds DEF IInv
    <2> QED
        BY <1>1, <1>2, <1>3, <2>2, Types, TabMoves DEF Exchange, refresh, provider
<1>5. CASE /\ tab' = [tab EXCEPT ![t].at = "load", ![t].key = signing]
           /\ UNCHANGED jar
    <2>1. tab' = [tab EXCEPT ![t] = row] /\ row \in TabRow
        BY <1>5, Types DEF TabRow, TabType, Places
    <2> QED
        BY <1>1, <1>2, <1>3, <1>5, <2>1, Types, TabMoves
           DEF Exchange, refresh, provider
<1> QED
    BY <1>4, <1>5 DEF Exchange

LEMMA ExchangeFailsInv ==
    ASSUME IInv, NEW t \in Tabs, ExchangeFails(t) PROVE IInv'
<1>1. tab[t].at # "swap"
    BY DEF ExchangeFails
<1>2. jar' \in JarType /\ tab' = [tab EXCEPT ![t] = Idle]
    BY Responds DEF IInv, ExchangeFails
<1>3. faults' \in 0..MaxFaults /\ alone' \in Tabs \cup {None}
    BY Spent, Histories DEF ExchangeFails
<1>4. client' \in SUBSET Nat
    BY Types DEF ExchangeFails
<1> QED
    BY <1>1, <1>2, <1>3, <1>4, Types, TabMoves DEF ExchangeFails, refresh, provider

LEMMA FetchInv ==
    ASSUME IInv, NEW t \in Tabs, Fetch(t) PROVE IInv'
<1> DEFINE row == [tab[t] EXCEPT !.at = "replace", !.jwks = published]
<1>1. tab[t].at # "swap"
    BY DEF Fetch
<1>2. tab' = [tab EXCEPT ![t] = row] /\ row \in TabRow
    BY Types DEF Fetch, TabRow, TabType, Places
<1>3. /\ jar' \in JarType /\ client' \in SUBSET Nat
      /\ faults' \in 0..MaxFaults /\ alone' \in Tabs \cup {None}
    BY Types, Histories DEF Fetch
<1> QED
    BY <1>1, <1>2, <1>3, TabMoves DEF Fetch, refresh, provider

LEMMA FetchFailsInv ==
    ASSUME IInv, NEW t \in Tabs, FetchFails(t) PROVE IInv'
<1> DEFINE row == [tab[t] EXCEPT !.at = "again", !.jwks = {}]
<1>1. tab[t].at # "swap"
    BY DEF FetchFails
<1>2. tab' = [tab EXCEPT ![t] = row] /\ row \in TabRow
    BY Types DEF FetchFails, TabRow, TabType, Places
<1>3. faults' \in 0..MaxFaults /\ alone' \in Tabs \cup {None}
    BY Spent, Histories DEF FetchFails
<1>4. jar' \in JarType /\ client' \in SUBSET Nat
    BY Types DEF FetchFails
<1> QED
    BY <1>1, <1>2, <1>3, <1>4, TabMoves DEF FetchFails, refresh, provider

LEMMA ReplaceInv ==
    ASSUME IInv, NEW t \in Tabs, Replace(t) PROVE IInv'
<1> DEFINE row == [tab[t] EXCEPT !.at = "again", !.jwks = {}]
<1>1. tab[t].at # "swap"
    BY DEF Replace
<1>2. tab' = [tab EXCEPT ![t] = row] /\ row \in TabRow
    BY Types DEF Replace, TabRow, TabType, Places
<1>3. client' \in SUBSET Nat
    BY Types DEF Replace, NewKeys, TabRow
<1>4. /\ jar' \in JarType
      /\ faults' \in 0..MaxFaults /\ alone' \in Tabs \cup {None}
    BY Types, Histories DEF Replace
<1> QED
    BY <1>1, <1>2, <1>3, <1>4, TabMoves DEF Replace, refresh, provider

LEMMA AgainInv ==
    ASSUME IInv, NEW t \in Tabs, Again(t) PROVE IInv'
<1>1. tab[t].at # "swap"
    BY DEF Again
<1>2. (Verifies(t) /\ Authorized(t)) \in BOOLEAN
    BY DEF Verifies, Authorized
<1>3. jar' \in JarType /\ tab' = [tab EXCEPT ![t] = Idle]
    BY <1>2, Responds DEF IInv, Again
<1>4. /\ client' \in SUBSET Nat
      /\ faults' \in 0..MaxFaults /\ alone' \in Tabs \cup {None}
    BY Types, Histories DEF Again
<1> QED
    BY <1>1, <1>3, <1>4, Types, TabMoves DEF Again, refresh, provider

(* The two actions in which callbacks race for the refresh. *)

LEMMA LoadLastInv ==
    ASSUME IInv, NEW t \in Tabs, LoadLast(t) PROVE IInv'
<1> DEFINE row(place) == [tab[t] EXCEPT !.at = place]
<1>1. tab[t].at # "swap" /\ alone' \in Tabs \cup {None}
    BY Histories DEF LoadLast
<1>2. CASE recent
    <2>1. tab' = [tab EXCEPT ![t] = row("again")] /\ row("again") \in TabRow
        BY <1>2, Types DEF LoadLast, Move, TabRow, TabType, Places
    <2> QED
        BY <1>1, <1>2, <2>1, Types, TabMoves DEF LoadLast, provider
<1>3. CASE ~recent
    <2>1. tab' = [tab EXCEPT ![t] = row("swap")] /\ row("swap") \in TabRow
        BY <1>3, Types DEF LoadLast, Move, TabRow, TabType, Places
    <2>2. tab' \in TabType
        BY <2>1, Types DEF TabType
    <2>3. (loaded \subseteq {u \in Tabs : tab[u].at = "swap"})'
        <3>1. tab'[t].at = "swap" /\ \A u \in Tabs \ {t} : tab'[u] = tab[u]
            BY <2>1, Types DEF TabType, TabRow
        <3> QED
            BY <1>3, <3>1 DEF LoadLast, IInv, TypeOK
    <2> QED
        BY <1>1, <1>3, <2>2, <2>3
           DEF LoadLast, provider, IInv, TypeOK, TabType, TabRow
<1> QED
    BY <1>2, <1>3

LEMMA SwapInv ==
    ASSUME IInv, NEW t \in Tabs, Swap(t) PROVE IInv'
<1> DEFINE row(place) == [tab[t] EXCEPT !.at = place]
<1>1. alone' \in Tabs \cup {None}
    BY Histories DEF Swap
<1>2. CASE Won(t)
    <2>1. tab' = [tab EXCEPT ![t] = row("fetch")] /\ row("fetch") \in TabRow
        BY <1>2, Types DEF Swap, Move, TabRow, TabType, Places
    <2>2. tab' \in TabType
        BY <2>1, Types DEF TabType
    <2>3. ~recent /\ begun = 0
        BY <1>2 DEF Won, IInv
    <2>4. recent' = TRUE /\ loaded' = {} /\ begun' = 1
        BY <1>2, <2>3 DEF Swap, StampStored
    <2> QED
        BY <1>1, <2>2, <2>4 DEF Swap, provider, IInv, TypeOK, TabType, TabRow
<1>3. CASE ~Won(t)
    <2>1. tab' = [tab EXCEPT ![t] = row("again")] /\ row("again") \in TabRow
        BY <1>3, Types DEF Swap, Move, TabRow, TabType, Places
    <2>2. tab' \in TabType
        BY <2>1, Types DEF TabType
    <2>3. \A u \in Tabs \ {t} : tab'[u] = tab[u]
        BY <2>1, Types DEF TabType
    <2>4. (loaded \subseteq {u \in Tabs : tab[u].at = "swap"})'
        BY <1>3, <2>3 DEF Swap, Won, refresh, IInv, TypeOK
    <2> QED
        BY <1>1, <1>3, <2>2, <2>4
           DEF Swap, refresh, provider, IInv, TypeOK, TabType, TabRow
<1> QED
    BY <1>2, <1>3

-----------------------------------------------------------------------------
(* The other actions. *)

LEMMA CookieInv ==
    ASSUME IInv, NEW b \in Browsers, Logout(b) \/ FlowExpires(b) PROVE IInv'
<1>1. jar' \in JarType
    <2>1. CASE Logout(b)
        BY <2>1, Types DEF Logout, JarType
    <2>2. CASE FlowExpires(b)
        BY <2>2, Types DEF FlowExpires, JarType
    <2> QED
        BY <2>1, <2>2
<1>2. faults' \in 0..MaxFaults /\ alone' \in Tabs \cup {None}
    BY Types, Spent DEF Logout, FlowExpires, Disturb
<1> QED
    BY <1>1, <1>2 DEF Logout, FlowExpires, refresh, provider, IInv, TypeOK,
                      JarType

LEMMA MinuteInv == ASSUME IInv, Minute PROVE IInv'
BY DEF Minute, provider, IInv, TypeOK

LEMMA RestartInv == ASSUME IInv, Restart PROVE IInv'
<1>1. tab' \in TabType
    BY Types DEF Restart, TabType
<1>2. faults' \in 0..MaxFaults /\ alone' \in Tabs \cup {None}
    BY Spent DEF Restart, Disturb
<1> QED
    BY <1>1, <1>2 DEF Restart, provider, IInv, TypeOK, TabType, TabRow

LEMMA RotateInv ==
    ASSUME IInv, NEW keep \in BOOLEAN, Rotate(keep) PROVE IInv'
<1>1. signing' \in 0..MaxRotations /\ signing' \in Nat
    BY BoundAssumption DEF Rotate, IInv, TypeOK
<1>2. published' \in SUBSET Nat
    BY <1>1, Types DEF Rotate
<1> QED
    BY <1>1, <1>2 DEF Rotate, Disturb, refresh, IInv, TypeOK

LEMMA NextInv == IInv /\ [Next]_vars => IInv'
<1> SUFFICES ASSUME IInv, [Next]_vars PROVE IInv'
    OBVIOUS
<1>1. CASE UNCHANGED vars
    BY <1>1 DEF vars, refresh, provider, IInv, TypeOK
<1>2. CASE Next
    BY <1>2, LoginInv, CallbackInv, VanishInv, ExchangeInv, ExchangeFailsInv,
       LoadLastInv, SwapInv, FetchInv, FetchFailsInv, ReplaceInv, AgainInv,
       CookieInv, MinuteInv, RestartInv, RotateInv DEF Next
<1> QED
    BY <1>1, <1>2

LEMMA Invariance == Spec => []IInv
BY InitInv, NextInv, PTL DEF Spec

(* Every variable keeps its type; in particular a callback that has loaded *)
(* the time stamp stands at its swap.                                      *)
THEOREM TypeCorrect == Spec => []TypeOK
<1>1. IInv => TypeOK
    BY DEF IInv
<1> QED
    BY <1>1, Invariance, PTL

(* However many callbacks meet a key they do not know: between two minutes *)
(* at most one fetch of the keys begins.                                   *)
THEOREM FetchesAreRare == Spec => []OneFetchPerMinute
<1>1. IInv => OneFetchPerMinute
    BY DEF IInv, OneFetchPerMinute
<1> QED
    BY <1>1, Invariance, PTL

-----------------------------------------------------------------------------
(* A login that is alone. *)

(* What a tab knows that has been alone since its login: the provider's    *)
(* key is in the client, or nobody has fetched for a minute and it wins    *)
(* the swap, fetches the key and finds it at its second verification.      *)
Lone(t) ==
    /\ \A u \in Tabs \ {t} : ~AtServer(u)
    /\ tab[t].at \notin {"fetch", "replace"} => signing \in client \/ ~recent
    /\ tab[t].at = "exchange" => tab[t].snap = client
    /\ tab[t].at \in {"load", "swap", "fetch", "replace", "again"} =>
          tab[t].key = signing
    /\ tab[t].at = "load" => signing \notin client
    /\ tab[t].at = "swap" => t \in loaded
    /\ tab[t].at = "replace" => signing \in tab[t].jwks
    /\ tab[t].at = "again" => signing \in client
LoneInv == /\ signing \in published
           /\ \A t \in Tabs : alone = t => Lone(t)

LEMMA LoneInit == Init => LoneInv
BY NoneAssumption DEF Init, LoneInv

(* Whoever else comes to the server ends the time a tab was alone.         *)
LEMMA OnlyOwnSteps ==
    ASSUME IInv, Next, NEW t \in Tabs, alone' = t
    PROVE  \/ Login(t) \/ Callback(t) \/ Exchange(t) \/ LoadLast(t)
           \/ Swap(t) \/ Fetch(t) \/ Replace(t) \/ Again(t)
           \/ \E b \in Browsers : Logout(b)
           \/ Minute
<1> USE NoneAssumption
<1>1. ASSUME NEW u \in Tabs, Alone(u)
      PROVE  u = t
    BY <1>1 DEF Alone
<1>2. ~Disturb
    BY DEF Disturb
<1>3. ASSUME NEW u \in Tabs, Login(u)
      PROVE  u = t
    BY <1>3 DEF Login
<1>4. ASSUME NEW u \in Tabs, Callback(u) \/ Exchange(u) \/ LoadLast(u)
      PROVE  u = t
    BY <1>1, <1>2, <1>4 DEF Callback, Exchange, LoadLast
<1>5. ASSUME NEW u \in Tabs, Swap(u) \/ Fetch(u) \/ Replace(u) \/ Again(u)
      PROVE  u = t
    BY <1>1, <1>2, <1>5 DEF Swap, Fetch, Replace, Again
<1>6. ASSUME NEW u \in Tabs
      PROVE  ~Vanish(u) /\ ~ExchangeFails(u) /\ ~FetchFails(u)
    BY <1>2 DEF Vanish, ExchangeFails, FetchFails
<1>7. /\ ~Restart
      /\ \A b \in Browsers : ~FlowExpires(b)
      /\ \A keep \in BOOLEAN : ~Rotate(keep)
    BY <1>2 DEF FlowExpires, Restart, Rotate
<1> QED
    BY <1>3, <1>4, <1>5, <1>6, <1>7 DEF Next

(* The tab moves, and the others stay where they are. *)
LEMMA OthersStay ==
    ASSUME IInv, NEW t \in Tabs, NEW row, tab' = [tab EXCEPT ![t] = row]
    PROVE  /\ tab'[t] = row
           /\ \A u \in Tabs \ {t} : AtServer(u)' <=> AtServer(u)
BY DEF IInv, TypeOK, AtServer

LEMMA LoneBegins ==
    ASSUME IInv, NEW t \in Tabs, Login(t), alone' = t
    PROVE  Lone(t)'
<1> DEFINE row == [tab[t] EXCEPT !.at = "provider"]
<1>1. tab' = [tab EXCEPT ![t] = row] /\ row.at = "provider"
    BY Types DEF Login, Move, TabRow
<1>2. /\ \A u \in Tabs \ {t} : ~AtServer(u)
      /\ signing \in client \/ ~recent
    BY NoneAssumption DEF Login
<1>3. tab'[t].at = "provider" /\ \A u \in Tabs \ {t} : ~AtServer(u)'
    BY <1>1, <1>2, OthersStay
<1> QED
    BY <1>2, <1>3 DEF Login, Lone, refresh, provider

LEMMA LoneGoesOn ==
    ASSUME IInv, NEW t \in Tabs, Lone(t), signing \in published,
           \/ Callback(t) \/ Exchange(t) \/ LoadLast(t)
           \/ Swap(t) \/ Fetch(t) \/ Replace(t) \/ Again(t)
    PROVE  Lone(t)'
<1> tab[t] \in TabRow
    BY Types
<1> USE DEF refresh, provider
<1>1. ASSUME NEW row, tab' = [tab EXCEPT ![t] = row]
      PROVE  tab'[t] = row /\ \A u \in Tabs \ {t} : ~AtServer(u)'
    BY <1>1, OthersStay DEF Lone
<1>2. CASE Leave(t) /\ UNCHANGED <<client, recent, signing>>
           /\ tab[t].at \notin {"fetch", "replace"}
    <2>1. tab'[t].at = "idle" /\ \A u \in Tabs \ {t} : ~AtServer(u)'
        BY <1>1, <1>2 DEF Leave, Idle
    <2> QED
        BY <1>2, <2>1 DEF Lone
<1>3. CASE Callback(t)
    <2>1. CASE tab' = [tab EXCEPT ![t].at = "exchange", ![t].snap = client]
        <3> DEFINE row == [tab[t] EXCEPT !.at = "exchange", !.snap = client]
        <3>1. tab' = [tab EXCEPT ![t] = row]
            BY <2>1
        <3>2. row.at = "exchange" /\ row.snap = client
            BY DEF TabRow
        <3>3. /\ tab'[t].at = "exchange" /\ tab'[t].snap = client
              /\ \A u \in Tabs \ {t} : ~AtServer(u)'
            BY <1>1, <3>1, <3>2
        <3> QED
            BY <1>3, <3>3 DEF Callback, Lone
    <2> QED
        BY <1>2, <1>3, <2>1 DEF Callback, Respond
<1>4. CASE Exchange(t)
    <2>1. CASE signing \notin tab[t].snap
        <3> DEFINE row == [tab[t] EXCEPT !.at = "load", !.key = signing]
        <3>1. tab' = [tab EXCEPT ![t] = row]
            BY <1>4, <2>1 DEF Exchange
        <3>2. row.at = "load" /\ row.key = signing
            BY DEF TabRow
        <3>3. /\ tab'[t].at = "load" /\ tab'[t].key = signing
              /\ \A u \in Tabs \ {t} : ~AtServer(u)'
            BY <1>1, <3>1, <3>2
        <3> QED
            BY <1>4, <2>1, <3>3 DEF Exchange, Lone
    <2> QED
        BY <1>2, <1>4, <2>1 DEF Exchange, Respond
<1>5. CASE LoadLast(t)
    <2> DEFINE row == [tab[t] EXCEPT !.at = "swap"]
    <2>1. ~recent
        BY <1>5 DEF LoadLast, Lone
    <2>2. tab' = [tab EXCEPT ![t] = row] /\ t \in loaded'
        BY <1>5, <2>1 DEF LoadLast, Move
    <2>3. row.at = "swap" /\ row.key = tab[t].key
        BY DEF TabRow
    <2>4. /\ tab'[t].at = "swap" /\ tab'[t].key = tab[t].key
          /\ \A u \in Tabs \ {t} : ~AtServer(u)'
        BY <1>1, <2>2, <2>3
    <2> QED
        BY <1>5, <2>1, <2>2, <2>4 DEF LoadLast, Lone
<1>6. CASE Swap(t)
    <2> DEFINE row == [tab[t] EXCEPT !.at = "fetch"]
    <2>1. Won(t)
        BY <1>6 DEF Swap, Lone, Won
    <2>2. tab' = [tab EXCEPT ![t] = row]
        BY <1>6, <2>1 DEF Swap, Move
    <2>3. row.at = "fetch" /\ row.key = tab[t].key
        BY DEF TabRow
    <2>4. /\ tab'[t].at = "fetch" /\ tab'[t].key = tab[t].key
          /\ \A u \in Tabs \ {t} : ~AtServer(u)'
        BY <1>1, <2>2, <2>3
    <2> QED
        BY <1>6, <2>4 DEF Swap, Lone
<1>7. CASE Fetch(t)
    <2> DEFINE row == [tab[t] EXCEPT !.at = "replace", !.jwks = published]
    <2>1. tab' = [tab EXCEPT ![t] = row]
        BY <1>7 DEF Fetch
    <2>2. row.at = "replace" /\ row.key = tab[t].key /\ row.jwks = published
        BY DEF TabRow
    <2>3. /\ tab'[t].at = "replace" /\ tab'[t].key = tab[t].key
          /\ tab'[t].jwks = published
          /\ \A u \in Tabs \ {t} : ~AtServer(u)'
        BY <1>1, <2>1, <2>2
    <2> QED
        BY <1>7, <2>3 DEF Fetch, Lone
<1>8. CASE Replace(t)
    <2> DEFINE row == [tab[t] EXCEPT !.at = "again", !.jwks = {}]
    <2>1. tab' = [tab EXCEPT ![t] = row] /\ client' = tab[t].jwks
        BY <1>8 DEF Replace, NewKeys
    <2>2. row.at = "again" /\ row.key = tab[t].key
        BY DEF TabRow
    <2>3. /\ tab'[t].at = "again" /\ tab'[t].key = tab[t].key
          /\ \A u \in Tabs \ {t} : ~AtServer(u)'
        BY <1>1, <2>1, <2>2
    <2> QED
        BY <1>8, <2>1, <2>3 DEF Replace, Lone
<1>9. CASE Again(t)
    BY <1>2, <1>9 DEF Again, Respond
<1> QED
    BY <1>3, <1>4, <1>5, <1>6, <1>7, <1>8, <1>9

LEMMA LoneNext == IInv /\ LoneInv /\ [Next]_vars => LoneInv'
<1> SUFFICES ASSUME IInv, LoneInv, [Next]_vars PROVE LoneInv'
    OBVIOUS
<1>1. signing' \in published'
    <2>1. (\E keep \in BOOLEAN : Rotate(keep)) \/ UNCHANGED provider
        BY DEF Next, vars, provider, Login, Callback, Vanish, Exchange,
               ExchangeFails, LoadLast, Swap, Fetch, FetchFails, Replace,
               Again, Logout, FlowExpires, Minute, Restart
    <2> QED
        BY <2>1 DEF Rotate, provider, LoneInv
<1>2. ASSUME NEW t \in Tabs, alone' = t
      PROVE  Lone(t)'
    <2>1. CASE UNCHANGED vars
        BY <1>2, <2>1 DEF vars, LoneInv, Lone, AtServer
    <2>2. CASE Login(t)
        BY <1>2, <2>2, LoneBegins
    <2>3. CASE Next /\ ~Login(t)
        <3>1. \/ Callback(t) \/ Exchange(t) \/ LoadLast(t)
              \/ Swap(t) \/ Fetch(t) \/ Replace(t) \/ Again(t)
              \/ \E b \in Browsers : Logout(b)
              \/ Minute
            BY <1>2, <2>3, OnlyOwnSteps
        <3>2. alone = t
            BY <1>2, <3>1, NoneAssumption
               DEF Alone, Callback, Exchange, LoadLast, Swap, Fetch, Replace,
                   Again, Logout, Minute
        <3>3. CASE Minute \/ \E b \in Browsers : Logout(b)
            BY <3>2, <3>3 DEF Minute, Logout, refresh, provider, LoneInv, Lone,
                              AtServer
        <3> QED
            BY <3>1, <3>2, <3>3, LoneGoesOn DEF LoneInv
    <2> QED
        BY <2>1, <2>2, <2>3
<1> QED
    BY <1>1, <1>2 DEF LoneInv

(* An administrator's login that is alone at the server and meets no fault *)
(* ends in a session, whatever keys the client had when it began.          *)
THEOREM AloneSucceeds == Spec => LoneLoginSucceeds
<1> DEFINE A == \A t \in Tabs :
                  alone = t /\ alone' = t /\ Authorized(t) /\ AtServer(t)
                     /\ tab'[t].at = "idle"
                  => jar'[BrowserOf[t]].session
<1>1. IInv /\ LoneInv /\ [Next]_vars => [A]_vars
    <2> SUFFICES ASSUME IInv, LoneInv, Next, NEW t \in Tabs,
                        alone = t, alone' = t, Authorized(t), AtServer(t),
                        tab'[t].at = "idle"
                 PROVE  jar'[BrowserOf[t]].session
        OBVIOUS
    <2>1. Lone(t) /\ tab[t] \in TabRow /\ BrowserOf[t] \in Browsers
          /\ jar \in JarType /\ tab \in TabType
        BY Types DEF LoneInv
    <2>2. ASSUME Respond(t, TRUE)
          PROVE  jar'[BrowserOf[t]].session
        BY <2>1, <2>2 DEF Respond, JarType
    <2>3. CASE Exchange(t)
        <3>1. CASE signing \in tab[t].snap
            BY <2>2, <2>3, <3>1 DEF Exchange
        <3>2. CASE signing \notin tab[t].snap
            BY <2>1, <2>3, <3>2 DEF Exchange, TabRow, TabType
        <3> QED
            BY <3>1, <3>2
    <2>4. CASE Again(t)
        BY <2>1, <2>2, <2>4 DEF Again, Lone, Verifies
    <2>5. CASE LoadLast(t) \/ Swap(t) \/ Fetch(t) \/ Replace(t)
        BY <2>1, <2>5
           DEF LoadLast, Swap, Fetch, Replace, Move, TabRow, TabType
    <2>6. CASE Minute \/ \E b \in Browsers : Logout(b)
        BY <2>6 DEF Minute, Logout, AtServer
    <2>7. ~Login(t) /\ ~Callback(t)
        BY DEF Login, Callback, AtServer
    <2> QED
        BY <2>3, <2>4, <2>5, <2>6, <2>7, OnlyOwnSteps
<1> HIDE DEF A
<1>2. Spec => [][A]_vars
    BY <1>1, InitInv, NextInv, LoneInit, LoneNext, PTL DEF Spec
<1> QED
    BY <1>2 DEF A, LoneLoginSucceeds

=============================================================================
