--------------------------- MODULE PublicAddress ---------------------------
(***************************************************************************)
(* The router's public IPv4 address, as a run resolves it (ip.rs): the     *)
(* address a webhook call names, or a vote of independent services, each   *)
(* of which sees the address from which it is asked. The provider may give *)
(* the router another address at any time, also while they are asked.      *)
(* The services are outside the repository: each gives a stream of answers *)
(* that ends, or never does, and the liars, which the comment on           *)
(* consensus_addr has in mind, answer anything.                            *)
(***************************************************************************)
EXTENDS Naturals, Sequences, FiniteSets

CONSTANTS
    Resolvers,
    Liars,      \* among them
    Most,       \* the most answers that each of them gives
    Addresses,  \* IPv4
    Public,     \* those of them for which is_public_ipv4 holds
    Requests,   \* the myip parameter: its parts, NoAddress for what is none
    NoAddress

ASSUME ResolverAssumption == Liars \subseteq Resolvers
                             /\ Most \in [Resolvers -> Nat]
ASSUME AddressAssumption ==
    /\ Public \subseteq Addresses /\ NoAddress \notin Addresses
    /\ Requests \subseteq Seq(Addresses \cup {NoAddress})

VARIABLES
    wan,     \* the router's address
    had,     \* its addresses since the services were first asked
    asking,  \* a vote is going on
    answers, \* those collected in it: by whom, which of his, and the address
    done,    \* the services whose stream has ended
    hint,    \* parse_myip of the last request
    address  \* what resolve_ipv4 returned last

addressVars == <<wan, had, asking, answers, done, hint, address>>

-----------------------------------------------------------------------------
(* The first part that is a public address. *)
ParseMyip(parts) ==
    LET found == {i \in DOMAIN parts : parts[i] \in Public}
    IN  IF found = {} THEN NoAddress
        ELSE parts[CHOOSE i \in found : \A j \in found : i <= j]

Votes(a) == Cardinality({v \in answers : v.says = a})

(* max_by_key over a hash map: any address that nobody has more votes than *)
One == 1  \* faulty
Enough == 2
Rarest ==  \* faulty
    {a \in Addresses : /\ Votes(a) >= Enough
                       /\ \A b \in Addresses : Votes(b) > 0
                                                  => Votes(b) >= Votes(a)}
Winners == {a \in Addresses : /\ Votes(a) >= Enough
                              /\ \A b \in Addresses : Votes(b) <= Votes(a)}

-----------------------------------------------------------------------------
AddressInit ==
    /\ wan \in Public /\ had = {wan} /\ asking = FALSE
    /\ answers = {} /\ done = {} /\ hint = NoAddress /\ address = NoAddress

(* A request from which no address is taken is one without the parameter. *)
Resolve(parts) ==
    /\ ~asking
    /\ hint' = ParseMyip(parts)
    /\ asking' = (hint' = NoAddress)
    /\ address' = hint'
    /\ answers' = {} /\ done' = {}
    /\ had' = {wan} /\ UNCHANGED wan

(* One more answer of a service; what fails is left out.                   *)
Given(r) == Cardinality({v \in answers : v.by = r})
Answer(r) ==
    /\ asking /\ r \notin done /\ Given(r) < Most[r]
    /\ \E a \in IF r \in Liars THEN Addresses ELSE {wan} :
          answers' = answers \cup {[by |-> r, nth |-> Given(r) + 1, says |-> a]}
    /\ UNCHANGED <<wan, had, asking, done, hint, address>>

Ends(r) ==
    /\ asking /\ r \notin done
    /\ done' = done \cup {r}
    /\ UNCHANGED <<wan, had, asking, answers, hint, address>>

(* Every answer counts, also the second of the same service.               *)
Count ==
    /\ asking /\ done = Resolvers
    /\ asking' = FALSE
    /\ IF Winners = {} THEN address' = NoAddress ELSE address' \in Winners
    /\ UNCHANGED <<wan, had, answers, done, hint>>

Readdress(a) ==
    /\ a # wan
    /\ wan' = a /\ had' = had \cup {a}
    /\ UNCHANGED <<asking, answers, done, hint, address>>

AddressNext ==
    \/ \E parts \in Requests : Resolve(parts)
    \/ \E r \in Resolvers : Answer(r) \/ Ends(r)
    \/ Count
    \/ \E a \in Public : Readdress(a)

AddressSpec == AddressInit /\ [][AddressNext]_addressVars

-----------------------------------------------------------------------------
(* What resolve_ipv4 returns is public, and an address that the router     *)
(* named or really had since the vote began: neither a router's private    *)
(* one nor one lie gets into the zone. It takes two answers with the same  *)
(* lie, of one lying service or of two, and they may name any address, for *)
(* only a named one is checked to be public (ip.rs:7-25, 59-99).           *)
Lies(a) == Cardinality({v \in answers : v.by \in Liars /\ v.says = a})
AddressIsOurs ==
    ~asking /\ address # NoAddress
        => \/ address \in Public /\ address \in had \cup {hint}
           \/ Lies(address) >= 2

(* Nor can lies block an update: while the router keeps its address, two   *)
(* honest answers carry it if no lie was told as often (ip.rs:70-74).      *)
HonestWins ==
    LET honest == Cardinality({v \in answers : v.by \notin Liars})
    IN  /\ ~asking /\ hint = NoAddress /\ had = {wan}
        /\ honest >= 2 /\ \A a \in Addresses \ {wan} : Lies(a) < honest
        => address = wan

=============================================================================
