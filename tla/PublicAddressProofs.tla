------------------------ MODULE PublicAddressProofs ------------------------
(***************************************************************************)
(* For any number of services, honest or lying, of answers from each and   *)
(* of addresses: what resolve_ipv4 returns is the router's public address  *)
(* unless a lie was told twice, and it finds that address when the honest  *)
(* answers are more than the same lies.                                    *)
(***************************************************************************)
EXTENDS PublicAddress, FiniteSetTheorems, WellFoundedInduction, TLAPS

(* What an honest service answers was the router's address at that time.   *)
Inv == /\ wan \in had /\ had \subseteq Public
       /\ asking \in BOOLEAN
       /\ IsFiniteSet(answers)
       /\ \A v \in answers : v.by \notin Liars => v.says \in had
       /\ hint \in Public \cup {NoAddress}
       /\ AddressIsOurs

(* Any of the answers can be counted.                                      *)
LEMMA Countable ==
    ASSUME Inv, NEW S \in SUBSET answers
    PROVE  IsFiniteSet(S) /\ Cardinality(S) \in Nat
BY FS_Subset, FS_CardinalityType DEF Inv

(* An address that the router did not have has only the votes of liars.    *)
LEMMA ForeignVotes ==
    ASSUME Inv, NEW a, a \notin had
    PROVE  Votes(a) = Lies(a)
<1>1. {v \in answers : v.says = a} = {v \in answers : v.by \in Liars /\ v.says = a}
    BY DEF Inv
<1> QED
    BY <1>1 DEF Votes, Lies

(* Every set of positions has a first one.                                 *)
LEMMA LeastNatural ==
    ASSUME NEW S \in SUBSET Nat, S # {}
    PROVE  \E n \in S : \A m \in S : n <= m
<1> DEFINE less == {pair \in Nat \X Nat : pair[1] < pair[2]}
<1>1. IsWellFoundedOn(less, Nat)
    BY NatLessThanWellFounded, Zenon DEF OpToRel
<1>2. PICK n \in S : \A m \in S : <<m, n>> \notin less
    BY <1>1, WFMin, Zenon
<1>3. ASSUME NEW m \in S, m < n
      PROVE  FALSE
    <2>1. m \in Nat /\ n \in Nat
        OBVIOUS
    <2>2. <<m, n>> \in less
        BY <1>3, <2>1
    <2> QED
        BY <1>2, <2>2
<1> QED
    BY <1>3

(* A webhook call can name only a public address.                          *)
LEMMA HintIsPublic ==
    ASSUME NEW parts \in Requests
    PROVE  ParseMyip(parts) \in Public \cup {NoAddress}
<1> DEFINE found == {i \in DOMAIN parts : parts[i] \in Public}
<1>1. CASE found = {}
    BY <1>1 DEF ParseMyip
<1>2. CASE found # {}
    <2>1. found \subseteq Nat
        BY AddressAssumption
    <2>2. \E n \in found : \A j \in found : n <= j
        BY <1>2, <2>1, LeastNatural
    <2> QED
        BY <1>2, <2>2 DEF ParseMyip
<1> QED
    BY <1>1, <1>2

(* Nothing has been answered before the first request.                     *)
LEMMA InvInit == AddressInit => Inv
BY FS_EmptySet DEF AddressInit, Inv, AddressIsOurs

LEMMA ResolveInv ==
    ASSUME Inv, NEW parts \in Requests, Resolve(parts)
    PROVE  Inv'
<1>1. hint' \in Public \cup {NoAddress}
    BY HintIsPublic DEF Resolve
<1>2. answers' = {} /\ IsFiniteSet(answers')
    BY FS_EmptySet DEF Resolve
<1> QED
    BY <1>1, <1>2 DEF Resolve, Inv, AddressIsOurs

LEMMA AnswerInv ==
    ASSUME Inv, NEW r \in Resolvers, Answer(r)
    PROVE  Inv'
<1>1. PICK a \in IF r \in Liars THEN Addresses ELSE {wan} :
        answers' = answers \cup {[by |-> r, nth |-> Given(r) + 1, says |-> a]}
    BY DEF Answer
<1>2. IsFiniteSet(answers')
    BY <1>1, FS_AddElement DEF Inv
<1>3. \A v \in answers' : v.by \notin Liars => v.says \in had
    BY <1>1 DEF Inv
<1> QED
    BY <1>2, <1>3 DEF Answer, Inv, AddressIsOurs

(* The winner is the router's address, or two liars' answers carry it.     *)
LEMMA CountInv ==
    ASSUME Inv, Count
    PROVE  Inv'
<1>1. CASE address' = NoAddress
    BY <1>1 DEF Inv, Count, AddressIsOurs
<1>2. ASSUME NEW a \in Winners, address' = a
      PROVE  Inv'
    <2>1. a \in Addresses /\ Votes(a) >= 2
        BY DEF Winners, Enough
    <2>2. a \in had \/ Lies(a) >= 2
        BY <2>1, ForeignVotes
    <2>3. Lies(a)' = Lies(a)
        BY DEF Count, Lies
    <2>4. AddressIsOurs'
        BY <1>2, <2>2, <2>3 DEF Inv, Count, AddressIsOurs, Lies
    <2> QED
        BY <2>4 DEF Inv, Count
<1> QED
    BY <1>1, <1>2 DEF Count

LEMMA InvNext == Inv /\ [AddressNext]_addressVars => Inv'
<1> SUFFICES ASSUME Inv, [AddressNext]_addressVars PROVE Inv'
    OBVIOUS
<1>1. ASSUME NEW a \in Public, Readdress(a)
      PROVE  Inv'
    <2>1. AddressIsOurs'
        BY <1>1 DEF Readdress, Inv, AddressIsOurs, Lies
    <2> QED
        BY <1>1, <2>1 DEF Readdress, Inv
<1>2. ASSUME NEW r \in Resolvers, Ends(r)
      PROVE  Inv'
    BY <1>2 DEF Ends, Inv, AddressIsOurs
<1>3. CASE UNCHANGED addressVars
    BY <1>3 DEF addressVars, Inv, AddressIsOurs, Lies
<1> QED
    BY <1>1, <1>2, <1>3, ResolveInv, AnswerInv, CountInv DEF AddressNext

(* Neither one lie nor a router's private address gets into the zone: a    *)
(* foreign address needs two answers with the same lie (ip.rs:59-83).      *)
THEOREM NoForeignAddress == AddressSpec => []AddressIsOurs
<1>1. Inv => AddressIsOurs
    BY DEF Inv
<1> QED
    BY <1>1, InvInit, InvNext, PTL DEF AddressSpec

-----------------------------------------------------------------------------
(* Fewer lies cannot outvote the honest answers. *)

Honest == {v \in answers : v.by \notin Liars}

(* While the router keeps its address, every honest answer carries it, and *)
(* any other address has the votes of liars only.                          *)
LEMMA TheirVotes ==
    ASSUME Inv, had = {wan}, Cardinality(Honest) >= 2,
           \A a \in Addresses \ {wan} : Lies(a) < Cardinality(Honest)
    PROVE  /\ Votes(wan) >= 2
           /\ \A a \in Addresses \ {wan} : Votes(a) < Votes(wan)
<1> DEFINE S == {v \in answers : v.says = wan}
<1>1. Honest \in SUBSET S /\ S \in SUBSET answers
    BY DEF Inv, Honest
<1>2. /\ IsFiniteSet(S) /\ Cardinality(S) \in Nat
      /\ Cardinality(Honest) \in Nat
    BY <1>1, Countable DEF Honest
<1>3. Cardinality(Honest) <= Cardinality(S)
    BY <1>1, <1>2, FS_Subset
<1>4. Votes(wan) = Cardinality(S)
    BY DEF Votes
<1>5. ASSUME NEW a \in Addresses \ {wan}
      PROVE  Votes(a) < Votes(wan)
    <2>1. Votes(a) = Lies(a)
        BY ForeignVotes
    <2>2. Lies(a) \in Nat
        BY Countable DEF Lies
    <2> QED
        BY <1>2, <1>3, <1>4, <2>1, <2>2
<1> QED
    BY <1>2, <1>3, <1>4, <1>5

LEMMA WinsInit == AddressInit => HonestWins
<1> SUFFICES ASSUME AddressInit PROVE HonestWins
    OBVIOUS
<1>1. Honest = {}
    BY DEF AddressInit, Honest
<1>2. Cardinality(Honest) = 0
    BY <1>1, FS_EmptySet
<1> QED
    BY <1>2 DEF HonestWins, Honest

LEMMA WinsNext == Inv /\ Inv' /\ HonestWins /\ [AddressNext]_addressVars => HonestWins'
<1> SUFFICES ASSUME Inv, Inv', HonestWins, [AddressNext]_addressVars,
                    ~asking', hint' = NoAddress, had' = {wan'},
                    Cardinality(Honest') >= 2,
                    \A a \in Addresses \ {wan'} : Lies(a)' < Cardinality(Honest')
             PROVE  address' = wan'
    BY DEF HonestWins, Honest
<1>1. ASSUME NEW parts \in Requests, Resolve(parts)
      PROVE  FALSE
    BY <1>1 DEF Resolve
<1>2. ASSUME NEW r \in Resolvers, Answer(r) \/ Ends(r)
      PROVE  FALSE
    BY <1>2 DEF Answer, Ends
<1>3. CASE Count
    <2>1. UNCHANGED <<wan, had, answers>>
        BY <1>3 DEF Count
    <2>2. /\ had = {wan} /\ Cardinality(Honest) >= 2
          /\ \A a \in Addresses \ {wan} : Lies(a) < Cardinality(Honest)
        BY <2>1 DEF Honest, Lies
    <2>3. /\ Votes(wan) >= 2
          /\ \A a \in Addresses \ {wan} : Votes(a) < Votes(wan)
        BY <2>2, TheirVotes
    <2>4. wan \in Addresses /\ \A a \in Addresses : Votes(a) \in Nat
        BY AddressAssumption, Countable DEF Inv, Votes
    <2>5. wan \in Winners /\ \A a \in Winners : a = wan
        BY <2>3, <2>4 DEF Winners, Enough
    <2> QED
        BY <1>3, <2>1, <2>5 DEF Count
<1>4. ASSUME NEW a \in Public, Readdress(a)
      PROVE  FALSE
    BY <1>4 DEF Readdress, Inv
<1>5. CASE UNCHANGED addressVars
    BY <1>5 DEF addressVars, HonestWins, Honest, Lies
<1> QED
    BY <1>1, <1>2, <1>3, <1>4, <1>5 DEF AddressNext

(* Nor can lies keep the router's address out: of an address that does not *)
(* change during the vote, two honest answers win over fewer of each lie   *)
(* (ip.rs:70-74).                                                          *)
THEOREM HonestAddressWins == AddressSpec => []HonestWins
BY InvInit, InvNext, WinsInit, WinsNext, PTL DEF AddressSpec

=============================================================================
