------------------------------ MODULE MCInputs ------------------------------
(* Small instances of Records and of PublicAddress. They share nothing:    *)
(* one of the two runs while the other is in its initial state.            *)
EXTENDS Records, PublicAddress, TLC

CONSTANTS row1, row2, resolver1, resolver2, resolver3,
          resolver4, ours, other, private

SmallParts == {"a", "b", "*", "_x", "_acme-challenge", "", "0", "256", "issue",
               "ca", "1.2.3.4", "::1", "t"}

Says(kind, of, form) == [kind |-> kind, of |-> of, form |-> form]

Names == {<<"*", "a", "b">>, <<"a", "b">>, <<"a", "_x", "b">>, <<"b">>, <<>>,
          <<"">>, <<"a", "", "b">>, <<"_acme-challenge", "a", "b">>}
NamesIn(forms) == {Says("name", of, form) : of \in Names, form \in forms}

Home == Says("name", <<"a", "b">>, "plain")
Address == Says("v4", <<"1.2.3.4">>, "plain")

Caas == {Says("caa", of, form) :
            of \in {<<"0", "issue", "ca">>, <<"256", "issue", "ca">>,
                    <<"0", "issue">>},
            form \in {"plain", "spaced", "padded", "quoted", "zeros"}}
Addresses4 == {Says("v4", <<"1.2.3.4">>, form) : form \in Forms}
Addresses6 == {Says("v6", <<"::1">>, form) : form \in Forms}
Texts == {Says(kind, <<"t">>, form) : kind \in {"text", "badtext"},
                                      form \in {"plain", "upper", "padded"}}
Contents(type) ==  \* TXT takes every kind of text as it is
    Texts \cup {None} \cup
    IF type = "TXT" THEN {}
    ELSE Caas \cup Addresses4 \cup Addresses6
           \cup {Says("name", of, form) :
                    of \in {<<"*", "a", "b">>, <<"a", "b">>, <<"b">>, <<>>},
                    form \in {"plain", "upper", "dotted", "padded"}}

Edges == {-1, 0, 65535, 65536, None}

Input(fqdn, type, value, ttl, priority, weight, port) ==
    [fqdn |-> fqdn, record_type |-> type, value |-> value, ttl |-> ttl,
     priority |-> priority, weight |-> weight, port |-> port]

Numbers(type) == IF type \in {"MX", "SRV"} THEN {0, 65535} ELSE {None}
Ports(type) == IF type = "SRV" THEN {0} ELSE {None}

(* Every spelling of the name; every value for every type; every edge of   *)
(* the numbers.                                                            *)
SmallInputs ==
    {Input(name, "a", value, 60, None, None, None) :
        name \in NamesIn(Forms), value \in {Address, None}}
    \cup UNION {{Input(Home, type, value, 1, priority, port, port) :
                    value \in Contents(type), priority \in Numbers(type),
                    port \in Ports(type)} : type \in RecordTypes \cup {"PTR"}}
    \cup UNION {{Input(Home, type, Home, 86400, edge, port, port),
                 Input(Home, type, Home, 86400, 0, edge, port),
                 Input(Home, type, Home, 86400, 0, port, edge)} :
                    type \in {"CNAME", "MX", "SRV"}, edge \in Edges,
                    port \in {0, None}}
    \cup {Input(Home, "A", Address, ttl, None, None, None) :
            ttl \in {-1, 0, 1, 2, 59, 60, 86400, 86401}}

SmallMost == resolver1 :> 2 @@ resolver2 :> 2 @@ resolver3 :> 1 @@ resolver4 :> 1

SmallRequests == {<<>>, <<NoAddress, private, ours>>, <<private>>, <<other, ours>>}

Symmetry == Permutations(Ids)

MCInit == Init /\ AddressInit
MCNext == \/ AddressInit /\ Next /\ UNCHANGED addressVars
          \/ Init /\ AddressNext /\ UNCHANGED vars
MCSpec == MCInit /\ [][MCNext]_<<vars, addressVars>>

=============================================================================
