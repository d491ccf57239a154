------------------------------ MODULE Records ------------------------------
(***************************************************************************)
(* What a records request must look like, what is stored of it, and what a *)
(* run makes of the stored row (api.rs: validate, normalize_caa and the    *)
(* handlers; the constraints of migrations/; sync.rs: desired, caa_data,   *)
(* content_matches).                                                       *)
(*                                                                         *)
(* A text is what it stands for (of), as a sequence of parts, and the form *)
(* it is written in: "plain", "upper" (case), "dotted" (a dot at its end), *)
(* "padded" (blanks around it), "long" (an address not in its shortest     *)
(* form), "spaced" (parts separated by other blanks than one space),       *)
(* "quoted" (the last part in double quotes), "zeros" (in front of the     *)
(* number). Reconcile takes rows as stored and contents as compared here.  *)
(***************************************************************************)
EXTENDS Integers, Sequences, FiniteSets

CONSTANTS
    Ids,          \* of rows
    Star, Acme,   \* the labels * and _acme-challenge
    HostLabels,   \* 1 to 63 letters, digits and inner dashes
    OwnerLabels,  \* likewise, with an underscore
    CaaFlags,     \* 0 to 255 in decimal
    CaaTags,      \* 1 to 15 letters and digits
    Parts,        \* all that texts are made of
    Inputs,       \* what clients may send
    Router,       \* the content of dynamic rows
    None

Forms == {"plain", "upper", "dotted", "padded", "long", "spaced", "quoted",
          "zeros"}
Kinds == {"name", "v4", "v6", "caa", "text", "badtext"}
Text == [kind : Kinds, of : Seq(Parts), form : Forms]
Number == Int \cup {None}
RecordTypes == {"A", "AAAA", "CAA", "CNAME", "MX", "TXT", "SRV"}
(* "a" stands for a type in lower case, "PTR" for one that is unsupported. *)
Record == [fqdn : Text, record_type : RecordTypes \cup {"a", "PTR"},
           value : Text \cup {None}, ttl : Int,
           priority : Number, weight : Number, port : Number]

ASSUME NoneAssumption == None \notin Int \cup Text \cup Record
ASSUME InputAssumption == Inputs \subseteq Record
ASSUME RouterAssumption ==
    Router \in Text /\ Router.kind = "v4" /\ Router.form = "plain"
ASSUME LabelAssumption ==
    /\ {Star, Acme} \cap HostLabels = {}
    /\ HostLabels \cup OwnerLabels \cup CaaFlags \cup CaaTags \subseteq Parts

VARIABLES
    table,  \* the records table
    answer  \* to the last request

vars == <<table, answer>>

-----------------------------------------------------------------------------
(* validate. *)

Plain(text) == [text EXCEPT !.form = "plain"]
U16 == {n \in Nat : n <= 65535}

Upper(type) == IF type = "a" THEN "A" ELSE type
Prioritized == {"MX", "SRV"}

(* Every form of a name but these two is trimmed and lowercased away. *)
ValidName(name, owner) ==
    /\ name.kind = "name" /\ name.form \in {"plain", "upper", "dotted", "padded"}
    /\ Len(name.of) >= 2
    /\ \A i \in DOMAIN name.of :
          \/ name.of[i] \in HostLabels
          \/ owner /\ name.of[i] \in OwnerLabels
          \/ owner /\ i = 1 /\ name.of[i] = Star

(* A target of "." is no name: SRV and MX say with it that there is none. *)
IsRoot(text) == text.kind = "name" /\ text.of = <<>>
RootAllowed(type, priority) == type = "SRV" \/ (type = "MX" /\ priority = 0)

ValidCaa(text) ==
    /\ text.kind = "caa" /\ Len(text.of) = 3
    /\ text.of[1] \in CaaFlags /\ text.of[2] \in CaaTags
    /\ text.form \in {"plain", "spaced", "quoted", "zeros"}

ValidAddress(text, kind, forms) == text.kind = kind /\ text.form \in forms

ValidValue(type, priority, text) ==
    \/ type = "A" /\ ValidAddress(text, "v4", {"plain", "padded"})
    \/ /\ type = "AAAA"
       /\ ValidAddress(text, "v6", {"plain", "upper", "padded", "long"})
    \/ type = "CAA" /\ ValidCaa(text)
    \/ type = "TXT" /\ text.kind # "badtext"
    \/ /\ type \in {"CNAME", "MX", "SRV"}
       /\ IF IsRoot(text) THEN RootAllowed(type, priority)
          ELSE ValidName(text, FALSE)

ValidNames(i) ==
    ValidName(i.fqdn, TRUE) /\ \A k \in DOMAIN i.fqdn.of : i.fqdn.of[k] # Acme

ValidTtl(ttl) == ttl = 1 \/ ttl \in 60..86400

PortOrWeight(type, i) ==  \* faulty
    IF type = "SRV" THEN i.port \in U16 \/ i.weight \in U16
    ELSE i.port = None /\ i.weight = None
PortAndWeight(type, i) ==
    IF type = "SRV" THEN i.port \in U16 /\ i.weight \in U16
    ELSE i.port = None /\ i.weight = None

ValidNumbers(type, i) ==
    /\ IF type \in Prioritized THEN i.priority \in U16 ELSE i.priority = None
    /\ PortAndWeight(type, i)

Accepts(i) ==
    LET type == Upper(i.record_type) IN
    /\ ValidNames(i) /\ ValidTtl(i.ttl)
    /\ type \in RecordTypes /\ ValidNumbers(type, i)
    /\ IF i.value = None THEN type = "A"
       ELSE ValidValue(type, i.priority, i.value)

(* Only the blanks around flags and tag are made one space each. *)
NormalizeNothing(text) == text  \* faulty
NormalizeCaa(text) == IF text.form = "spaced" THEN Plain(text) ELSE text

(* What replaces the value: TXT keeps every byte, addresses and names get  *)
(* their one form.                                                         *)
AddressAsTyped(type, text) ==  \* faulty
    IF type = "CAA" THEN NormalizeCaa(text) ELSE text
RootTrimmed(type, text) ==  \* faulty
    IF type # "TXT" /\ IsRoot(text) THEN [Plain(text) EXCEPT !.of = <<"">>]
    ELSE IF type = "CAA" THEN NormalizeCaa(text)
    ELSE IF type = "TXT" THEN text ELSE Plain(text)
Normalize(type, text) ==
    IF type = "CAA" THEN NormalizeCaa(text)
    ELSE IF type = "TXT" THEN text ELSE Plain(text)

Stored(i) ==
    LET type == Upper(i.record_type)
    IN  [i EXCEPT !.fqdn = Plain(@), !.record_type = type,
                  !.value = IF @ = None THEN None ELSE Normalize(type, @)]

-----------------------------------------------------------------------------
(* The records table, and the handlers. *)

(* The CHECK constraints, which the answer calls an invalid record. *)
Checks(row) ==
    /\ ValidTtl(row.ttl)
    /\ row.value # None \/ row.record_type = "A"
    /\ \/ row.record_type \in Prioritized /\ row.priority \in U16
       \/ row.record_type \notin Prioritized /\ row.priority = None
    /\ \/ /\ row.record_type = "SRV"
          /\ row.weight \in U16 /\ row.port \in U16
       \/ row.record_type # "SRV" /\ row.weight = None /\ row.port = None

(* UNIQUE NULLS NOT DISTINCT (fqdn, record_type, value) *)
Collides(id, row) ==
    \E other \in Ids \ {id} :
        /\ table[other] # None
        /\ table[other].fqdn = row.fqdn
        /\ table[other].record_type = row.record_type
        /\ table[other].value = row.value

Rows == {id \in Ids : table[id] # None}

Init == table = [id \in Ids |-> None] /\ answer = "none"

(* A statement that gives the row id its new contents. *)
Write(id, row) ==
    \/ ~Checks(row) /\ answer' = "violated" /\ UNCHANGED table
    \/ /\ Checks(row) /\ Collides(id, row)
       /\ answer' = "conflict" /\ UNCHANGED table
    \/ /\ Checks(row) /\ ~Collides(id, row)
       /\ answer' = "ok" /\ table' = [table EXCEPT ![id] = row]

CreateRecord(id, i) ==
    /\ table[id] = None
    /\ \/ ~Accepts(i) /\ answer' = "invalid" /\ UNCHANGED table
       \/ Accepts(i) /\ Write(id, Stored(i))

(* Name and type are immutable. *)
UpdateRecord(id, i) ==
    /\ table[id] # None
    /\ LET same == /\ Stored(i).fqdn = table[id].fqdn
                   /\ Stored(i).record_type = table[id].record_type
       IN  \/ ~(Accepts(i) /\ same) /\ answer' = "invalid" /\ UNCHANGED table
           \/ Accepts(i) /\ same /\ Write(id, Stored(i))

DeleteRecord(id) ==
    /\ table[id] # None
    /\ table' = [table EXCEPT ![id] = None] /\ answer' = "ok"

Next == \E id \in Ids :
            \/ \E i \in Inputs : CreateRecord(id, i) \/ UpdateRecord(id, i)
            \/ DeleteRecord(id)

Spec == Init /\ [][Next]_vars

-----------------------------------------------------------------------------
(* What a run makes of a row. *)

(* caa_data takes a stored value apart at two single spaces; it unwraps    *)
(* the three parts and the number. Quotes and zeros are gone after it.     *)
CaaSplits(text) ==
    text.kind = "caa" /\ Len(text.of) = 3 /\ text.of[1] \in CaaFlags
        /\ text.form \in {"plain", "quoted", "zeros"}
CaaDataQuoted(text) ==  \* faulty
    IF text.form = "zeros" THEN Plain(text) ELSE text
CaaData(text) == Plain(text)

(* "as u16" *)
AsU16(n) == IF n = None THEN None ELSE n % 65536

ValueOf(row) == IF row.value = None THEN Router ELSE row.value

(* What the unwraps of desired and caa_data need. *)
Unwraps(row) ==
    /\ row.record_type \in Prioritized => row.priority # None
    /\ row.record_type = "SRV" => row.weight # None /\ row.port # None
    /\ row.record_type = "CAA" => row.value # None /\ CaaSplits(row.value)

Sent(row) ==
    [content |-> IF row.record_type = "CAA" THEN CaaData(row.value)
                 ELSE ValueOf(row),
     priority |-> AsU16(row.priority),
     weight |-> AsU16(row.weight), port |-> AsU16(row.port)]

(* What Cloudflare lists of it afterwards: names and IPv6 addresses in a   *)
(* form of its own, CAA values bare, all else as it was sent.              *)
Listed(row) ==
    LET sent == Sent(row)
    IN  {[sent EXCEPT !.content.form = form] :
            form \in CASE row.record_type \in {"CNAME", "MX", "SRV"} ->
                              {"plain", "upper", "dotted"}
                       [] row.record_type = "AAAA" -> {"plain", "upper", "long"}
                       [] row.record_type = "CAA" -> {"plain"}
                       [] OTHER -> {sent.content.form}}

ContentMatches(row, remote) ==
    LET value == ValueOf(row) IN
    CASE row.record_type \in {"A", "AAAA", "CNAME"} ->
            value.of = remote.content.of
      [] row.record_type = "MX" ->
            value.of = remote.content.of /\ row.priority = remote.priority
      [] row.record_type = "CAA" -> CaaData(value) = remote.content
      [] row.record_type = "SRV" ->
            /\ value.of = remote.content.of /\ row.priority = remote.priority
            /\ row.weight = remote.weight /\ row.port = remote.port
      [] OTHER -> value = remote.content

-----------------------------------------------------------------------------
(* A run does not panic on a stored row: whatever was accepted has every   *)
(* part that desired and caa_data unwrap (sync.rs:213-217, 258-273). A     *)
(* panic would end the worker for good.                                    *)
NoPanic == \A id \in Rows : Unwraps(table[id])

(* validate refuses all that the table would refuse: a CHECK constraint    *)
(* never fires (api.rs:22-24).                                             *)
ChecksNeverFire == answer # "violated"

(* A row that a client reads and sends back is accepted and not changed,   *)
(* so that an edit of one field changes only that field (RecordInput has   *)
(* the fields of Record).                                                  *)
EditKeepsRow == \A id \in Rows : Accepts(table[id])
                                   /\ Stored(table[id]) = table[id]

(* No two rows ask for the same record in two spellings, which the unique  *)
(* constraint compares byte by byte (migrations/0001:14). CAA is left out: *)
(* its quotes and zeros are stored as typed.                               *)
Meaning(row) ==
    <<row.fqdn.of, row.record_type,
      IF row.value = None \/ row.record_type = "TXT" THEN row.value
      ELSE Plain(row.value)>>
NoTwins ==
    \A id, other \in Rows :
        /\ table[id].record_type # "CAA"
        /\ Meaning(table[id]) = Meaning(table[other])
        => id = other

(* A row that was just pushed is found up to date by the next run, in      *)
(* whatever form Cloudflare lists it: no run writes it again and again,    *)
(* and the webhook answers nochg (sync.rs:207-278).                        *)
PushSettles ==
    \A id \in Rows : \A remote \in Listed(table[id]) :
        ContentMatches(table[id], remote)

(* README.md:16-17, "A/AAAA can resolve dynamically (router IPv4 via       *)
(* multi-resolver consensus, host IPv6 from the kernel)": the value of an  *)
(* address row of either type may be taken away in an edit.                *)
BothTypesResolve ==
    \A id \in Rows :
        table[id].record_type \in {"A", "AAAA"}
            => Accepts([table[id] EXCEPT !.value = None])

=============================================================================
