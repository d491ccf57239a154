--------------------------- MODULE RecordsProofs ---------------------------
(***************************************************************************)
(* For every set of inputs, row ids and labels: what validate accepts is   *)
(* stored in a form that validate accepts and leaves alone. All that the   *)
(* table and the runs need follows from this.                              *)
(***************************************************************************)
EXTENDS Records, TLAPS

Good(row) == row \in Record /\ Accepts(row) /\ Stored(row) = row

Answers == {"none", "ok", "invalid", "conflict"}

Inv == /\ table \in [Ids -> {None} \cup Record]
       /\ answer \in Answers
       /\ \A id \in Ids : table[id] # None => Good(table[id])
       /\ \A id \in Ids : table[id] # None => ~Collides(id, table[id])

(* What None is not. *)
LEMMA NoneIsNoText == None \notin Text /\ None \notin Int /\ None \notin Record
BY NoneAssumption

LEMMA PlainType ==
    ASSUME NEW text \in Text
    PROVE  /\ Plain(text) \in Text /\ Plain(text).form = "plain"
           /\ Plain(text).kind = text.kind /\ Plain(text).of = text.of
           /\ Plain(Plain(text)) = Plain(text)
BY DEF Plain, Text, Forms

LEMMA UpperTwice ==
    ASSUME NEW type \in RecordTypes \cup {"a", "PTR"}
    PROVE  /\ Upper(type) \in RecordTypes \cup {"a", "PTR"}
           /\ Upper(Upper(type)) = Upper(type)
BY DEF Upper, RecordTypes

(* The fields of a record. *)
LEMMA RecordFields ==
    ASSUME NEW i \in Record
    PROVE  /\ i.fqdn \in Text /\ i.value \in Text \cup {None}
           /\ i.record_type \in RecordTypes \cup {"a", "PTR"}
           /\ i.ttl \in Int /\ i.priority \in Number
           /\ i.weight \in Number /\ i.port \in Number
BY DEF Record

LEMMA NormalizeType ==
    ASSUME NEW type, NEW text \in Text
    PROVE  /\ Normalize(type, text) \in Text
           /\ Normalize(type, text).kind = text.kind
           /\ Normalize(type, text).of = text.of
           /\ Normalize(type, Normalize(type, text)) = Normalize(type, text)
BY PlainType DEF Normalize, NormalizeCaa, Text, Plain, Forms

(* An accepted value is accepted again once it is normalized. *)
LEMMA ValueStaysValid ==
    ASSUME NEW type \in RecordTypes, NEW priority, NEW text \in Text,
           ValidValue(type, priority, text)
    PROVE  ValidValue(type, priority, Normalize(type, text))
<1> DEFINE new == Normalize(type, text)
<1>1. new \in Text /\ new.kind = text.kind /\ new.of = text.of
    BY NormalizeType
<1>2. CASE type = "TXT"
    BY <1>2 DEF Normalize, ValidValue
<1>3. CASE type = "CAA"
    <2>1. ValidCaa(text)
        BY <1>3 DEF ValidValue
    <2>2. new.form \in {text.form, "plain"}
        BY <1>3 DEF Normalize, NormalizeCaa, Plain, Text
    <2>3. ValidCaa(new)
        BY <1>1, <2>1, <2>2 DEF ValidCaa
    <2> QED
        BY <1>3, <2>3 DEF ValidValue
<1>4. CASE type \in {"A", "AAAA"}
    <2>1. new.form = "plain"
        BY <1>4, PlainType DEF Normalize
    <2> QED
        BY <1>1, <1>4, <2>1 DEF ValidValue, ValidAddress
<1>5. CASE type \in {"CNAME", "MX", "SRV"}
    <2>1. new.form = "plain"
        BY <1>5, PlainType DEF Normalize
    <2>2. IF IsRoot(text) THEN RootAllowed(type, priority)
          ELSE ValidName(text, FALSE)
        BY <1>5 DEF ValidValue
    <2>3. IsRoot(new) <=> IsRoot(text)
        BY <1>1 DEF IsRoot
    <2>4. ValidName(text, FALSE) => ValidName(new, FALSE)
        BY <1>1, <2>1 DEF ValidName
    <2>5. IF IsRoot(new) THEN RootAllowed(type, priority)
          ELSE ValidName(new, FALSE)
        BY <2>2, <2>3, <2>4
    <2> QED
        BY <1>5, <2>5 DEF ValidValue
<1> QED
    BY <1>2, <1>3, <1>4, <1>5 DEF RecordTypes

(* The fields of what is stored. *)
LEMMA StoredFields ==
    ASSUME NEW i \in Record
    PROVE  /\ Stored(i) \in Record
           /\ Stored(i).fqdn = Plain(i.fqdn)
           /\ Stored(i).record_type = Upper(i.record_type)
           /\ Stored(i).value = IF i.value = None THEN None
                                ELSE Normalize(Upper(i.record_type), i.value)
           /\ Stored(i).ttl = i.ttl /\ Stored(i).priority = i.priority
           /\ Stored(i).weight = i.weight /\ Stored(i).port = i.port
<1>1. Plain(i.fqdn) \in Text
    BY PlainType, RecordFields
<1>2. Upper(i.record_type) \in RecordTypes \cup {"a", "PTR"}
    BY UpperTwice, RecordFields
<1>3. i.value # None => Normalize(Upper(i.record_type), i.value) \in Text
    BY NormalizeType, RecordFields
<1> QED
    BY <1>1, <1>2, <1>3 DEF Stored, Record

(* The heart of it: to normalize is idempotent, and stays within what is   *)
(* accepted.                                                               *)
LEMMA StoredIsGood ==
    ASSUME NEW i \in Record, Accepts(i)
    PROVE  Good(Stored(i))
<1> DEFINE row == Stored(i)
           type == Upper(i.record_type)
<1>1. /\ row \in Record /\ row.fqdn = Plain(i.fqdn) /\ row.record_type = type
      /\ row.value = IF i.value = None THEN None ELSE Normalize(type, i.value)
      /\ row.ttl = i.ttl /\ row.priority = i.priority
      /\ row.weight = i.weight /\ row.port = i.port
    BY StoredFields
<1>2. type \in RecordTypes /\ Upper(type) = type
    BY UpperTwice, RecordFields DEF Accepts
<1>3. row.fqdn \in Text /\ row.fqdn.form = "plain"
      /\ row.fqdn.kind = i.fqdn.kind /\ row.fqdn.of = i.fqdn.of
      /\ Plain(row.fqdn) = row.fqdn
    BY <1>1, PlainType, RecordFields
<1>4. i.value # None => i.value \in Text /\ row.value \in Text
                         /\ row.value # None
    BY <1>1, NormalizeType, NoneIsNoText, RecordFields
<1>5. Accepts(row)
    <2>1. ValidNames(i) /\ ValidTtl(i.ttl) /\ ValidNumbers(type, i)
        BY DEF Accepts
    <2>2. ValidName(row.fqdn, TRUE)
        BY <1>3, <2>1 DEF ValidNames, ValidName
    <2>3. ValidNames(row)
        BY <1>3, <2>1, <2>2 DEF ValidNames
    <2>4. ValidTtl(row.ttl) /\ ValidNumbers(type, row)
        BY <1>1, <2>1 DEF ValidNumbers, PortAndWeight
    <2>5. IF row.value = None THEN type = "A"
          ELSE ValidValue(type, row.priority, row.value)
        <3>1. CASE i.value = None
            BY <3>1, <1>1 DEF Accepts
        <3>2. CASE i.value # None
            <4>1. ValidValue(type, i.priority, i.value)
                BY <3>2 DEF Accepts
            <4>2. ValidValue(type, i.priority, Normalize(type, i.value))
                BY <4>1, <1>2, <1>4, <3>2, ValueStaysValid
            <4> QED
                BY <4>2, <1>1, <1>4, <3>2
        <3> QED
            BY <3>1, <3>2
    <2>6. Upper(row.record_type) = type
        BY <1>1, <1>2
    <2> HIDE DEF row
    <2> QED
        BY <2>3, <2>4, <2>5, <2>6, <1>1, <1>2 DEF Accepts
<1>6. Stored(row) = row
    <2>1. IF row.value = None THEN row.value = None
          ELSE Normalize(type, row.value) = row.value
        BY <1>1, <1>2, <1>4, NormalizeType
    <2>2. row \in Record /\ Plain(row.fqdn) = row.fqdn
          /\ Upper(row.record_type) = row.record_type
        BY <1>1, <1>2, <1>3
    <2>3. /\ Stored(row).fqdn = row.fqdn
          /\ Stored(row).record_type = row.record_type
          /\ Stored(row).value = row.value
        BY <2>1, <2>2, StoredFields, <1>1
    <2>4. /\ Stored(row).ttl = row.ttl /\ Stored(row).weight = row.weight
          /\ Stored(row).priority = row.priority
          /\ Stored(row).port = row.port /\ Stored(row) \in Record
        BY <2>2, StoredFields
    <2> HIDE DEF row
    <2> QED
        BY <2>2, <2>3, <2>4 DEF Record
<1> QED
    BY <1>1, <1>5, <1>6 DEF Good

-----------------------------------------------------------------------------
(* What a good row has. *)

LEMMA GoodType ==
    ASSUME NEW row, Good(row)
    PROVE  /\ row \in Record /\ row.record_type \in RecordTypes
           /\ Upper(row.record_type) = row.record_type
<1>1. row \in Record /\ Accepts(row) /\ Stored(row) = row
    BY DEF Good
<1>2. Upper(row.record_type) = row.record_type
    BY <1>1, StoredFields
<1> QED
    BY <1>1, <1>2 DEF Accepts

LEMMA GoodChecks ==
    ASSUME NEW row, Good(row)
    PROVE  Checks(row)
<1>1. /\ row \in Record /\ row.record_type \in RecordTypes
      /\ Upper(row.record_type) = row.record_type
    BY GoodType
<1>2. Accepts(row)
    BY DEF Good
<1>3. /\ ValidTtl(row.ttl) /\ ValidNumbers(row.record_type, row)
      /\ row.value = None => row.record_type = "A"
    BY <1>1, <1>2 DEF Accepts
<1> QED
    BY <1>1, <1>3 DEF Checks, ValidNumbers, PortAndWeight, RecordTypes,
                      Prioritized

(* The sixteen-bit numbers are numbers.                                    *)
LEMMA U16Bounds == \A n \in U16 : n \in Int /\ 0 <= n /\ n <= 65535
BY DEF U16

LEMMA GoodUnwraps ==
    ASSUME NEW row, Good(row)
    PROVE  Unwraps(row)
<1>1. /\ row \in Record /\ row.record_type \in RecordTypes
      /\ Upper(row.record_type) = row.record_type
    BY GoodType
<1>2. Accepts(row) /\ Stored(row) = row
    BY DEF Good
<1>3. Checks(row) /\ None \notin U16
    BY GoodChecks, NoneIsNoText, U16Bounds
<1>4. /\ row.record_type \in Prioritized => row.priority # None
      /\ row.record_type = "SRV" => row.weight # None /\ row.port # None
    BY <1>3 DEF Checks
<1>5. ASSUME row.record_type = "CAA"
      PROVE  row.value # None /\ CaaSplits(row.value)
    <2>1. row.value # None /\ row.value \in Text
        BY <1>1, <1>3, <1>5 DEF Checks, Record
    <2>2. ValidCaa(row.value)
        BY <1>1, <1>2, <1>5, <2>1 DEF Accepts, ValidValue
    <2>3. NormalizeCaa(row.value) = row.value
        BY <1>1, <1>2, <1>5, <2>1, StoredFields DEF Normalize
    <2>4. row.value.form # "spaced"
        BY <2>1, <2>3, PlainType DEF NormalizeCaa
    <2> QED
        BY <2>1, <2>2, <2>4 DEF ValidCaa, CaaSplits
<1> QED
    BY <1>4, <1>5 DEF Unwraps

-----------------------------------------------------------------------------
(* The invariant. *)

LEMMA WriteKeepsInv ==
    ASSUME Inv, NEW id \in Ids, NEW row, Good(row), Write(id, row)
    PROVE  Inv'
<1>1. Checks(row) /\ row \in Record
    BY GoodChecks, GoodType
<1>2. CASE answer' = "conflict" /\ UNCHANGED table
    BY <1>2 DEF Inv, Answers, Collides
<1>3. CASE /\ ~Collides(id, row) /\ answer' = "ok"
           /\ table' = [table EXCEPT ![id] = row]
    <2>1. table' \in [Ids -> {None} \cup Record] /\ answer' \in Answers
        BY <1>1, <1>3 DEF Inv, Answers
    <2>2. ASSUME NEW x \in Ids
          PROVE  table'[x] = IF x = id THEN row ELSE table[x]
        BY <1>3 DEF Inv
    <2>3. \A x \in Ids : table'[x] # None => Good(table'[x])
        BY <2>2 DEF Inv
    <2>4. ASSUME NEW x \in Ids, table'[x] # None, Collides(x, table[x])'
          PROVE  FALSE
        <3>1. PICK y \in Ids \ {x} :
                /\ table'[y] # None
                /\ table'[y].fqdn = table'[x].fqdn
                /\ table'[y].record_type = table'[x].record_type
                /\ table'[y].value = table'[x].value
            BY <2>4 DEF Collides
        <3>2. CASE x = id
            BY <1>3, <2>2, <3>1, <3>2 DEF Collides
        <3>3. CASE y = id
            BY <1>3, <2>2, <2>4, <3>1, <3>3 DEF Collides
        <3>4. CASE x # id /\ y # id
            BY <2>2, <2>4, <3>1, <3>4 DEF Inv, Collides
        <3> QED
            BY <3>2, <3>3, <3>4
    <2> QED
        BY <2>1, <2>3, <2>4 DEF Inv
<1> QED
    BY <1>1, <1>2, <1>3 DEF Write

LEMMA InvInit == Init => Inv
BY DEF Init, Inv, Answers

LEMMA InvNext == Inv /\ [Next]_vars => Inv'
<1> SUFFICES ASSUME Inv, [Next]_vars PROVE Inv'
    OBVIOUS
<1>1. ASSUME NEW id \in Ids, NEW i \in Inputs, CreateRecord(id, i)
      PROVE  Inv'
    <2>1. CASE answer' = "invalid" /\ UNCHANGED table
        BY <2>1 DEF Inv, Answers, Collides
    <2>2. CASE Accepts(i) /\ Write(id, Stored(i))
        BY <2>2, InputAssumption, StoredIsGood, WriteKeepsInv
    <2> QED
        BY <1>1, <2>1, <2>2 DEF CreateRecord
<1>2. ASSUME NEW id \in Ids, NEW i \in Inputs, UpdateRecord(id, i)
      PROVE  Inv'
    <2>1. CASE answer' = "invalid" /\ UNCHANGED table
        BY <2>1 DEF Inv, Answers, Collides
    <2>2. CASE Accepts(i) /\ Write(id, Stored(i))
        BY <2>2, InputAssumption, StoredIsGood, WriteKeepsInv
    <2> QED
        BY <1>2, <2>1, <2>2 DEF UpdateRecord
<1>3. ASSUME NEW id \in Ids, DeleteRecord(id)
      PROVE  Inv'
    <2>1. \A x \in Ids : table'[x] = IF x = id THEN None ELSE table[x]
        BY <1>3 DEF Inv, DeleteRecord
    <2>2. table' \in [Ids -> {None} \cup Record] /\ answer' \in Answers
        BY <1>3 DEF Inv, DeleteRecord, Answers
    <2> QED
        BY <2>1, <2>2 DEF Inv, Collides
<1>4. CASE UNCHANGED vars
    BY <1>4 DEF Inv, vars, Collides
<1> QED
    BY <1>1, <1>2, <1>3, <1>4 DEF Next

(* Every row is accepted and in its stored form, and no two collide. *)
THEOREM RowsStayGood == Spec => []Inv
BY InvInit, InvNext, PTL DEF Spec

-----------------------------------------------------------------------------
(* No stored row, of whatever was sent, makes desired or caa_data panic.   *)
THEOREM RunsDoNotPanic == Spec => []NoPanic
<1>1. Inv => NoPanic
    BY GoodUnwraps DEF Inv, NoPanic, Rows
<1> QED
    BY <1>1, RowsStayGood, PTL

(* validate leaves nothing for the CHECK constraints to refuse.            *)
THEOREM ValidatePreempts == Spec => []ChecksNeverFire
<1>1. Inv => ChecksNeverFire
    BY DEF Inv, Answers, ChecksNeverFire
<1> QED
    BY <1>1, RowsStayGood, PTL

(* Sending back what was read is accepted, and changes nothing.            *)
THEOREM ResubmitKeeps == Spec => []EditKeepsRow
<1>1. Inv => EditKeepsRow
    BY DEF Inv, Good, EditKeepsRow, Rows
<1> QED
    BY <1>1, RowsStayGood, PTL

(* Two spellings of one record are one row, CAA apart.                     *)
THEOREM OneSpelling == Spec => []NoTwins
<1>1. ASSUME Inv, NEW id \in Rows, NEW other \in Rows,
             table[id].record_type # "CAA",
             Meaning(table[id]) = Meaning(table[other]), id # other
      PROVE  FALSE
    <2> DEFINE one == table[id]
               two == table[other]
    <2>1. Good(one) /\ Good(two) /\ ~Collides(id, one)
          /\ id \in Ids /\ other \in Ids /\ two # None
        BY <1>1 DEF Inv, Rows
    <2>2. one \in Record /\ two \in Record
        BY <2>1, GoodType
    <2>3. /\ one.fqdn.of = two.fqdn.of /\ one.record_type = two.record_type
          /\ (IF one.value = None \/ one.record_type = "TXT" THEN one.value
              ELSE Plain(one.value))
               = IF two.value = None \/ two.record_type = "TXT" THEN two.value
                 ELSE Plain(two.value)
        BY <1>1 DEF Meaning
    <2>4. ASSUME NEW row, Good(row)
          PROVE  /\ row.fqdn \in Text /\ row.fqdn.form = "plain"
                 /\ row.fqdn.kind = "name"
                 /\ row.value # None /\ row.record_type \notin {"TXT", "CAA"}
                       => Plain(row.value) = row.value
        <3>1. row \in Record /\ Accepts(row) /\ Stored(row) = row
              /\ Upper(row.record_type) = row.record_type
            BY <2>4, GoodType DEF Good
        <3>2. row.fqdn = Plain(row.fqdn) /\ row.fqdn \in Text
            BY <3>1, StoredFields DEF Record
        <3>3. row.fqdn.kind = "name"
            BY <3>1 DEF Accepts, ValidNames, ValidName
        <3>4. row.value # None =>
                row.value = Normalize(row.record_type, row.value)
            BY <3>1, StoredFields
        <3> QED
            BY <3>2, <3>3, <3>4, PlainType DEF Normalize
    <2>5. one.fqdn = two.fqdn
        BY <2>1, <2>3, <2>4 DEF Text
    <2>6. one.value = two.value
        <3>1. one.value \in Text \cup {None} /\ two.value \in Text \cup {None}
            BY <2>2 DEF Record
        <3>2. \A text \in Text : Plain(text) # None
            BY PlainType, NoneIsNoText
        <3> QED
            BY <1>1, <2>1, <2>3, <2>4, <3>1, <3>2
    <2> QED
        BY <2>1, <2>3, <2>5, <2>6, <1>1 DEF Collides
<1>2. Inv => NoTwins
    BY <1>1 DEF NoTwins
<1> QED
    BY <1>2, RowsStayGood, PTL

(* "as u16" changes no number of a good row. *)
LEMMA NumbersFit ==
    ASSUME NEW row, Good(row)
    PROVE  /\ row.record_type \in Prioritized
                 => AsU16(row.priority) = row.priority
           /\ row.record_type = "SRV" =>
                 AsU16(row.weight) = row.weight /\ AsU16(row.port) = row.port
<1>1. ASSUME NEW n \in U16 PROVE n % 65536 = n
    <2>1. n \in Int /\ 0 <= n /\ n <= 65535
        BY U16Bounds
    <2> QED
        BY ONLY <2>1, SMTT(30)
<1>2. \A n \in U16 : AsU16(n) = n
    BY <1>1 DEF AsU16
<1>3. Checks(row)
    BY GoodChecks
<1> QED
    BY <1>2, <1>3 DEF Checks

(* Cloudflare lists a pushed row as it stands, but for the form.           *)
LEMMA ListedFields ==
    ASSUME NEW row, NEW remote \in Listed(row)
    PROVE  \E form :
              /\ remote.content = [Sent(row).content EXCEPT !.form = form]
              /\ row.record_type = "TXT" => form = Sent(row).content.form
              /\ row.record_type = "CAA" => form = "plain"
              /\ remote.priority = Sent(row).priority
              /\ remote.weight = Sent(row).weight
              /\ remote.port = Sent(row).port
<1> DEFINE sent == Sent(row)
<1>1. PICK form :
        /\ remote = [sent EXCEPT !.content.form = form]
        /\ form \in CASE row.record_type \in {"CNAME", "MX", "SRV"} ->
                              {"plain", "upper", "dotted"}
                       [] row.record_type = "AAAA" -> {"plain", "upper", "long"}
                       [] row.record_type = "CAA" -> {"plain"}
                       [] OTHER -> {sent.content.form}
    BY DEF Listed
<1>2. /\ remote.content = [sent.content EXCEPT !.form = form]
      /\ remote.priority = sent.priority
      /\ remote.weight = sent.weight /\ remote.port = sent.port
    BY <1>1 DEF Sent
<1>3. /\ row.record_type = "TXT" => form = sent.content.form
      /\ row.record_type = "CAA" => form = "plain"
    BY <1>1
<1> QED
    BY <1>2, <1>3

(* What was pushed is found up to date by the next run.                    *)
THEOREM NoEndlessRewriting == Spec => []PushSettles
<1>1. ASSUME NEW row, Good(row), NEW remote \in Listed(row)
      PROVE  ContentMatches(row, remote)
    <2> DEFINE value == ValueOf(row)
    <2>1. /\ row \in Record /\ row.record_type \in RecordTypes /\ Checks(row)
        BY <1>1, GoodType, GoodChecks
    <2>2. value \in Text
        BY <2>1, RecordFields, RouterAssumption DEF ValueOf
    <2>3. PICK form :
              /\ remote.content = [Sent(row).content EXCEPT !.form = form]
              /\ row.record_type = "TXT" => form = Sent(row).content.form
              /\ row.record_type = "CAA" => form = "plain"
              /\ remote.priority = Sent(row).priority
              /\ remote.weight = Sent(row).weight
              /\ remote.port = Sent(row).port
        BY <1>1, ListedFields
    <2>4. /\ row.record_type \in Prioritized => remote.priority = row.priority
          /\ row.record_type = "SRV" =>
                remote.weight = row.weight /\ remote.port = row.port
        BY <1>1, <2>3, NumbersFit DEF Sent
    <2>5. CASE row.record_type = "CAA"
        <3>1. value = row.value
            BY <2>1, <2>5 DEF ValueOf, Checks
        <3>2. Sent(row).content = Plain(value)
            BY <2>5, <3>1 DEF Sent, CaaData
        <3>3. remote.content = Plain(Sent(row).content)
            BY <2>3, <2>5 DEF Plain
        <3>4. remote.content = Plain(value)
            BY <2>2, <3>2, <3>3, PlainType
        <3> QED
            BY <2>5, <3>4 DEF ContentMatches, CaaData
    <2>6. CASE row.record_type # "CAA"
        <3>1. Sent(row).content = value
            BY <2>6 DEF Sent
        <3>2. remote.content.of = value.of
            BY <2>2, <2>3, <3>1 DEF Text
        <3>3. row.record_type = "TXT" => remote.content = value
            BY <2>2, <2>3, <3>1 DEF Text
        <3> QED
            BY <2>1, <2>4, <2>6, <3>2, <3>3
               DEF ContentMatches, RecordTypes, Prioritized
    <2> QED
        BY <2>5, <2>6
<1>2. Inv => PushSettles
    BY <1>1 DEF Inv, PushSettles, Rows
<1> QED
    BY <1>2, RowsStayGood, PTL

=============================================================================
