--------------------------- MODULE ListingProofs ---------------------------
(***************************************************************************)
(* Proofs about the paged listings, for every page size, every number of   *)
(* pages and any number of disturbances.                                   *)
(***************************************************************************)
EXTENDS Listing, SequenceTheorems, FiniteSetTheorems, TLAPS

-----------------------------------------------------------------------------
(* Inserting into a sequence and removing from it. *)

(* The new element is at its place, the ones from there on move up by one. *)
LEMMA InsertedAt ==
    ASSUME NEW S, NEW s \in Seq(S), NEW e \in S, NEW i \in 1..(Len(s) + 1)
    PROVE  LET t == SeqX!InsertAt(s, i, e) IN
           /\ t \in Seq(S) /\ Len(t) = Len(s) + 1
           /\ \A j \in 1..(Len(s) + 1) :
                 t[j] = IF j < i THEN s[j] ELSE IF j = i THEN e ELSE s[j - 1]
<1> DEFINE a == SubSeq(s, 1, i - 1)
           b == SubSeq(s, i, Len(s))
           m == a \o <<e>>
<1>1. Len(s) \in Nat /\ \A j \in 1..Len(s) : s[j] \in S
  BY LenProperties, ElementOfSeq
<1>2. /\ a \in Seq(S) /\ Len(a) = i - 1
      /\ \A j \in 1..(i - 1) : a[j] = s[j]
  BY <1>1, SubSeqProperties
<1>3. /\ b \in Seq(S) /\ Len(b) = Len(s) - i + 1
      /\ \A j \in 1..(Len(s) - i + 1) : b[j] = s[i + j - 1]
  BY <1>1, SubSeqProperties
<1>4. <<e>> \in Seq(S) /\ Len(<<e>>) = 1 /\ <<e>>[1] = e
  OBVIOUS
<1> HIDE DEF a, b
<1>5. /\ m \in Seq(S) /\ Len(m) = i
      /\ \A j \in 1..i : m[j] = IF j < i THEN s[j] ELSE e
  BY <1>2, <1>4, ConcatProperties
<1> HIDE DEF m
<1>6. /\ m \o b \in Seq(S) /\ Len(m \o b) = Len(s) + 1
      /\ \A j \in 1..(Len(s) + 1) :
            (m \o b)[j] = IF j <= i THEN m[j] ELSE b[j - i]
  <2>1. /\ m \o b \in Seq(S) /\ Len(m \o b) = Len(m) + Len(b)
        /\ \A j \in 1..(Len(m) + Len(b)) :
              (m \o b)[j] = IF j <= Len(m) THEN m[j] ELSE b[j - Len(m)]
    BY <1>3, <1>5, ConcatProperties
  <2>2. Len(m) + Len(b) = Len(s) + 1
    BY <1>1, <1>3, <1>5
  <2> QED
    BY <1>5, <2>1, <2>2
<1>7. SeqX!InsertAt(s, i, e) = m \o b
  BY DEF SeqX!InsertAt, m, a, b
<1>8. ASSUME NEW j \in 1..(Len(s) + 1)
      PROVE  (m \o b)[j] =
                IF j < i THEN s[j] ELSE IF j = i THEN e ELSE s[j - 1]
  <2>1. CASE j <= i
    BY <1>5, <1>6, <2>1
  <2>2. CASE ~(j <= i)
    <3>1. j - i \in 1..(Len(s) - i + 1) /\ i + (j - i) - 1 = j - 1
      BY <1>1, <2>2
    <3>2. b[j - i] = s[i + (j - i) - 1]
      BY <1>3, <3>1
    <3> QED
      BY <1>6, <2>2, <3>1, <3>2
  <2> QED
    BY <2>1, <2>2
<1> QED
  BY <1>6, <1>7, <1>8

(* One element is gone, the ones after it move down by one.                *)
LEMMA RemovedAt ==
    ASSUME NEW S, NEW s \in Seq(S), NEW i \in 1..Len(s)
    PROVE  LET t == SeqX!RemoveAt(s, i) IN
           /\ t \in Seq(S) /\ Len(t) = Len(s) - 1
           /\ \A j \in 1..(Len(s) - 1) :
                 t[j] = IF j < i THEN s[j] ELSE s[j + 1]
<1> DEFINE a == SubSeq(s, 1, i - 1)
           b == SubSeq(s, i + 1, Len(s))
<1>1. Len(s) \in Nat /\ \A j \in 1..Len(s) : s[j] \in S
  BY LenProperties, ElementOfSeq
<1>2. /\ a \in Seq(S) /\ Len(a) = i - 1
      /\ \A j \in 1..(i - 1) : a[j] = s[j]
  BY <1>1, SubSeqProperties
<1>3. /\ b \in Seq(S) /\ Len(b) = Len(s) - i
      /\ \A j \in 1..(Len(s) - i) : b[j] = s[i + j]
  <2>1. \A j \in (i + 1)..Len(s) : s[j] \in S
    BY <1>1
  <2>2. /\ b \in Seq(S)
        /\ Len(b) = IF i + 1 <= Len(s) THEN Len(s) - (i + 1) + 1 ELSE 0
        /\ \A j \in 1..(Len(s) - (i + 1) + 1) : b[j] = s[(i + 1) + j - 1]
    BY <1>1, <2>1, SubSeqProperties
  <2> QED
    BY <1>1, <2>2
<1> HIDE DEF a, b
<1>4. /\ a \o b \in Seq(S) /\ Len(a \o b) = Len(s) - 1
      /\ \A j \in 1..(Len(s) - 1) :
            (a \o b)[j] = IF j < i THEN a[j] ELSE b[j - i + 1]
  <2>1. /\ a \o b \in Seq(S) /\ Len(a \o b) = Len(a) + Len(b)
        /\ \A j \in 1..(Len(a) + Len(b)) :
              (a \o b)[j] = IF j <= Len(a) THEN a[j] ELSE b[j - Len(a)]
    BY <1>2, <1>3, ConcatProperties
  <2> QED
    BY <1>1, <1>2, <1>3, <2>1
<1>5. SeqX!RemoveAt(s, i) = a \o b
  BY DEF SeqX!RemoveAt, a, b
<1>6. ASSUME NEW j \in 1..(Len(s) - 1)
      PROVE  (a \o b)[j] = IF j < i THEN s[j] ELSE s[j + 1]
  <2>1. CASE j < i
    BY <1>2, <1>4, <2>1
  <2>2. CASE ~(j < i)
    <3>1. j - i + 1 \in 1..(Len(s) - i) /\ i + (j - i + 1) = j + 1
      BY <1>1, <2>2
    <3>2. b[j - i + 1] = s[i + (j - i + 1)]
      BY <1>3, <3>1
    <3> QED
      BY <1>4, <2>2, <3>1, <3>2
  <2> QED
    BY <2>1, <2>2
<1> QED
  BY <1>4, <1>5, <1>6

-----------------------------------------------------------------------------
(* Pages. *)

PageOf(i) == (i - 1) \div PerPage + 1

(* Dividing by the page size.                                              *)
LEMMA DivMonotone ==
    ASSUME NEW x \in Nat, NEW y \in Nat, x <= y
    PROVE  x \div PerPage \in Nat /\ x \div PerPage <= y \div PerPage
BY PageAssumption

LEMMA DivNext ==
    ASSUME NEW x \in Nat
    PROVE  (x + PerPage) \div PerPage = x \div PerPage + 1
BY PageAssumption

(* Later records are on later pages, and a page holds at least one.        *)
LEMMA PageOrder ==
    ASSUME NEW i \in Nat \ {0}, NEW j \in Nat \ {0}, i <= j
    PROVE  /\ PageOf(i) \in Nat \ {0} /\ PageOf(j) \in Nat \ {0}
           /\ PageOf(i) <= PageOf(j)
<1>1. i - 1 \in Nat /\ j - 1 \in Nat /\ i - 1 <= j - 1
  OBVIOUS
<1> QED
  BY <1>1, DivMonotone DEF PageOf

(* No record is past the last page.                                        *)
LEMMA PageInTotal ==
    ASSUME Len(zone) \in Nat, NEW i \in 1..Len(zone)
    PROVE  PageOf(i) <= TotalPages /\ TotalPages \in Nat
<1>1. /\ i - 1 \in Nat /\ i - 1 + PerPage \in Nat
      /\ Len(zone) + PerPage - 1 \in Nat
      /\ i - 1 + PerPage <= Len(zone) + PerPage - 1
  BY PageAssumption
<1>2. (i - 1 + PerPage) \div PerPage = PageOf(i)
  BY <1>1, DivNext DEF PageOf
<1> QED
  BY <1>1, <1>2, DivMonotone DEF TotalPages

(* A zone that fits has no page that cannot be asked for.                  *)
LEMMA TotalFits ==
    ASSUME Len(zone) \in Nat, Len(zone) <= PerPage * LastPage
    PROVE  TotalPages <= LastPage
<1>1. ASSUME NEW x \in Nat, x <= PerPage * LastPage
      PROVE  (x + PerPage - 1) \div PerPage <= LastPage
  BY <1>1, PageAssumption
<1> QED
  BY <1>1 DEF TotalPages

-----------------------------------------------------------------------------
(* The inductive invariant. *)

(* Records on the pages read so far that the listing does not have. *)
Missed == {x \in through \ got :
              \E i \in DOMAIN zone : zone[i] = x /\ PageOf(i) < page}

IInv ==
    /\ TypeOK /\ LossBounded
    /\ Len(zone) <= used["create"] /\ used["create"] <= Bound["create"]
    /\ at = "listing" => Cardinality(Missed) <= shifts

Here(x) == \E i \in DOMAIN zone : zone[i] = x

-----------------------------------------------------------------------------
(* The zone. *)

LEMMA ZoneTypes ==
    ASSUME TypeOK
    PROVE  /\ issued \in Nat /\ Len(zone) \in Nat
           /\ DOMAIN zone = 1..Len(zone)
           /\ \A i \in 1..Len(zone) : zone[i] \in 1..issued
           /\ \A i, j \in 1..Len(zone) : zone[i] = zone[j] => i = j
           /\ \A x : x \in SeqX!ToSet(zone) <=> Here(x)
<1>1. zone \in Seq(1..issued) /\ issued \in Nat
  BY DEF TypeOK
<1>2. Len(zone) \in Nat /\ DOMAIN zone = 1..Len(zone)
  BY <1>1, LenProperties
<1>3. \A i \in 1..Len(zone) : zone[i] \in 1..issued
  BY <1>1, ElementOfSeq
<1>4. \A i, j \in 1..Len(zone) : zone[i] = zone[j] => i = j
  BY <1>2 DEF TypeOK, SeqX!IsInjective
<1>5. \A x : x \in SeqX!ToSet(zone) <=> Here(x)
  BY DEF SeqX!ToSet, Here
<1> QED
  BY <1>1, <1>2, <1>3, <1>4, <1>5

(* A new record is one more in the zone; the others keep their order.      *)
LEMMA Inserted ==
    ASSUME TypeOK, NEW i \in 1..(Len(zone) + 1), Create(i)
    PROVE  /\ issued' = issued + 1 /\ issued' \in Nat
           /\ zone' \in Seq(1..issued') /\ Len(zone') = Len(zone) + 1
           /\ \A j \in 1..(Len(zone) + 1) :
                 zone'[j] = IF j < i THEN zone[j]
                            ELSE IF j = i THEN issued' ELSE zone[j - 1]
<1>1. issued' = issued + 1 /\ issued \in Nat /\ Len(zone) \in Nat
  BY ZoneTypes DEF Create
<1>2. zone \in Seq(1..issued') /\ issued' \in 1..issued'
  <2>1. 1..issued \subseteq 1..issued'
    BY <1>1
  <2> QED
    BY <1>1, <2>1, SeqMonotonic DEF TypeOK
<1>3. i \in 1..(Len(zone) + 1)
  OBVIOUS
<1> DEFINE S == 1..issued'
           e == issued'
           t == SeqX!InsertAt(zone, i, e)
<1>4. zone \in Seq(S) /\ e \in S
  BY <1>2
<1>5. zone' = t
  BY DEF Create
<1> HIDE DEF S, e
<1>6. /\ t \in Seq(S) /\ Len(t) = Len(zone) + 1
      /\ \A j \in 1..(Len(zone) + 1) :
            t[j] = IF j < i THEN zone[j]
                   ELSE IF j = i THEN e ELSE zone[j - 1]
  BY <1>3, <1>4, InsertedAt
<1> HIDE DEF t
<1> QED
  BY <1>1, <1>5, <1>6 DEF S, e

LEMMA InsertedHere ==
    ASSUME TypeOK, NEW i \in 1..(Len(zone) + 1), Create(i)
    PROVE  /\ \A x : Here(x)' <=> Here(x) \/ x = issued'
           /\ ~Here(issued')
           /\ SeqX!IsInjective(zone)'
<1> DEFINE n == Len(zone)
<1>1. /\ n \in Nat /\ DOMAIN zone = 1..n /\ i \in 1..(n + 1)
      /\ issued' = issued + 1 /\ issued \in Nat
      /\ \A j \in 1..n : zone[j] \in 1..issued
      /\ \A j, k \in 1..n : zone[j] = zone[k] => j = k
  BY ZoneTypes, Inserted
<1>2. /\ DOMAIN zone' = 1..(n + 1)
      /\ \A j \in 1..(n + 1) :
            zone'[j] = IF j < i THEN zone[j]
                       ELSE IF j = i THEN issued' ELSE zone[j - 1]
  BY Inserted, LenProperties
<1> HIDE DEF n
<1>3. ~Here(issued')
  BY <1>1 DEF Here
<1>4. ASSUME NEW x, Here(x)'
      PROVE  Here(x) \/ x = issued'
  <2>1. PICK j \in 1..(n + 1) : zone'[j] = x
    BY <1>2, <1>4 DEF Here
  <2>2. CASE j < i
    <3>1. j \in 1..n /\ zone[j] = x
      BY <1>1, <1>2, <2>1, <2>2
    <3> QED
      BY <1>1, <3>1 DEF Here
  <2>3. CASE j = i
    BY <1>2, <2>1, <2>3
  <2>4. CASE ~(j < i) /\ j # i
    <3>1. j - 1 \in 1..n /\ zone[j - 1] = x
      BY <1>1, <1>2, <2>1, <2>4
    <3> QED
      BY <1>1, <3>1 DEF Here
  <2> QED
    BY <2>2, <2>3, <2>4
<1>5. ASSUME NEW x, Here(x) \/ x = issued'
      PROVE  Here(x)'
  <2>1. CASE x = issued'
    <3>1. i \in 1..(n + 1) /\ zone'[i] = x
      BY <1>1, <1>2, <2>1
    <3> QED
      BY <1>2, <3>1 DEF Here
  <2>2. CASE Here(x)
    <3>1. PICK j \in 1..n : zone[j] = x
      BY <1>1, <2>2 DEF Here
    <3>2. CASE j < i
      <4>1. j \in 1..(n + 1) /\ zone'[j] = x
        BY <1>1, <1>2, <3>1, <3>2
      <4> QED
        BY <1>2, <4>1 DEF Here
    <3>3. CASE ~(j < i)
      <4>1. j + 1 \in 1..(n + 1) /\ zone'[j + 1] = x
        BY <1>1, <1>2, <3>1, <3>3
      <4> QED
        BY <1>2, <4>1 DEF Here
    <3> QED
      BY <3>2, <3>3
  <2> QED
    BY <1>5, <2>1, <2>2
<1>6. ASSUME NEW j \in 1..(n + 1), NEW k \in 1..(n + 1), zone'[j] = zone'[k]
      PROVE  j = k
  <2> DEFINE old(m) == IF m < i THEN m ELSE m - 1
  <2>1. ASSUME NEW m \in 1..(n + 1), m # i
        PROVE  old(m) \in 1..n /\ zone'[m] = zone[old(m)]
    BY <1>1, <1>2, <2>1
  <2>2. CASE j = i \/ k = i
    BY <1>1, <1>2, <1>6, <2>1, <2>2
  <2>3. CASE j # i /\ k # i
    <3>1. old(j) = old(k)
      BY <1>1, <1>6, <2>1, <2>3
    <3> QED
      BY <1>1, <2>3, <3>1
  <2> QED
    BY <2>2, <2>3
<1>7. SeqX!IsInjective(zone)'
  BY <1>2, <1>6 DEF SeqX!IsInjective
<1> QED
  BY <1>3, <1>4, <1>5, <1>7

(* A deletion takes one record out of the zone and moves later ones down.  *)
LEMMA Deleted ==
    ASSUME TypeOK, NEW i \in DOMAIN zone, Delete(i)
    PROVE  /\ zone' \in Seq(1..issued') /\ Len(zone') = Len(zone) - 1
           /\ \A j \in 1..(Len(zone) - 1) :
                 zone'[j] = IF j < i THEN zone[j] ELSE zone[j + 1]
<1> DEFINE S == 1..issued
           t == SeqX!RemoveAt(zone, i)
<1>1. zone \in Seq(S) /\ i \in 1..Len(zone)
  BY ZoneTypes DEF TypeOK
<1>2. zone' = t /\ issued' = issued
  BY DEF Delete
<1> HIDE DEF S
<1>3. /\ t \in Seq(S) /\ Len(t) = Len(zone) - 1
      /\ \A j \in 1..(Len(zone) - 1) :
            t[j] = IF j < i THEN zone[j] ELSE zone[j + 1]
  BY ONLY <1>1, RemovedAt
<1> HIDE DEF t
<1> QED
  BY <1>2, <1>3 DEF S

LEMMA DeletedHere ==
    ASSUME TypeOK, NEW i \in DOMAIN zone, Delete(i)
    PROVE  /\ \A x : Here(x)' <=> Here(x) /\ x # zone[i]
           /\ SeqX!IsInjective(zone)'
<1> DEFINE n == Len(zone)
           old(m) == IF m < i THEN m ELSE m + 1
<1>1. /\ n \in Nat /\ DOMAIN zone = 1..n /\ i \in 1..n
      /\ \A j, k \in 1..n : zone[j] = zone[k] => j = k
  BY ZoneTypes
<1>2. /\ DOMAIN zone' = 1..(n - 1)
      /\ \A j \in 1..(n - 1) :
            zone'[j] = IF j < i THEN zone[j] ELSE zone[j + 1]
  BY Deleted, LenProperties
<1> HIDE DEF n
<1>3. ASSUME NEW m \in 1..(n - 1)
      PROVE  old(m) \in (1..n) \ {i} /\ zone'[m] = zone[old(m)]
  BY <1>1, <1>2, <1>3
<1>4. ASSUME NEW x, Here(x)'
      PROVE  Here(x) /\ x # zone[i]
  <2>1. PICK j \in 1..(n - 1) : zone'[j] = x
    BY <1>2, <1>4 DEF Here
  <2>2. old(j) \in (1..n) \ {i} /\ zone[old(j)] = x
    BY <1>3, <2>1
  <2> QED
    BY <1>1, <2>2 DEF Here
<1>5. ASSUME NEW x, Here(x), x # zone[i]
      PROVE  Here(x)'
  <2>1. PICK j \in 1..n : zone[j] = x
    BY <1>1, <1>5 DEF Here
  <2>2. CASE j < i
    <3>1. j \in 1..(n - 1) /\ zone'[j] = x
      BY <1>1, <1>2, <2>1, <2>2
    <3> QED
      BY <1>2, <3>1 DEF Here
  <2>3. CASE ~(j < i)
    <3>1. j - 1 \in 1..(n - 1) /\ ~(j - 1 < i) /\ (j - 1) + 1 = j
      BY <1>1, <1>5, <2>1, <2>3
    <3>2. zone'[j - 1] = x
      BY <1>2, <2>1, <3>1
    <3> QED
      BY <1>2, <3>1, <3>2 DEF Here
  <2> QED
    BY <2>2, <2>3
<1>6. ASSUME NEW j \in 1..(n - 1), NEW k \in 1..(n - 1), zone'[j] = zone'[k]
      PROVE  j = k
  <2>1. old(j) = old(k)
    BY <1>1, <1>3, <1>6
  <2> QED
    BY <1>1, <2>1
<1>7. SeqX!IsInjective(zone)'
  BY <1>2, <1>6 DEF SeqX!IsInjective
<1> QED
  BY <1>4, <1>5, <1>7

(* A move takes one record elsewhere; those in between close up.           *)
LEMMA Moved ==
    ASSUME TypeOK, NEW i \in DOMAIN zone, NEW j \in DOMAIN zone, Move(i, j)
    PROVE  /\ zone' \in Seq(1..issued') /\ Len(zone') = Len(zone)
           /\ zone'[j] = zone[i]
           /\ \A k \in 1..Len(zone) :
                 /\ i < j /\ k >= i /\ k < j => zone'[k] = zone[k + 1]
                 /\ j < i /\ k > j /\ k <= i => zone'[k] = zone[k - 1]
                 /\ (k < i /\ k < j) \/ (k > i /\ k > j) => zone'[k] = zone[k]
<1> DEFINE n == Len(zone)
           S == 1..issued
           e == zone[i]
           t == SeqX!RemoveAt(zone, i)
           u == SeqX!InsertAt(t, j, e)
<1>1. /\ n \in Nat /\ zone \in Seq(S) /\ i \in 1..Len(zone)
      /\ i \in 1..n /\ j \in 1..n /\ e \in S
  BY ZoneTypes DEF TypeOK
<1>2. zone' = u /\ issued' = issued
  BY DEF Move
<1> HIDE DEF S, e
<1>3. /\ t \in Seq(S) /\ Len(t) = Len(zone) - 1
      /\ \A k \in 1..(Len(zone) - 1) :
            t[k] = IF k < i THEN zone[k] ELSE zone[k + 1]
  BY ONLY <1>1, RemovedAt
<1> HIDE DEF t, n
<1>4. Len(t) + 1 = n
  BY <1>1, <1>3 DEF n
<1>5. t \in Seq(S) /\ e \in S /\ j \in 1..(Len(t) + 1)
  BY <1>1, <1>3, <1>4
<1>6. /\ u \in Seq(S) /\ Len(u) = Len(t) + 1
      /\ \A k \in 1..(Len(t) + 1) :
            u[k] = IF k < j THEN t[k] ELSE IF k = j THEN e ELSE t[k - 1]
  <2>1. \A s \in Seq(S), m \in Nat :
          m \in 1..(Len(s) + 1) =>
            /\ SeqX!InsertAt(s, m, e) \in Seq(S)
            /\ Len(SeqX!InsertAt(s, m, e)) = Len(s) + 1
            /\ \A k \in 1..(Len(s) + 1) :
                 SeqX!InsertAt(s, m, e)[k] =
                   IF k < m THEN s[k] ELSE IF k = m THEN e ELSE s[k - 1]
    BY <1>5, InsertedAt
  <2> QED
    BY ONLY <1>1, <1>5, <2>1 DEF u
<1> HIDE DEF u
<1>7. zone' \in Seq(1..issued') /\ Len(zone') = n /\ zone'[j] = zone[i]
  BY <1>1, <1>2, <1>4, <1>6 DEF S, e
<1>8. /\ \A k \in 1..(n - 1) :
            t[k] = IF k < i THEN zone[k] ELSE zone[k + 1]
      /\ \A k \in 1..n :
            zone'[k] = IF k < j THEN t[k] ELSE IF k = j THEN e ELSE t[k - 1]
  BY <1>2, <1>3, <1>4, <1>6 DEF n
<1>9. ASSUME NEW k \in 1..n
      PROVE  /\ i < j /\ k >= i /\ k < j => zone'[k] = zone[k + 1]
             /\ j < i /\ k > j /\ k <= i => zone'[k] = zone[k - 1]
             /\ (k < i /\ k < j) \/ (k > i /\ k > j) => zone'[k] = zone[k]
  <2>1. CASE k < j
    <3>1. k \in 1..(n - 1) /\ zone'[k] = t[k]
      BY <1>1, <1>8, <2>1
    <3> QED
      BY <1>1, <1>8, <2>1, <3>1
  <2>2. CASE k = j
    BY <1>1, <2>2
  <2>3. CASE k > j
    <3>1. k - 1 \in 1..(n - 1) /\ zone'[k] = t[k - 1] /\ (k - 1) + 1 = k
      BY <1>1, <1>8, <2>3
    <3>2. zone'[k] = IF k - 1 < i THEN zone[k - 1] ELSE zone[k]
      BY <1>8, <3>1
    <3> QED
      BY <1>1, <2>3, <3>2
  <2> QED
    BY <1>1, <2>1, <2>2, <2>3
<1> QED
  BY <1>7, <1>9 DEF n

(* It loses no record and doubles none.                                    *)
LEMMA MovedHere ==
    ASSUME TypeOK, NEW i \in DOMAIN zone, NEW j \in DOMAIN zone, Move(i, j)
    PROVE  /\ \A x : Here(x)' <=> Here(x)
           /\ SeqX!IsInjective(zone)'
<1> DEFINE n == Len(zone)
           old(k) == IF k = j THEN i
                     ELSE IF i < j THEN (IF k >= i /\ k < j THEN k + 1 ELSE k)
                     ELSE (IF k > j /\ k <= i THEN k - 1 ELSE k)
           new(k) == IF k = i THEN j
                     ELSE IF i < j THEN (IF k > i /\ k <= j THEN k - 1 ELSE k)
                     ELSE (IF k >= j /\ k < i THEN k + 1 ELSE k)
<1>1. /\ n \in Nat /\ DOMAIN zone = 1..n /\ i \in 1..n /\ j \in 1..n /\ i # j
      /\ \A k, l \in 1..n : zone[k] = zone[l] => k = l
  BY ZoneTypes DEF Move
<1>2. /\ DOMAIN zone' = 1..n /\ zone'[j] = zone[i]
      /\ \A k \in 1..n :
            /\ i < j /\ k >= i /\ k < j => zone'[k] = zone[k + 1]
            /\ j < i /\ k > j /\ k <= i => zone'[k] = zone[k - 1]
            /\ (k < i /\ k < j) \/ (k > i /\ k > j) => zone'[k] = zone[k]
  BY Moved, LenProperties
<1> HIDE DEF n
<1>3. ASSUME NEW k \in 1..n
      PROVE  old(k) \in 1..n /\ zone'[k] = zone[old(k)]
  <2>1. CASE k = j
    BY <1>1, <1>2, <2>1
  <2>2. CASE k # j /\ i < j
    <3>1. CASE k >= i /\ k < j
      BY <1>1, <1>2, <2>2, <3>1
    <3>2. CASE ~(k >= i /\ k < j)
      <4>1. (k < i /\ k < j) \/ (k > i /\ k > j)
        BY <1>1, <2>2, <3>2
      <4> QED
        BY <1>2, <2>2, <3>2, <4>1
    <3> QED
      BY <3>1, <3>2
  <2>3. CASE k # j /\ j < i
    <3>1. CASE k > j /\ k <= i
      BY <1>1, <1>2, <2>3, <3>1
    <3>2. CASE ~(k > j /\ k <= i)
      <4>1. /\ (k < i /\ k < j) \/ (k > i /\ k > j)
            /\ ~(i < j)
        BY <1>1, <2>3, <3>2
      <4> QED
        BY <1>2, <2>3, <3>2, <4>1
    <3> QED
      BY <3>1, <3>2
  <2> QED
    BY <1>1, <2>1, <2>2, <2>3
<1>4. ASSUME NEW k \in 1..n
      PROVE  new(k) \in 1..n /\ old(new(k)) = k
  BY <1>1
<1>5. ASSUME NEW k \in 1..n, NEW l \in 1..n, old(k) = old(l)
      PROVE  k = l
  BY <1>1, <1>5
<1> HIDE DEF old, new
<1>6. \A x : Here(x)' <=> Here(x)
  <2>1. ASSUME NEW x, Here(x)'
        PROVE  Here(x)
    <3>1. PICK k \in 1..n : zone'[k] = x
      BY <1>2, <2>1 DEF Here
    <3> QED
      BY <1>1, <1>3, <3>1 DEF Here
  <2>2. ASSUME NEW x, Here(x)
        PROVE  Here(x)'
    <3>1. PICK k \in 1..n : zone[k] = x
      BY <1>1, <2>2 DEF Here
    <3>2. new(k) \in 1..n /\ zone'[new(k)] = x
      BY <1>3, <1>4, <3>1
    <3> QED
      BY <1>2, <3>2 DEF Here
  <2> QED
    BY <2>1, <2>2
<1>7. SeqX!IsInjective(zone)'
  BY <1>1, <1>2, <1>3, <1>5 DEF SeqX!IsInjective
<1> QED
  BY <1>6, <1>7

-----------------------------------------------------------------------------
(* What the listing misses. *)

(* Whatever is missed is finitely many records.                            *)
LEMMA MissedFinite ==
    ASSUME TypeOK
    PROVE  /\ IsFiniteSet(through) /\ IsFiniteSet(Missed)
           /\ through \subseteq 1..issued
<1>1. issued \in Nat /\ through \subseteq 1..issued
  BY ZoneTypes DEF TypeOK, Here
<1>2. IsFiniteSet(1..issued)
  BY <1>1, FS_Interval
<1>3. IsFiniteSet(through)
  BY <1>1, <1>2, FS_Subset
<1> QED
  BY <1>1, <1>3, FS_Subset DEF Missed

(* A creation moves records only to later pages.                           *)
LEMMA InsertMissesNone ==
    ASSUME TypeOK, NEW i \in 1..(Len(zone) + 1), Create(i), page \in Nat
    PROVE  Missed' \subseteq Missed
<1> DEFINE n == Len(zone)
<1>1. /\ n \in Nat /\ DOMAIN zone = 1..n /\ i \in 1..(n + 1)
      /\ issued' = issued + 1 /\ issued \in Nat
      /\ through \subseteq 1..issued
  BY ZoneTypes, MissedFinite, Inserted
<1>2. /\ DOMAIN zone' = 1..(n + 1)
      /\ \A j \in 1..(n + 1) :
            zone'[j] = IF j < i THEN zone[j]
                       ELSE IF j = i THEN issued' ELSE zone[j - 1]
  BY Inserted, LenProperties
<1> HIDE DEF n
<1> SUFFICES ASSUME NEW x \in through \ got,
                    NEW j \in 1..(n + 1), zone'[j] = x, PageOf(j) < page
             PROVE  \E k \in DOMAIN zone : zone[k] = x /\ PageOf(k) < page
  BY <1>2 DEF Missed, PageOf, Create, client
<1>3. x # issued'
  BY <1>1
<1>4. CASE j < i
  <2>1. j \in 1..n /\ zone[j] = x
    BY <1>1, <1>2, <1>4
  <2> QED
    BY <1>1, <2>1
<1>5. CASE ~(j < i)
  <2>1. j - 1 \in 1..n /\ zone[j - 1] = x
    BY <1>1, <1>2, <1>3, <1>5
  <2>2. /\ PageOf(j - 1) \in Nat /\ PageOf(j) \in Nat
        /\ PageOf(j - 1) <= PageOf(j)
    BY <1>1, <2>1, PageOrder
  <2>3. PageOf(j - 1) < page
    BY <2>2
  <2> QED
    BY <1>1, <2>1, <2>3
<1> QED
  BY <1>4, <1>5

(* One place at most is the last of a page read while the next one is not. *)
Edge(k) == PageOf(k) < page /\ ~(PageOf(k + 1) < page)

LEMMA OneEdge ==
    ASSUME page \in Nat, NEW j \in Nat \ {0}, NEW k \in Nat \ {0},
           Edge(j), Edge(k)
    PROVE  j = k
<1>1. ASSUME NEW a \in Nat \ {0}, NEW b \in Nat \ {0}, a < b,
             Edge(a), Edge(b)
      PROVE  FALSE
  <2>1. a + 1 \in Nat \ {0} /\ a + 1 <= b
    BY <1>1
  <2>2. /\ PageOf(a + 1) \in Nat /\ PageOf(b) \in Nat
        /\ PageOf(a + 1) <= PageOf(b)
    BY <2>1, PageOrder
  <2> QED
    BY <1>1, <2>2 DEF Edge
<1> QED
  BY <1>1

(* Where all that is newly missed was next to that edge, it is one record. *)
LEMMA EdgeMissesOne ==
    ASSUME page \in Nat,
           \A x \in Missed' \ Missed :
              \E k \in Nat \ {0} : Edge(k) /\ x = zone'[k]
    PROVE  \E y : Missed' \subseteq Missed \cup {y}
<1>1. CASE \E k \in Nat \ {0} : Edge(k)
  <2>1. PICK k \in Nat \ {0} : Edge(k)
    BY <1>1
  <2>2. Missed' \subseteq Missed \cup {zone'[k]}
    BY <2>1, OneEdge
  <2> QED
    BY <2>2
<1>2. CASE ~\E k \in Nat \ {0} : Edge(k)
  <2>1. Missed' \subseteq Missed \cup {0}
    BY <1>2
  <2> QED
    BY <2>1
<1> QED
  BY <1>1, <1>2

(* A deletion moves at most one record to a page already read.             *)
LEMMA DeleteMissesOne ==
    ASSUME TypeOK, NEW i \in DOMAIN zone, Delete(i), page \in Nat
    PROVE  \E y : Missed' \subseteq Missed \cup {y}
<1> DEFINE n == Len(zone)
<1>1. /\ n \in Nat /\ DOMAIN zone = 1..n /\ i \in 1..n
  BY ZoneTypes
<1>2. /\ DOMAIN zone' = 1..(n - 1)
      /\ \A j \in 1..(n - 1) :
            zone'[j] = IF j < i THEN zone[j] ELSE zone[j + 1]
      /\ through' \subseteq through /\ got' = got /\ page' = page
  BY Deleted, LenProperties DEF Delete, client
<1> HIDE DEF n
<1>3. ASSUME NEW x \in Missed' \ Missed
      PROVE  \E k \in Nat \ {0} : Edge(k) /\ x = zone'[k]
  <2>1. PICK j \in 1..(n - 1) : zone'[j] = x /\ PageOf(j) < page
    BY <1>2, <1>3 DEF Missed, PageOf
  <2>2. x \in through \ got
    BY <1>2, <1>3 DEF Missed
  <2>3. CASE j < i
    <3>1. j \in 1..n /\ zone[j] = x
      BY <1>1, <1>2, <2>1, <2>3
    <3> QED
      BY <1>1, <1>3, <2>1, <2>2, <3>1 DEF Missed
  <2>4. CASE ~(j < i)
    <3>1. j + 1 \in 1..n /\ zone[j + 1] = x /\ j \in Nat \ {0}
      BY <1>1, <1>2, <2>1, <2>4
    <3>2. ~(PageOf(j + 1) < page)
      BY <1>1, <1>3, <2>2, <3>1 DEF Missed
    <3> QED
      BY <2>1, <3>1, <3>2 DEF Edge
  <2> QED
    BY <2>3, <2>4
<1> QED
  BY <1>3, EdgeMissesOne

(* A move to a later place does so too, and one to an earlier place moves  *)
(* only the record that is moved.                                          *)
LEMMA MoveMissesOne ==
    ASSUME TypeOK, NEW i \in DOMAIN zone, NEW j \in DOMAIN zone, Move(i, j),
           page \in Nat
    PROVE  \E y : Missed' \subseteq Missed \cup {y}
<1> DEFINE n == Len(zone)
<1>1. /\ n \in Nat /\ DOMAIN zone = 1..n /\ i \in 1..n /\ j \in 1..n /\ i # j
  BY ZoneTypes DEF Move
<1>2. /\ DOMAIN zone' = 1..n /\ zone'[j] = zone[i]
      /\ \A k \in 1..n :
            /\ i < j /\ k >= i /\ k < j => zone'[k] = zone[k + 1]
            /\ j < i /\ k > j /\ k <= i => zone'[k] = zone[k - 1]
            /\ (k < i /\ k < j) \/ (k > i /\ k > j) => zone'[k] = zone[k]
      /\ through' = through /\ got' = got /\ page' = page
  BY Moved, LenProperties DEF Move, client
<1> HIDE DEF n
<1>3. ASSUME NEW k \in 1..n, NEW l \in 1..n, l <= k, PageOf(k) < page,
             zone'[k] = zone[l], zone[l] \in through \ got
      PROVE  zone[l] \in Missed
  <2>1. k \in Nat \ {0} /\ l \in Nat \ {0}
    BY <1>1
  <2>2. /\ PageOf(l) \in Nat /\ PageOf(k) \in Nat /\ PageOf(l) <= PageOf(k)
    BY <1>3, <2>1, PageOrder
  <2> QED
    BY <1>1, <1>3, <2>2 DEF Missed
<1>4. ASSUME NEW x \in Missed'
      PROVE  /\ x \in through \ got
             /\ \E k \in 1..n : zone'[k] = x /\ PageOf(k) < page
  BY <1>2, <1>4 DEF Missed, PageOf
<1>5. CASE j < i
  <2>1. ASSUME NEW x \in Missed', x # zone[i]
        PROVE  x \in Missed
    <3>1. PICK k \in 1..n : zone'[k] = x /\ PageOf(k) < page
      BY <1>4, <2>1
    <3>2. k # j
      BY <1>2, <2>1, <3>1
    <3>3. PICK l \in 1..n : l <= k /\ zone'[k] = zone[l]
      <4>1. CASE k > j /\ k <= i
        <5>1. k - 1 \in 1..n /\ k - 1 <= k /\ zone'[k] = zone[k - 1]
          BY <1>1, <1>2, <1>5, <4>1
        <5> QED
          BY <5>1
      <4>2. CASE ~(k > j /\ k <= i)
        <5>1. (k < i /\ k < j) \/ (k > i /\ k > j)
          BY <1>1, <1>5, <3>2, <4>2
        <5>2. zone'[k] = zone[k] /\ k <= k
          BY <1>2, <5>1
        <5> QED
          BY <5>2
      <4> QED
        BY <4>1, <4>2
    <3> QED
      BY <1>3, <1>4, <2>1, <3>1, <3>3
  <2> QED
    BY <2>1
<1>6. CASE i < j
  <2>1. ASSUME NEW x \in Missed' \ Missed
        PROVE  \E k \in Nat \ {0} : Edge(k) /\ x = zone'[k]
    <3>1. PICK k \in 1..n : zone'[k] = x /\ PageOf(k) < page
      BY <1>4, <2>1
    <3>2. x \in through \ got
      BY <1>4, <2>1
    <3>3. CASE k = j
      <4>1. i <= k /\ zone'[k] = zone[i] /\ zone[i] = x
        BY <1>1, <1>2, <1>6, <3>1, <3>3
      <4> QED
        BY <1>1, <1>3, <2>1, <3>1, <3>2, <4>1
    <3>4. CASE k < i \/ k > j
      <4>1. (k < i /\ k < j) \/ (k > i /\ k > j)
        BY <1>1, <1>6, <3>4
      <4>2. zone'[k] = zone[k] /\ k <= k
        BY <1>2, <4>1
      <4> QED
        BY <1>3, <2>1, <3>1, <3>2, <4>2
    <3>5. CASE k >= i /\ k < j
      <4>1. k + 1 \in 1..n /\ zone[k + 1] = x /\ k \in Nat \ {0}
        BY <1>1, <1>2, <1>6, <3>1, <3>5
      <4>2. ~(PageOf(k + 1) < page)
        BY <1>1, <2>1, <3>2, <4>1 DEF Missed
      <4> QED
        BY <3>1, <4>1, <4>2 DEF Edge
    <3> QED
      BY <1>1, <3>3, <3>4, <3>5
  <2> QED
    BY <2>1, EdgeMissesOne
<1> QED
  BY <1>1, <1>5, <1>6

-----------------------------------------------------------------------------
(* Every step. *)

(* Every step keeps every variable in its type.                            *)
LEMMA TypeStep ==
    ASSUME IInv, Next
    PROVE  TypeOK'
<1> TypeOK
  BY DEF IInv
<1> USE PageAssumption, BoundAssumption DEF cloud, client
<1>1. CASE Start
  BY <1>1 DEF Start, TypeOK
<1>2. CASE FetchPage
  <2>1. OnPage(page) \subseteq 1..issued
    BY ZoneTypes DEF OnPage
  <2>2. page' \in 1..LastPage
    BY <1>2 DEF FetchPage, TypeOK
  <2>3. got' \subseteq 1..issued
    BY <1>2, <2>1 DEF FetchPage, TypeOK
  <2>4. at' \in {"listing", "listed", "overflow"}
    BY <1>2 DEF FetchPage
  <2> QED
    BY <1>2, <2>2, <2>3, <2>4 DEF FetchPage, TypeOK
<1>3. CASE FetchFails
  <2>1. used' \in [Disturbances -> Nat] /\ at' = "idle"
    BY <1>3 DEF FetchFails, Spend, TypeOK, Disturbances
  <2> QED
    BY <1>3, <2>1 DEF FetchFails, TypeOK
<1>4. ASSUME NEW i \in 1..(Len(zone) + 1), Create(i)
      PROVE  TypeOK'
  <2>1. issued \in Nat /\ issued' = issued + 1
    BY <1>4, Inserted DEF TypeOK
  <2>2. \A x : Here(x) => Here(x)'
    BY <1>4, InsertedHere
  <2>3. SeqX!ToSet(zone) \subseteq SeqX!ToSet(zone')
    BY <2>2 DEF SeqX!ToSet, Here
  <2>4. used' \in [Disturbances -> Nat]
    BY <1>4 DEF Create, Spend, TypeOK, Disturbances
  <2>5. zone' \in Seq(1..issued') /\ SeqX!IsInjective(zone)'
    BY <1>4, Inserted, InsertedHere
  <2> QED
    BY <1>4, <2>1, <2>3, <2>4, <2>5 DEF Create, TypeOK
<1>5. ASSUME NEW i \in DOMAIN zone, Delete(i)
      PROVE  TypeOK'
  <2>1. \A x : Here(x)' <=> Here(x) /\ x # zone[i]
    BY <1>5, DeletedHere
  <2>2. \A x : x \in SeqX!ToSet(zone') <=> Here(x)'
    BY DEF SeqX!ToSet, Here
  <2>3. through' = through \ {zone[i]} /\ \A x \in through : Here(x)
    BY <1>5, ZoneTypes DEF Delete, TypeOK
  <2>4. through' \subseteq SeqX!ToSet(zone')
    BY <2>1, <2>2, <2>3
  <2>5. zone' \in Seq(1..issued') /\ SeqX!IsInjective(zone)'
    BY <1>5, Deleted, DeletedHere
  <2>6. used' \in [Disturbances -> Nat]
    BY <1>5 DEF Delete, Spend, TypeOK, Disturbances
  <2> QED
    BY <1>5, <2>4, <2>5, <2>6 DEF Delete, TypeOK
<1>6. ASSUME NEW i \in DOMAIN zone, NEW j \in DOMAIN zone, Move(i, j)
      PROVE  TypeOK'
  <2>1. /\ zone' \in Seq(1..issued') /\ SeqX!IsInjective(zone)'
        /\ \A x : Here(x) => Here(x)'
    BY <1>6, Moved, MovedHere
  <2>2. SeqX!ToSet(zone) \subseteq SeqX!ToSet(zone')
    BY <2>1 DEF SeqX!ToSet, Here
  <2>3. used' \in [Disturbances -> Nat]
    BY <1>6 DEF Move, Spend, TypeOK, Disturbances
  <2> QED
    BY <1>6, <2>1, <2>2, <2>3 DEF Move, TypeOK
<1> QED
  BY <1>1, <1>2, <1>3, <1>4, <1>5, <1>6 DEF Next

(* The zone holds no more than others have created.                        *)
LEMMA SizeStep ==
    ASSUME IInv, Next
    PROVE  /\ Len(zone') <= used'["create"]
           /\ used'["create"] <= Bound["create"]
<1> /\ TypeOK /\ Len(zone) \in Nat /\ used["create"] \in Nat
    /\ Len(zone) <= used["create"] /\ used["create"] <= Bound["create"]
  BY ZoneTypes DEF IInv, TypeOK, Disturbances
<1> USE BoundAssumption DEF cloud, client
<1>1. CASE Start \/ FetchPage \/ FetchFails
  BY <1>1 DEF Start, FetchPage, FetchFails, Spend, TypeOK, Disturbances
<1>2. ASSUME NEW i \in 1..(Len(zone) + 1), Create(i)
      PROVE  /\ Len(zone') <= used'["create"]
             /\ used'["create"] <= Bound["create"]
  <2>1. Len(zone') = Len(zone) + 1
    BY <1>2, Inserted
  <2>2. used'["create"] = used["create"] + 1 /\ used["create"] < Bound["create"]
    BY <1>2 DEF Create, Spend, TypeOK, Disturbances
  <2> QED
    BY <2>1, <2>2, BoundAssumption DEF Disturbances
<1>3. ASSUME NEW i \in DOMAIN zone, Delete(i)
      PROVE  /\ Len(zone') <= used'["create"]
             /\ used'["create"] <= Bound["create"]
  <2>1. Len(zone') = Len(zone) - 1
    BY <1>3, Deleted
  <2>2. used'["create"] = used["create"]
    BY <1>3 DEF Delete, Spend, TypeOK, Disturbances
  <2> QED
    BY <2>1, <2>2
<1>4. ASSUME NEW i \in DOMAIN zone, NEW j \in DOMAIN zone, Move(i, j)
      PROVE  /\ Len(zone') <= used'["create"]
             /\ used'["create"] <= Bound["create"]
  <2>1. Len(zone') = Len(zone)
    BY <1>4, Moved
  <2>2. used'["create"] = used["create"]
    BY <1>4 DEF Move, Spend, TypeOK, Disturbances
  <2> QED
    BY <2>1, <2>2
<1> QED
  BY <1>1, <1>2, <1>3, <1>4 DEF Next

LossInv == /\ at = "listing" => Cardinality(Missed) <= shifts
           /\ at = "listed" => Cardinality(through \ got) <= shifts

(* When the last page is read, all that the listing does not have is what  *)
(* it missed.                                                              *)
LEMMA LastPageRead ==
    ASSUME TypeOK, got' = got \cup OnPage(page), NoMorePages
    PROVE  through \ got' \subseteq Missed
<1> SUFFICES ASSUME NEW x \in through \ got'
             PROVE  \E i \in DOMAIN zone : zone[i] = x /\ PageOf(i) < page
  BY DEF Missed
<1>1. PICK i \in DOMAIN zone : zone[i] = x
  BY ZoneTypes DEF TypeOK, Here
<1>2. /\ i \in 1..Len(zone) /\ Len(zone) \in Nat /\ page \in Nat
  BY ZoneTypes, PageAssumption DEF TypeOK
<1>3. /\ PageOf(i) <= TotalPages /\ TotalPages \in Nat
      /\ PageOf(i) \in Nat
  BY <1>2, PageInTotal, PageOrder
<1>4. PageOf(i) # page
  BY <1>1 DEF OnPage, PageOf
<1> QED
  BY <1>1, <1>2, <1>3, <1>4 DEF NoMorePages

(* A page that is read misses nothing that was not missed before.          *)
LEMMA PageRead ==
    ASSUME TypeOK, got' = got \cup OnPage(page), page' = page + 1,
           UNCHANGED <<zone, through>>
    PROVE  Missed' \subseteq Missed
<1> SUFFICES ASSUME NEW x \in through \ got', NEW i \in DOMAIN zone,
                    zone[i] = x, PageOf(i) < page + 1
             PROVE  x \in through \ got /\ PageOf(i) < page
  BY DEF Missed, PageOf
<1>1. /\ i \in 1..Len(zone) /\ Len(zone) \in Nat /\ page \in Nat
  BY ZoneTypes, PageAssumption DEF TypeOK
<1>2. PageOf(i) \in Nat
  BY <1>1, PageOrder
<1>3. PageOf(i) # page
  BY DEF OnPage, PageOf
<1> QED
  BY <1>1, <1>2, <1>3

(* Each deletion or move costs the listing at most one record.             *)
LEMMA LossStep ==
    ASSUME IInv, Next
    PROVE  LossInv'
<1> TypeOK /\ LossInv
  BY DEF IInv, LossBounded, LossInv
<1> USE DEF cloud, client
<1>1. /\ Cardinality(Missed) \in Nat /\ shifts \in Nat /\ page \in Nat
      /\ Cardinality(through \ got) \in Nat
      /\ IsFiniteSet(Missed) /\ IsFiniteSet(through \ got)
  <2>1. IsFiniteSet(Missed) /\ IsFiniteSet(through \ got)
    BY MissedFinite, FS_Difference
  <2>2. Cardinality(Missed) \in Nat /\ Cardinality(through \ got) \in Nat
    BY <2>1, FS_CardinalityType
  <2> QED
    BY <2>1, <2>2, PageAssumption DEF TypeOK
<1>2. CASE Start
  <2>1. \A i \in DOMAIN zone : ~(PageOf(i) < 1)
    BY ZoneTypes, PageOrder
  <2>2. Missed' = {}
    BY <1>2, <2>1 DEF Start, Missed, PageOf
  <2> QED
    BY <1>2, <2>2, FS_EmptySet DEF Start, LossInv
<1>3. CASE FetchPage
  <2>1. CASE NoMorePages
    <3>1. through \ got' \subseteq Missed
      BY <1>3, <2>1, LastPageRead DEF FetchPage
    <3>2. Cardinality(through \ got') <= Cardinality(Missed)
      BY <1>1, <3>1, FS_Subset
    <3>3. Cardinality(through \ got') \in Nat
      BY <1>1, <3>1, FS_Subset, FS_CardinalityType
    <3> QED
      BY <1>1, <1>3, <2>1, <3>2, <3>3 DEF FetchPage, LossInv
  <2>2. CASE ~NoMorePages /\ at' # "overflow"
    <3>1. Missed' \subseteq Missed
      BY <1>3, <2>2, PageRead DEF FetchPage
    <3>2. Cardinality(Missed') <= Cardinality(Missed)
      BY <1>1, <3>1, FS_Subset
    <3>3. Cardinality(Missed') \in Nat
      BY <1>1, <3>1, FS_Subset, FS_CardinalityType
    <3> QED
      BY <1>1, <1>3, <2>2, <3>2, <3>3 DEF FetchPage, LossInv
  <2> QED
    BY <1>3, <2>1, <2>2 DEF LossInv
<1>4. CASE FetchFails
  BY <1>4 DEF FetchFails, LossInv
<1>5. ASSUME NEW i \in 1..(Len(zone) + 1), Create(i)
      PROVE  LossInv'
  <2>1. Missed' \subseteq Missed
    BY <1>1, <1>5, InsertMissesNone
  <2>2. Cardinality(Missed') <= Cardinality(Missed)
    BY <1>1, <2>1, FS_Subset
  <2>3. Cardinality(Missed') \in Nat
    BY <1>1, <2>1, FS_Subset, FS_CardinalityType
  <2> QED
    BY <1>1, <1>5, <2>2, <2>3 DEF Create, LossInv
<1>6. ASSUME shifts' = shifts + 1, UNCHANGED <<at, got>>,
             through' \subseteq through,
             \E y : Missed' \subseteq Missed \cup {y}
      PROVE  LossInv'
  <2>1. PICK y : Missed' \subseteq Missed \cup {y}
    BY <1>6
  <2>2. /\ IsFiniteSet(Missed \cup {y})
        /\ Cardinality(Missed \cup {y}) \in Nat
        /\ Cardinality(Missed \cup {y}) <= Cardinality(Missed) + 1
    <3>1. /\ IsFiniteSet(Missed \cup {y})
          /\ Cardinality(Missed \cup {y}) =
                IF y \in Missed THEN Cardinality(Missed)
                ELSE Cardinality(Missed) + 1
      BY <1>1, FS_AddElement
    <3> QED
      BY <1>1, <3>1
  <2>3. /\ Cardinality(Missed') <= Cardinality(Missed \cup {y})
        /\ Cardinality(Missed') \in Nat
    BY <2>1, <2>2, FS_Subset, FS_CardinalityType
  <2>4. through' \ got' \subseteq through \ got
    BY <1>6
  <2>5. /\ Cardinality(through' \ got') <= Cardinality(through \ got)
        /\ Cardinality(through' \ got') \in Nat
    BY <1>1, <2>4, FS_Subset, FS_CardinalityType
  <2> QED
    BY <1>1, <1>6, <2>2, <2>3, <2>5 DEF LossInv
<1>7. ASSUME NEW i \in DOMAIN zone, Delete(i)
      PROVE  LossInv'
  BY <1>1, <1>6, <1>7, DeleteMissesOne DEF Delete
<1>8. ASSUME NEW i \in DOMAIN zone, NEW j \in DOMAIN zone, Move(i, j)
      PROVE  LossInv'
  BY <1>1, <1>6, <1>8, MoveMissesOne DEF Move
<1> QED
  BY <1>2, <1>3, <1>4, <1>5, <1>7, <1>8 DEF Next

(* The invariant holds at first, and every step keeps it.                  *)
LEMMA InitInv == Init => IInv
<1> SUFFICES ASSUME Init PROVE IInv
  OBVIOUS
<1>1. Len(zone) = 0 /\ zone \in Seq(1..issued) /\ DOMAIN zone = {}
  BY EmptySeq, LenProperties DEF Init
<1>2. TypeOK
  BY <1>1, PageAssumption
     DEF Init, TypeOK, SeqX!IsInjective, SeqX!ToSet
<1> QED
  BY <1>1, <1>2, BoundAssumption
     DEF Init, IInv, LossBounded, Disturbances

LEMMA InvStep ==
    ASSUME IInv, [Next]_vars
    PROVE  IInv'
<1>1. CASE Next
  BY <1>1, TypeStep, LossStep, SizeStep
     DEF IInv, LossInv, LossBounded
<1>2. CASE UNCHANGED vars
  BY <1>2 DEF vars, IInv, TypeOK, LossBounded, Missed, PageOf
<1> QED
  BY <1>1, <1>2

LEMMA Invariance == Spec => []IInv
BY InitInv, InvStep, PTL DEF Spec

-----------------------------------------------------------------------------
(* The theorems. *)

(* Type correctness of the listing and the account it pages through.       *)
THEOREM TypeCorrect == Spec => []TypeOK
<1>1. IInv => TypeOK
  BY DEF IInv
<1> QED
  BY <1>1, Invariance, PTL

(* However records come, go and change places between two pages, a listing *)
(* misses at most one for each deletion or move (cloudflare.rs:175-198).   *)
THEOREM LossIsBounded == Spec => []LossBounded
<1>1. IInv => LossBounded
  BY DEF IInv
<1> QED
  BY <1>1, Invariance, PTL

(* In a zone that fits in the pages there are, the page number does not    *)
(* overflow (cloudflare.rs:196).                                           *)
THEOREM PagesSuffice == Spec => []NeverOverflows
<1>1. IInv => Len(zone) \in Nat /\ Len(zone) <= PerPage * LastPage
  <2> SUFFICES ASSUME IInv
               PROVE  Len(zone) \in Nat /\ Len(zone) <= PerPage * LastPage
    OBVIOUS
  <2>1. /\ Len(zone) \in Nat /\ Len(zone) <= used["create"]
        /\ used["create"] \in Nat
    BY ZoneTypes DEF IInv, TypeOK, Disturbances
  <2>2. used["create"] <= Bound["create"] /\ Bound["create"] \in Nat
    BY BoundAssumption DEF IInv, Disturbances
  <2>3. PerPage * LastPage \in Nat
    BY PageAssumption
  <2> QED
    BY <2>1, <2>2, <2>3, SizeAssumption
<1>2. IInv /\ NeverOverflows /\ [Next]_vars => NeverOverflows'
  <2> SUFFICES ASSUME IInv, NeverOverflows, Next
               PROVE  NeverOverflows'
    BY DEF vars, NeverOverflows
  <2>1. CASE FetchPage
    <3>1. TotalPages <= LastPage
      BY <1>1, TotalFits
    <3> QED
      BY <2>1, <3>1 DEF FetchPage, NoMorePages, NeverOverflows
  <2> QED
    BY <2>1 DEF Next, Start, FetchFails, Create, Delete, Move, client,
                NeverOverflows
<1>3. Init => NeverOverflows
  BY DEF Init, NeverOverflows
<1> QED
  BY <1>2, <1>3, Invariance, PTL DEF Spec

=============================================================================
