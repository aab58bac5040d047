----------------------------- MODULE ListLemmas -----------------------------
(***************************************************************************)
(* What the operators on sequences that model the kernel's linked lists    *)
(* do to the elements of a list and to their order, and how the units that *)
(* several threads have or lack are counted together.                      *)
(***************************************************************************)
EXTENDS Integers, SequencesExt, SequenceTheorems, FiniteSetTheorems,
        WellFoundedInduction, TLAPS

(* No element twice.                                                       *)
Distinct(s) == \A i, j \in 1 .. Len(s) : i < j => s[i] # s[j]

-----------------------------------------------------------------------------
(* A set of natural numbers with an element has a smallest one.            *)
LEMMA MinNat ==
    ASSUME NEW S \in SUBSET Nat, S # {}
    PROVE  Min(S) \in S /\ \A k \in S : Min(S) <= k
<1> DEFINE R == OpToRel(<, Nat)
<1>1. IsWellFoundedOn(R, Nat)
  BY NatLessThanWellFounded
<1>2. \A x, y \in Nat : <<y, x>> \in R <=> y < x
  BY DEF OpToRel
<1> HIDE DEF R
<1>3. \E x \in S : \A y \in S : ~ (<<y, x>> \in R)
  BY <1>1, WFMin
<1>4. PICK x \in S : \A y \in S : ~ (<<y, x>> \in R)
  BY <1>3
<1>5. \A y \in S : x <= y
  <2>1. \A y \in S : x \in Nat /\ y \in Nat /\ ~(y < x)
    BY <1>2, <1>4
  <2> QED BY <2>1
<1> QED BY <1>5 DEF Min

(* An element taken out of a list moves those behind it up by one place.   *)
LEMMA RemoveAtElements ==
    ASSUME NEW S, NEW s \in Seq(S), NEW i \in 1 .. Len(s)
    PROVE  /\ RemoveAt(s, i) \in Seq(S)
           /\ Len(RemoveAt(s, i)) = Len(s) - 1
           /\ \A j \in 1 .. Len(s) - 1 :
                 RemoveAt(s, i)[j] = IF j < i THEN s[j] ELSE s[j + 1]
<1> DEFINE a == SubSeq(s, 1, i - 1)
           b == SubSeq(s, i + 1, Len(s))
<1>1. /\ Len(s) \in Nat /\ \A j \in 1 .. Len(s) : s[j] \in S
  BY LenProperties, ElementOfSeq
<1>2. /\ a \in Seq(S) /\ Len(a) = i - 1
      /\ \A j \in 1 .. i - 1 : a[j] = s[j]
  <2>1. \A j \in 1 .. i - 1 : s[j] \in S
    BY <1>1
  <2> QED BY <1>1, <2>1, SubSeqProperties
<1>3. /\ b \in Seq(S) /\ Len(b) = Len(s) - i
      /\ \A j \in 1 .. Len(s) - i : b[j] = s[i + j]
  <2>1. \A j \in i + 1 .. Len(s) : s[j] \in S
    BY <1>1
  <2>2. /\ b \in Seq(S) /\ Len(b) = IF i + 1 <= Len(s) THEN Len(s) - (i + 1) + 1 ELSE 0
        /\ \A j \in 1 .. Len(s) - (i + 1) + 1 : b[j] = s[(i + 1) + j - 1]
    BY <1>1, <2>1, SubSeqProperties
  <2> HIDE DEF b
  <2> QED BY <1>1, <2>2
<1> HIDE DEF a, b
<1>4. /\ a \o b \in Seq(S) /\ Len(a \o b) = Len(a) + Len(b)
      /\ \A j \in 1 .. Len(a) + Len(b) : (a \o b)[j] =
              IF j <= Len(a) THEN a[j] ELSE b[j - Len(a)]
  BY <1>2, <1>3, ConcatProperties
<1> DEFINE c == a \o b
<1>5. Len(a) + Len(b) = Len(s) - 1
  BY <1>1, <1>2, <1>3
<1>6. ASSUME NEW j \in 1 .. Len(s) - 1
      PROVE  c[j] = IF j < i THEN s[j] ELSE s[j + 1]
  <2>1. c[j] = IF j <= i - 1 THEN a[j] ELSE b[j - (i - 1)]
    BY <1>2, <1>4, <1>5
  <2>0. j \in Int /\ i \in Int
    BY <1>1
  <2> HIDE DEF c
  <2>2. CASE j < i
    BY <1>1, <1>2, <2>1, <2>2
  <2>3. CASE j >= i
    <3>1. j - (i - 1) \in 1 .. Len(s) - i /\ i + (j - (i - 1)) = j + 1
      BY <1>1, <2>3
    <3> QED BY <1>1, <1>3, <2>1, <2>3, <3>1
  <2> QED BY <2>0, <2>2, <2>3
<1> QED BY <1>4, <1>5, <1>6 DEF RemoveAt, a, b, c

(* An element inserted into a list moves those behind it back.             *)
LEMMA InsertAtElements ==
    ASSUME NEW S, NEW s \in Seq(S), NEW i \in 1 .. Len(s) + 1, NEW e \in S
    PROVE  /\ InsertAt(s, i, e) \in Seq(S)
           /\ Len(InsertAt(s, i, e)) = Len(s) + 1
           /\ \A j \in 1 .. Len(s) + 1 :
                 InsertAt(s, i, e)[j] = IF j < i THEN s[j] ELSE IF j = i THEN e ELSE s[j - 1]
<1> DEFINE a == SubSeq(s, 1, i - 1)
           b == SubSeq(s, i, Len(s))
           m == <<e>>
<1>1. /\ Len(s) \in Nat /\ \A j \in 1 .. Len(s) : s[j] \in S
  BY LenProperties, ElementOfSeq
<1>2. /\ a \in Seq(S) /\ Len(a) = i - 1
      /\ \A j \in 1 .. i - 1 : a[j] = s[j]
  <2>1. \A j \in 1 .. i - 1 : s[j] \in S
    BY <1>1
  <2> QED BY <1>1, <2>1, SubSeqProperties
<1>3. /\ b \in Seq(S) /\ Len(b) = Len(s) - i + 1
      /\ \A j \in 1 .. Len(s) - i + 1 : b[j] = s[i + j - 1]
  <2>1. \A j \in i .. Len(s) : s[j] \in S
    BY <1>1
  <2>2. /\ b \in Seq(S) /\ Len(b) = IF i <= Len(s) THEN Len(s) - i + 1 ELSE 0
        /\ \A j \in 1 .. Len(s) - i + 1 : b[j] = s[i + j - 1]
    BY <1>1, <2>1, SubSeqProperties
  <2> HIDE DEF b
  <2> QED BY <1>1, <2>2
<1>4. m \in Seq(S) /\ Len(m) = 1 /\ m[1] = e
  OBVIOUS
<1> HIDE DEF a, b, m
<1>5. /\ a \o m \in Seq(S) /\ Len(a \o m) = i
      /\ \A j \in 1 .. i : (a \o m)[j] = IF j < i THEN s[j] ELSE e
  <2>1. /\ a \o m \in Seq(S) /\ Len(a \o m) = Len(a) + Len(m)
        /\ \A j \in 1 .. Len(a) + Len(m) : (a \o m)[j] =
                IF j <= Len(a) THEN a[j] ELSE m[j - Len(a)]
    BY <1>2, <1>4, ConcatProperties
  <2>2. Len(a) + Len(m) = i
    BY <1>1, <1>2, <1>4
  <2> QED BY <1>1, <1>2, <1>4, <2>1, <2>2
<1> DEFINE am == a \o m
<1>6. /\ am \in Seq(S) /\ Len(am) = i
      /\ \A j \in 1 .. i : am[j] = IF j < i THEN s[j] ELSE e
  BY <1>5
<1> HIDE DEF am
<1>7. /\ am \o b \in Seq(S) /\ Len(am \o b) = Len(am) + Len(b)
      /\ \A j \in 1 .. Len(am) + Len(b) : (am \o b)[j] =
              IF j <= Len(am) THEN am[j] ELSE b[j - Len(am)]
  BY <1>3, <1>6, ConcatProperties
<1> DEFINE c == am \o b
<1>8. Len(am) + Len(b) = Len(s) + 1
  BY <1>1, <1>3, <1>6
<1>9. ASSUME NEW j \in 1 .. Len(s) + 1
      PROVE  c[j] = IF j < i THEN s[j] ELSE IF j = i THEN e ELSE s[j - 1]
  <2>1. c[j] = IF j <= i THEN am[j] ELSE b[j - i]
    BY <1>6, <1>7, <1>8
  <2>0. j \in Int /\ i \in Int
    BY <1>1
  <2> HIDE DEF c
  <2>2. CASE j <= i
    BY <1>1, <1>6, <2>1, <2>2
  <2>3. CASE j > i
    <3>1. j - i \in 1 .. Len(s) - i + 1 /\ i + (j - i) - 1 = j - 1
      BY <1>1, <2>3
    <3> QED BY <1>1, <1>3, <2>1, <2>3, <3>1
  <2> QED BY <2>0, <2>2, <2>3
<1> QED BY <1>7, <1>8, <1>9 DEF InsertAt, a, b, m, am, c

(* RemoveFirst takes an element of the list out at the place it is in.     *)
LEMMA RemoveFirstAt ==
    ASSUME NEW S, NEW s \in Seq(S), NEW e, Contains(s, e)
    PROVE  \E i \in 1 .. Len(s) : s[i] = e /\ RemoveFirst(s, e) = RemoveAt(s, i)
<1> DEFINE I == {i \in 1 .. Len(s) : s[i] = e}
<1>1. I \in SUBSET Nat /\ I # {}
  BY LenProperties DEF Contains
<1>2. Min(I) \in I
  BY <1>1, MinNat
<1>3. SelectInSeq(s, LAMBDA v : v = e) = Min(I)
  BY <1>1 DEF SelectInSeq
<1>4. RemoveFirst(s, e) = RemoveAt(s, Min(I))
  BY <1>3 DEF RemoveFirst, Contains
<1> QED BY <1>2, <1>4

(* The rest of a list whose elements differ: the others, each once.        *)
LEMMA RemoveAtDistinct ==
    ASSUME NEW S, NEW s \in Seq(S), NEW i \in 1 .. Len(s), Distinct(s)
    PROVE  /\ Distinct(RemoveAt(s, i))
           /\ \A x : Contains(RemoveAt(s, i), x) <=> Contains(s, x) /\ x # s[i]
<1> DEFINE r == RemoveAt(s, i)
<1>1. /\ r \in Seq(S) /\ Len(r) = Len(s) - 1
      /\ \A j \in 1 .. Len(s) - 1 : r[j] = IF j < i THEN s[j] ELSE s[j + 1]
      /\ Len(s) \in Nat
  BY RemoveAtElements, LenProperties
<1> HIDE DEF r
<1>2. Distinct(r)
  <2> SUFFICES ASSUME NEW j \in 1 .. Len(r), NEW k \in 1 .. Len(r), j < k PROVE r[j] # r[k]
    BY DEF Distinct
  <2>1. /\ j \in 1 .. Len(s) /\ j + 1 \in 1 .. Len(s) /\ k \in 1 .. Len(s)
        /\ k + 1 \in 1 .. Len(s) /\ j < k + 1 /\ j + 1 < k + 1
        /\ r[j] \in {s[j], s[j + 1]} /\ r[k] \in {s[k], s[k + 1]}
        /\ k < i => r[j] = s[j] /\ r[k] = s[k]
        /\ k >= i => r[k] = s[k + 1]
    BY <1>1
  <2> QED BY <1>1, <2>1 DEF Distinct
<1>3. ASSUME NEW x, Contains(r, x) PROVE Contains(s, x) /\ x # s[i]
  <2>1. PICK j \in 1 .. Len(s) - 1 : r[j] = x
    BY <1>1, <1>3 DEF Contains
  <2>2. PICK k \in 1 .. Len(s) : k # i /\ s[k] = x
    <3>1. CASE j < i
      BY <1>1, <2>1, <3>1
    <3>2. CASE j >= i
      <4>1. j + 1 \in 1 .. Len(s) /\ j + 1 # i /\ s[j + 1] = x
        BY <1>1, <2>1, <3>2
      <4> QED BY <4>1
    <3> QED BY <1>1, <3>1, <3>2
  <2>3. k < i \/ i < k
    BY <1>1, <2>2
  <2> QED BY <2>2, <2>3 DEF Contains, Distinct
<1>4. ASSUME NEW x, Contains(s, x), x # s[i] PROVE Contains(r, x)
  <2>1. PICK k \in 1 .. Len(s) : s[k] = x /\ k # i
    BY <1>4 DEF Contains
  <2>2. CASE k < i
    <3>1. k \in 1 .. Len(s) - 1 /\ r[k] = x
      BY <1>1, <2>1, <2>2
    <3> QED BY <1>1, <3>1 DEF Contains
  <2>3. CASE i < k
    <3>1. k - 1 \in 1 .. Len(s) - 1 /\ r[k - 1] = x
      BY <1>1, <2>1, <2>3
    <3> QED BY <1>1, <3>1 DEF Contains
  <2> QED BY <1>1, <2>1, <2>2, <2>3
<1> QED BY <1>2, <1>3, <1>4 DEF r

(* The same for the tail of a list.                                        *)
LEMMA TailDistinct ==
    ASSUME NEW S, NEW s \in Seq(S), s # <<>>, Distinct(s)
    PROVE  /\ Tail(s) \in Seq(S) /\ Head(s) \in S /\ Contains(s, Head(s))
           /\ Distinct(Tail(s))
           /\ \A x : Contains(Tail(s), x) <=> Contains(s, x) /\ x # Head(s)
<1>1. /\ Tail(s) \in Seq(S) /\ Head(s) \in S /\ Len(Tail(s)) = Len(s) - 1
      /\ \A j \in 1 .. Len(Tail(s)) : Tail(s)[j] = s[j + 1]
      /\ Len(s) \in Nat /\ Len(s) # 0 /\ Head(s) = s[1]
  BY HeadTailProperties, LenProperties, EmptySeq
<1> DEFINE r == Tail(s)
<1>2. /\ Len(r) = Len(s) - 1 /\ \A j \in 1 .. Len(s) - 1 : r[j] = s[j + 1]
  BY <1>1
<1> HIDE DEF r
<1>3. Distinct(r)
  <2> SUFFICES ASSUME NEW j \in 1 .. Len(r), NEW k \in 1 .. Len(r), j < k PROVE r[j] # r[k]
    BY DEF Distinct
  <2>1. /\ j + 1 \in 1 .. Len(s) /\ k + 1 \in 1 .. Len(s) /\ j + 1 < k + 1
        /\ r[j] = s[j + 1] /\ r[k] = s[k + 1]
    BY <1>1, <1>2
  <2> QED BY <2>1 DEF Distinct
<1>4. ASSUME NEW x, Contains(r, x) PROVE Contains(s, x) /\ x # Head(s)
  <2>1. PICK j \in 1 .. Len(s) - 1 : r[j] = x
    BY <1>2, <1>4 DEF Contains
  <2>2. j + 1 \in 1 .. Len(s) /\ s[j + 1] = x /\ 1 \in 1 .. Len(s) /\ 1 < j + 1
    BY <1>1, <1>2, <2>1
  <2> QED BY <1>1, <2>2 DEF Contains, Distinct
<1>5. ASSUME NEW x, Contains(s, x), x # Head(s) PROVE Contains(r, x)
  <2>1. PICK k \in 1 .. Len(s) : s[k] = x /\ k # 1
    BY <1>1, <1>5 DEF Contains
  <2>2. k - 1 \in 1 .. Len(s) - 1 /\ r[k - 1] = x
    BY <1>1, <1>2, <2>1
  <2> QED BY <1>2, <2>2 DEF Contains
<1>6. Contains(s, Head(s))
  <2>1. 1 \in 1 .. Len(s) /\ s[1] = Head(s)
    BY <1>1
  <2> QED BY <2>1 DEF Contains
<1> QED BY <1>1, <1>3, <1>4, <1>5, <1>6 DEF r

(* A new element in a list: it and the others, each once.                  *)
LEMMA InsertAtDistinct ==
    ASSUME NEW S, NEW s \in Seq(S), NEW i \in 1 .. Len(s) + 1, NEW e \in S,
           Distinct(s), ~Contains(s, e)
    PROVE  /\ Distinct(InsertAt(s, i, e))
           /\ \A x : Contains(InsertAt(s, i, e), x) <=> Contains(s, x) \/ x = e
<1> DEFINE r == InsertAt(s, i, e)
<1>1. /\ r \in Seq(S) /\ Len(r) = Len(s) + 1
      /\ \A j \in 1 .. Len(s) + 1 : r[j] = IF j < i THEN s[j] ELSE IF j = i THEN e ELSE s[j - 1]
      /\ Len(s) \in Nat
  BY InsertAtElements, LenProperties
<1> HIDE DEF r
<1>2. \A j \in 1 .. Len(s) : s[j] # e
  BY DEF Contains
<1>3. Distinct(r)
  <2> SUFFICES ASSUME NEW j \in 1 .. Len(r), NEW k \in 1 .. Len(r), j < k PROVE r[j] # r[k]
    BY DEF Distinct
  <2>1. CASE k < i
    BY <1>1, <2>1 DEF Distinct
  <2>2. CASE k = i
    BY <1>1, <1>2, <2>2
  <2>3. CASE k > i
    <3>1. k - 1 \in 1 .. Len(s) /\ r[k] = s[k - 1]
      BY <1>1, <2>3
    <3>2. CASE j < i
      <4>1. j \in 1 .. Len(s) /\ r[j] = s[j] /\ j < k - 1
        BY <1>1, <2>3, <3>2
      <4> QED BY <3>1, <4>1 DEF Distinct
    <3>3. CASE j = i
      BY <1>1, <1>2, <3>1, <3>3
    <3>4. CASE j > i
      <4>1. j - 1 \in 1 .. Len(s) /\ r[j] = s[j - 1] /\ j - 1 < k - 1
        BY <1>1, <3>4
      <4> QED BY <3>1, <4>1 DEF Distinct
    <3> QED BY <1>1, <3>2, <3>3, <3>4
  <2> QED BY <1>1, <2>1, <2>2, <2>3
<1>4. ASSUME NEW x, Contains(r, x) PROVE Contains(s, x) \/ x = e
  <2>1. PICK j \in 1 .. Len(s) + 1 : r[j] = x
    BY <1>1, <1>4 DEF Contains
  <2>2. x = e \/ \E k \in 1 .. Len(s) : s[k] = x
    BY <1>1, <2>1
  <2> QED BY <2>2 DEF Contains
<1>5. ASSUME NEW x, Contains(s, x) PROVE Contains(r, x)
  <2>1. PICK k \in 1 .. Len(s) : s[k] = x
    BY <1>5 DEF Contains
  <2>2. CASE k < i
    <3>1. k \in 1 .. Len(s) + 1 /\ r[k] = x
      BY <1>1, <2>1, <2>2
    <3> QED BY <1>1, <3>1 DEF Contains
  <2>3. CASE i <= k
    <3>1. k + 1 \in 1 .. Len(s) + 1 /\ r[k + 1] = x
      BY <1>1, <2>1, <2>3
    <3> QED BY <1>1, <3>1 DEF Contains
  <2> QED BY <1>1, <2>1, <2>2, <2>3
<1>6. Contains(r, e)
  <2>1. i \in 1 .. Len(s) + 1 /\ r[i] = e
    BY <1>1
  <2> QED BY <1>1, <2>1 DEF Contains
<1> QED BY <1>3, <1>4, <1>5, <1>6 DEF r

(* The same for a new element at the front of a list.                      *)
LEMMA PrependDistinct ==
    ASSUME NEW S, NEW s \in Seq(S), NEW e \in S, Distinct(s), ~Contains(s, e)
    PROVE  /\ <<e>> \o s \in Seq(S) /\ Distinct(<<e>> \o s)
           /\ \A x : Contains(<<e>> \o s, x) <=> Contains(s, x) \/ x = e
<1> DEFINE m == <<e>>
           r == m \o s
<1>1. m \in Seq(S) /\ Len(m) = 1 /\ m[1] = e
  OBVIOUS
<1> HIDE DEF m
<1>2. /\ r \in Seq(S) /\ Len(r) = Len(s) + 1 /\ Len(s) \in Nat
      /\ \A j \in 1 .. Len(s) + 1 : r[j] = IF j = 1 THEN e ELSE s[j - 1]
  <2>1. /\ r \in Seq(S) /\ Len(r) = Len(m) + Len(s) /\ Len(s) \in Nat
        /\ \A j \in 1 .. Len(m) + Len(s) : r[j] = IF j <= Len(m) THEN m[j] ELSE s[j - Len(m)]
    BY <1>1, ConcatProperties, LenProperties
  <2> HIDE DEF r
  <2> QED BY <1>1, <2>1
<1> HIDE DEF r
<1>3. \A j \in 1 .. Len(s) : s[j] # e /\ j + 1 \in 1 .. Len(s) + 1 /\ r[j + 1] = s[j]
  BY <1>2 DEF Contains
<1>4. Distinct(r)
  <2> SUFFICES ASSUME NEW j \in 1 .. Len(r), NEW k \in 1 .. Len(r), j < k PROVE r[j] # r[k]
    BY DEF Distinct
  <2>1. k - 1 \in 1 .. Len(s) /\ r[k] = s[k - 1]
    BY <1>2
  <2>2. CASE j = 1
    BY <1>2, <1>3, <2>1, <2>2
  <2>3. CASE j # 1
    <3>1. j - 1 \in 1 .. Len(s) /\ r[j] = s[j - 1] /\ j - 1 < k - 1
      BY <1>2, <2>3
    <3> QED BY <2>1, <3>1 DEF Distinct
  <2> QED BY <2>2, <2>3
<1>5. ASSUME NEW x, Contains(r, x) PROVE Contains(s, x) \/ x = e
  <2>1. PICK j \in 1 .. Len(s) + 1 : r[j] = x
    BY <1>2, <1>5 DEF Contains
  <2>2. x = e \/ (j - 1 \in 1 .. Len(s) /\ s[j - 1] = x)
    BY <1>2, <2>1
  <2> QED BY <2>2 DEF Contains
<1>6. ASSUME NEW x, Contains(s, x) PROVE Contains(r, x)
  <2>1. PICK k \in 1 .. Len(s) : s[k] = x
    BY <1>6 DEF Contains
  <2> QED BY <1>2, <1>3, <2>1 DEF Contains
<1>7. Contains(r, e)
  <2>1. 1 \in 1 .. Len(s) + 1 /\ r[1] = e
    BY <1>2
  <2> QED BY <1>2, <2>1 DEF Contains
<1> QED BY <1>2, <1>4, <1>5, <1>6, <1>7 DEF m, r

(* The same for a new element at the end of a list.                        *)
LEMMA AppendDistinct ==
    ASSUME NEW S, NEW s \in Seq(S), NEW e \in S, Distinct(s), ~Contains(s, e)
    PROVE  /\ Append(s, e) \in Seq(S) /\ Distinct(Append(s, e))
           /\ \A x : Contains(Append(s, e), x) <=> Contains(s, x) \/ x = e
<1>1. /\ Append(s, e) \in Seq(S) /\ Len(Append(s, e)) = Len(s) + 1 /\ Len(s) \in Nat
      /\ \A j \in 1 .. Len(s) : Append(s, e)[j] = s[j]
      /\ Append(s, e)[Len(s) + 1] = e
  OBVIOUS
<1>2. PICK r : r = Append(s, e)
  OBVIOUS
<1>3. Distinct(r)
  <2>1. SUFFICES ASSUME NEW i \in 1 .. Len(r), NEW j \in 1 .. Len(r), i < j
                 PROVE  r[i] # r[j]
    BY DEF Distinct
  <2>2. i \in 1 .. Len(s) /\ r[i] = s[i]
    BY <1>1, <1>2, <2>1
  <2>3. CASE j \in 1 .. Len(s)
    BY <1>1, <1>2, <2>1, <2>2, <2>3 DEF Distinct
  <2>4. CASE j = Len(s) + 1
    BY <1>1, <1>2, <2>2, <2>4 DEF Contains
  <2> QED BY <1>1, <1>2, <2>3, <2>4
<1>4. ASSUME NEW x
      PROVE  Contains(r, x) <=> Contains(s, x) \/ x = e
  <2>1. Contains(r, x) <=> \E j \in 1 .. Len(s) + 1 : r[j] = x
    BY <1>1, <1>2 DEF Contains
  <2>2. (\E j \in 1 .. Len(s) + 1 : r[j] = x) <=> (\E j \in 1 .. Len(s) : s[j] = x) \/ x = e
    BY <1>1, <1>2
  <2> QED BY <2>1, <2>2 DEF Contains
<1> QED BY <1>1, <1>2, <1>3, <1>4

-----------------------------------------------------------------------------
(* Counting units, each with its number and the thread it is of.           *)

(* Pairing every element with t changes no number.                         *)
LEMMA CardPairs ==
    ASSUME NEW P, NEW t, IsFiniteSet(P)
    PROVE  IsFiniteSet({t} \X P) /\ Cardinality({t} \X P) = Cardinality(P)
<1> DEFINE f == [i \in P |-> <<t, i>>]
<1>1. f \in [P -> {t} \X P] /\ \A i \in P : f[i] = <<t, i>>
  OBVIOUS
<1> HIDE DEF f
<1>2. \A i, j \in P : f[i] = f[j] => i = j
  BY <1>1
<1>3. \A q \in {t} \X P : \E i \in P : f[i] = q
  <2>1. ASSUME NEW q \in {t} \X P
        PROVE  \E i \in P : f[i] = q
    <3>1. PICK i \in P : q = <<t, i>>
      OBVIOUS
    <3> QED BY <1>1, <3>1
  <2> QED BY <2>1
<1>4. f \in Injection(P, {t} \X P)
  BY <1>1, <1>2 DEF Injection, IsInjective
<1>5. f \in Surjection(P, {t} \X P)
  BY <1>1, <1>3 DEF Surjection
<1>6. ExistsBijection(P, {t} \X P)
  BY <1>4, <1>5 DEF ExistsBijection, Bijection
<1> QED BY <1>6, FS_Bijection

(* The numbers up to k.                                                    *)
LEMMA CardUpTo ==
    ASSUME NEW k \in Nat
    PROVE  IsFiniteSet(1 .. k) /\ Cardinality(1 .. k) = k
<1>1. k \in Int /\ (IF 1 > k THEN 0 ELSE k - 1 + 1) = k
  OBVIOUS
<1> QED BY <1>1, FS_Interval

(* Units that one thread has to give are added to those of the others.     *)
LEMMA UnitsAdded ==
    ASSUME NEW R, NEW t, NEW k \in Nat, IsFiniteSet(R), \A q \in R : q[1] # t
    PROVE  /\ IsFiniteSet(R \cup ({t} \X (1 .. k)))
           /\ Cardinality(R \cup ({t} \X (1 .. k))) = Cardinality(R) + k
<1> DEFINE D == {t} \X (1 .. k)
<1>1. IsFiniteSet(D) /\ Cardinality(D) = k
  BY CardUpTo, CardPairs
<1>2. R \cap D = {}
  OBVIOUS
<1> HIDE DEF D
<1>3. /\ IsFiniteSet(R \cup D)
      /\ Cardinality(R \cup D) = Cardinality(R) + Cardinality(D) - Cardinality({})
  BY <1>1, <1>2, FS_Union
<1>4. Cardinality({}) = 0 /\ Cardinality(R) \in Nat
  BY FS_EmptySet, FS_CardinalityType
<1>5. Cardinality(R \cup D) = Cardinality(R) + k
  BY <1>1, <1>3, <1>4
<1> QED BY <1>3, <1>5 DEF D
=============================================================================
