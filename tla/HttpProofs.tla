----------------------------- MODULE HttpProofs -----------------------------
(***************************************************************************)
(* For any projects, classes, objects, requests and listings: a listing    *)
(* has the objects that satisfy its filters, no id is handed out twice     *)
(* while a create or an object has it, and a client that pages through a   *)
(* class misses none of the objects.                                       *)
(***************************************************************************)
EXTENDS Http, FiniteSetTheorems, SequenceTheorems, TLAPS

-----------------------------------------------------------------------------
(***************************************************************************)
(* For any projects, classes, objects, requests and listings: a listing    *)
(* has the objects that satisfy its filters, no id is handed out twice     *)
(* while a create or an object has it, and a client that pages through a   *)
(* class misses none of the objects.                                       *)
(***************************************************************************)
(* The greatest and the least of a set of numbers, once found.             *)
(***************************************************************************)
(* For any projects, classes, objects, requests and listings: a listing    *)
(* has the objects that satisfy its filters, no id is handed out twice     *)
(* while a create or an object has it, and a client that pages through a   *)
(* class misses none of the objects.                                       *)
(***************************************************************************)
LEMMA MaxIs ==
  ASSUME NEW S \in SUBSET Int, NEW m \in S, \A y \in S : m >= y
  PROVE  Max(S) = m
<1>1. \A x \in S : (\A y \in S : x >= y) => x = m
  OBVIOUS
<1> QED BY <1>1 DEF Max

\* The least is found in the same way.
LEMMA MinIs ==
  ASSUME NEW S \in SUBSET Int, NEW m \in S, \A y \in S : m <= y
  PROVE  Min(S) = m
<1>1. \A x \in S : (\A y \in S : x <= y) => x = m
  OBVIOUS
<1> QED BY <1>1 DEF Min

\* The greater of two.
LEMMA MaxOfTwo ==
  ASSUME NEW a \in Int, NEW b \in Int
  PROVE  Max({a, b}) = IF a >= b THEN a ELSE b
<1>1. {a, b} \in SUBSET Int /\ a \in {a, b} /\ b \in {a, b}
  OBVIOUS
<1>2. CASE a >= b
  <2>1. \A y \in {a, b} : a >= y
    BY <1>2
  <2> QED BY <1>1, <1>2, <2>1, MaxIs
<1>3. CASE ~(a >= b)
  <2>1. \A y \in {a, b} : b >= y
    BY <1>3
  <2> QED BY <1>1, <1>3, <2>1, MaxIs
<1> QED BY <1>2, <1>3

\* The less of two.
LEMMA MinOfTwo ==
  ASSUME NEW a \in Int, NEW b \in Int
  PROVE  Min({a, b}) = IF a <= b THEN a ELSE b
<1>1. {a, b} \in SUBSET Int /\ a \in {a, b} /\ b \in {a, b}
  OBVIOUS
<1>2. CASE a <= b
  <2>1. \A y \in {a, b} : a <= y
    BY <1>2
  <2> QED BY <1>1, <1>2, <2>1, MinIs
<1>3. CASE ~(a <= b)
  <2>1. \A y \in {a, b} : b <= y
    BY <1>3
  <2> QED BY <1>1, <1>3, <2>1, MinIs
<1> QED BY <1>2, <1>3

(***************************************************************************)
(* For any projects, classes, objects, requests and listings: a listing    *)
(* has the objects that satisfy its filters, no id is handed out twice     *)
(* while a create or an object has it, and a client that pages through a   *)
(* class misses none of the objects.                                       *)
(***************************************************************************)
(* A set of natural numbers that is not empty has a least one.             *)
(***************************************************************************)
(* For any projects, classes, objects, requests and listings: a listing    *)
(* has the objects that satisfy its filters, no id is handed out twice     *)
(* while a create or an object has it, and a client that pages through a   *)
(* class misses none of the objects.                                       *)
(***************************************************************************)
Below == {s \in Nat \X Nat : s[1] < s[2]}

\* The order of the natural numbers is well founded.
LEMMA Least ==
  ASSUME NEW S \in SUBSET Nat, S # {}
  PROVE  \E m \in S : \A y \in S : m <= y
<1>1. IsWellFoundedOn(Below, Nat)
  BY NatLessThanWellFounded DEF OpToRel, Below
<1>2. PICK m \in S : \A y \in S : <<y, m>> \notin Below
  BY <1>1, WFMin
<1>3. ASSUME NEW y \in S PROVE m <= y
  <2>1. y \in Nat /\ m \in Nat
    OBVIOUS
  <2>2. ~(y < m)
    BY <1>2, <2>1 DEF Below
  <2> QED BY <2>1, <2>2
<1> QED BY <1>3

-----------------------------------------------------------------------------
(***************************************************************************)
(* For any projects, classes, objects, requests and listings: a listing    *)
(* has the objects that satisfy its filters, no id is handed out twice     *)
(* while a create or an object has it, and a client that pages through a   *)
(* class misses none of the objects.                                       *)
(***************************************************************************)
(* Listings: the ids in ascending order.                                   *)
(***************************************************************************)
(* For any projects, classes, objects, requests and listings: a listing    *)
(* has the objects that satisfy its filters, no id is handed out twice     *)
(* while a create or an object has it, and a client that pages through a   *)
(* class misses none of the objects.                                       *)
(***************************************************************************)
Ascends(s, ids) ==
    /\ s \in [1 .. Cardinality(ids) -> ids]
    /\ \A n \in 1 .. Cardinality(ids) - 1 : s[n] < s[n + 1]

(***************************************************************************)
(* For any projects, classes, objects, requests and listings: a listing    *)
(* has the objects that satisfy its filters, no id is handed out twice     *)
(* while a create or an object has it, and a client that pages through a   *)
(* class misses none of the objects.                                       *)
(***************************************************************************)
(* A sequence that ascends from one place to the next ascends.             *)
(***************************************************************************)
(* For any projects, classes, objects, requests and listings: a listing    *)
(* has the objects that satisfy its filters, no id is handed out twice     *)
(* while a create or an object has it, and a client that pages through a   *)
(* class misses none of the objects.                                       *)
(***************************************************************************)
LEMMA Ascending ==
  ASSUME NEW m \in Nat, NEW s, \A n \in 1 .. m : s[n] \in Nat,
         \A n \in 1 .. m - 1 : s[n] < s[n + 1]
  PROVE  \A i, j \in 1 .. m : i < j => s[i] < s[j]
<1> SUFFICES ASSUME NEW i \in 1 .. m,
                    {j \in 1 .. m : i < j /\ ~(s[i] < s[j])} # {}
             PROVE  FALSE
  OBVIOUS
<1> DEFINE B == {j \in 1 .. m : i < j /\ ~(s[i] < s[j])}
<1>1. PICK j \in B : \A y \in B : j <= y
  <2>1. B \subseteq Nat /\ B # {}
    OBVIOUS
  <2> QED BY <2>1, Least
<1>2. j - 1 \in 1 .. m - 1 /\ s[j - 1] < s[j] /\ s[j - 1] \in Nat /\ s[j] \in Nat
  <2>1. j - 1 \in 1 .. m - 1 /\ j - 1 \in 1 .. m /\ (j - 1) + 1 = j
    BY <1>1
  <2> QED BY <2>1
<1>3. CASE j - 1 = i
  BY <1>1, <1>2, <1>3
<1>4. CASE j - 1 # i
  <2>1. j - 1 \in 1 .. m /\ i < j - 1 /\ j - 1 \notin B
    BY <1>1, <1>2, <1>4
  <2>2. s[i] < s[j - 1] /\ s[i] \in Nat
    BY <2>1
  <2> QED BY <1>1, <1>2, <2>2
<1> QED BY <1>3, <1>4

(***************************************************************************)
(* For any projects, classes, objects, requests and listings: a listing    *)
(* has the objects that satisfy its filters, no id is handed out twice     *)
(* while a create or an object has it, and a client that pages through a   *)
(* class misses none of the objects.                                       *)
(***************************************************************************)
(* Sorted has every id once, in ascending order.                           *)
(***************************************************************************)
(* For any projects, classes, objects, requests and listings: a listing    *)
(* has the objects that satisfy its filters, no id is handed out twice     *)
(* while a create or an object has it, and a client that pages through a   *)
(* class misses none of the objects.                                       *)
(***************************************************************************)
LEMMA SortedExists ==
  ASSUME NEW n \in Nat, NEW ids \in SUBSET (1 .. n)
  PROVE  \E s : Ascends(s, ids)
<1> DEFINE Part(k) == {i \in ids : i <= k}
           Bad == {k \in 0 .. n : ~ \E s : Ascends(s, Part(k))}
<1>0. \A i \in ids : i \in Nat /\ 1 <= i /\ i <= n
  OBVIOUS
<1>1. SUFFICES Bad = {}
  <2>1. Part(n) = ids
    BY <1>0
  <2>2. \E s : Ascends(s, Part(n))
    BY <1>1
  <2> QED BY <2>1, <2>2
<1>2. SUFFICES ASSUME Bad # {} PROVE FALSE
  OBVIOUS
<1>3. PICK k \in Bad : \A y \in Bad : k <= y
  <2>1. Bad \subseteq Nat
    OBVIOUS
  <2> HIDE DEF Bad
  <2> QED BY <1>2, <2>1, Least
<1>4. k \in 0 .. n /\ ~ \E s : Ascends(s, Part(k))
  BY <1>3
<1>5. k # 0
  <2>1. SUFFICES ASSUME k = 0 PROVE FALSE
    OBVIOUS
  <2>2. Part(k) = {} /\ Cardinality(Part(k)) = 0
    <3>1. ASSUME NEW i \in ids, i <= k PROVE FALSE
      <4>1. i \in Nat /\ 1 <= i
        BY <1>0
      <4> QED BY <2>1, <3>1, <4>1
    <3>2. Part(k) = {}
      BY <3>1
    <3> QED BY <3>2, FS_EmptySet
  <2> HIDE DEF Part
  <2>3. 1 .. 0 = {} /\ 1 .. 0 - 1 = {}
    OBVIOUS
  <2>4. [i \in 1 .. 0 |-> i] \in [1 .. 0 -> Part(k)]
    BY <2>3
  <2>5. Ascends([i \in 1 .. 0 |-> i], Part(k))
    BY <2>2, <2>3, <2>4 DEF Ascends
  <2> QED BY <1>4, <2>5
<1>6. PICK s : Ascends(s, Part(k - 1))
  <2>1. k - 1 \in 0 .. n /\ ~(k <= k - 1)
    BY <1>4, <1>5
  <2>2. k - 1 \notin Bad
    BY <1>3, <2>1
  <2> QED BY <2>1, <2>2
<1>7. IsFiniteSet(Part(k - 1)) /\ Cardinality(Part(k - 1)) \in Nat
  <2>1. Part(k - 1) \in SUBSET (1 .. n)
    OBVIOUS
  <2>2. IsFiniteSet(1 .. n)
    BY FS_Interval
  <2> HIDE DEF Part
  <2>3. IsFiniteSet(Part(k - 1))
    BY <2>1, <2>2, FS_Subset
  <2> QED BY <2>3, FS_CardinalityType
<1>8. ASSUME NEW i \in ids PROVE i <= k <=> i <= k - 1 \/ i = k
  <2>1. i \in Nat /\ k \in Nat
    BY <1>0, <1>4
  <2> QED BY <2>1
<1>9. CASE k \notin ids
  <2>1. Part(k) = Part(k - 1)
    BY <1>9, <1>8
  <2> QED BY <1>4, <1>6, <2>1
<1>10. CASE k \in ids
  <2> DEFINE m == Cardinality(Part(k - 1))
             t == [i \in 1 .. m + 1 |-> IF i = m + 1 THEN k ELSE s[i]]
  <2>0. ~(k <= k - 1)
    BY <1>4
  <2>1. Part(k) = Part(k - 1) \union {k} /\ k \notin Part(k - 1)
    BY <1>10, <1>8, <2>0
  <2>2. Cardinality(Part(k)) = m + 1
    BY <1>7, <2>1, FS_AddElement
  <2>3. \A i \in 1 .. m : s[i] \in Part(k - 1) /\ s[i] \in Part(k)
    BY <1>6, <2>1 DEF Ascends
  <2>4. t \in [1 .. m + 1 -> Part(k)]
    BY <1>7, <2>1, <2>3
  <2>5. ASSUME NEW i \in 1 .. (m + 1) - 1 PROVE t[i] < t[i + 1]
    <3>1. i \in 1 .. m /\ t[i] = s[i]
      BY <1>7
    <3>2. CASE i = m
      <4>1. t[i + 1] = k /\ i + 1 \in 1 .. m + 1
        BY <1>7, <3>1, <3>2
      <4>2. s[i] \in ids /\ s[i] <= k - 1
        BY <2>3, <3>1
      <4>3. s[i] \in Nat
        BY <1>0, <4>2
      <4> QED BY <1>4, <3>1, <4>1, <4>2, <4>3
    <3>3. CASE i # m
      <4>1. i \in 1 .. m - 1 /\ t[i + 1] = s[i + 1]
        BY <1>7, <3>1, <3>3
      <4> QED BY <1>6, <3>1, <4>1 DEF Ascends
    <3> QED BY <3>2, <3>3
  <2>6. Ascends(t, Part(k))
    <3> HIDE DEF t, Part
    <3> QED BY <2>2, <2>4, <2>5 DEF Ascends
  <2> QED BY <1>4, <2>6
<1> QED BY <1>9, <1>10

\* So what Sorted chooses is such a sequence.
LEMMA SortedIs ==
  ASSUME NEW n \in Nat, NEW ids \in SUBSET (1 .. n)
  PROVE  LET s == Sorted(ids)
         IN  /\ s \in Seq(ids) /\ Len(s) \in Nat /\ Len(s) = Cardinality(ids)
             /\ DOMAIN s = 1 .. Len(s)
             /\ \A i \in 1 .. Len(s) : s[i] \in ids
             /\ \A i, j \in 1 .. Len(s) : i < j => s[i] < s[j]
             /\ \A x \in ids : \E i \in 1 .. Len(s) : s[i] = x
<1> DEFINE s == Sorted(ids)
           m == Cardinality(ids)
<1>1. Ascends(s, ids)
  <2>1. \E x \in [1 .. m -> ids] : \A i \in 1 .. m - 1 : x[i] < x[i + 1]
    BY SortedExists DEF Ascends
  <2> QED BY <2>1 DEF Sorted, Ascends
<1> HIDE DEF s
<1>2. IsFiniteSet(ids) /\ m \in Nat
  <2>1. IsFiniteSet(1 .. n)
    BY FS_Interval
  <2>2. IsFiniteSet(ids)
    BY <2>1, FS_Subset
  <2> QED BY <2>2, FS_CardinalityType
<1>3. s \in Seq(ids) /\ Len(s) = m /\ DOMAIN s = 1 .. m
  BY <1>1, <1>2 DEF Ascends
<1>4. ASSUME NEW i \in 1 .. m PROVE s[i] \in ids /\ s[i] \in Nat
  <2>1. s[i] \in ids
    BY <1>1 DEF Ascends
  <2>2. \A x \in ids : x \in Nat
    OBVIOUS
  <2> QED BY <2>1, <2>2
<1>5. \A i, j \in 1 .. m : i < j => s[i] < s[j]
  <2>1. \A i \in 1 .. m - 1 : s[i] < s[i + 1]
    BY <1>1 DEF Ascends
  <2> QED BY <1>2, <1>4, <2>1, Ascending
<1>6. \A x \in ids : \E i \in 1 .. m : s[i] = x
  <2>1. \A i, j \in 1 .. m : s[i] = s[j] => i = j
    <3> SUFFICES ASSUME NEW i \in 1 .. m, NEW j \in 1 .. m, s[i] = s[j], i # j
                 PROVE  FALSE
      OBVIOUS
    <3>1. (i < j \/ j < i) /\ s[i] \in Nat
      BY <1>2, <1>4
    <3> QED BY <1>5, <3>1
  <2>2. s \in Injection(1 .. m, ids)
    BY <1>1, <2>1 DEF Ascends, Injection, IsInjective
  <2>3. Cardinality(1 .. m) = m
    BY <1>2, FS_Interval
  <2>4. s \in Surjection(1 .. m, ids)
    BY <1>2, <2>2, <2>3, FS_Injection
  <2> QED BY <2>4 DEF Surjection
<1> QED BY <1>2, <1>3, <1>4, <1>5, <1>6 DEF s

(***************************************************************************)
(* For any projects, classes, objects, requests and listings: a listing    *)
(* has the objects that satisfy its filters, no id is handed out twice     *)
(* while a create or an object has it, and a client that pages through a   *)
(* class misses none of the objects.                                       *)
(***************************************************************************)
(* The place of an id in a listing is the number of ids before it.         *)
(***************************************************************************)
(* For any projects, classes, objects, requests and listings: a listing    *)
(* has the objects that satisfy its filters, no id is handed out twice     *)
(* while a create or an object has it, and a client that pages through a   *)
(* class misses none of the objects.                                       *)
(***************************************************************************)
LEMMA Rank ==
  ASSUME NEW n \in Nat, NEW ids \in SUBSET (1 .. n), NEW k \in 1 .. Len(Sorted(ids))
  PROVE  Cardinality({j \in ids : j < Sorted(ids)[k]}) = k - 1
<1> DEFINE s == Sorted(ids)
           before == {j \in ids : j < s[k]}
<1>1. /\ Len(s) \in Nat
      /\ \A i \in 1 .. Len(s) : s[i] \in ids
      /\ \A i, j \in 1 .. Len(s) : i < j => s[i] < s[j]
      /\ \A x \in ids : \E i \in 1 .. Len(s) : s[i] = x
  BY SortedIs
<1>2. \A x \in ids : x \in Nat
  OBVIOUS
<1> HIDE DEF s
<1>3. k \in 1 .. Len(s) /\ k \in Nat /\ k - 1 \in Nat
  BY DEF s
<1>4. \A i \in 1 .. k - 1 : i \in 1 .. Len(s) /\ s[i] \in before
  BY <1>1, <1>3
<1>5. \A i, j \in 1 .. k - 1 : s[i] = s[j] => i = j
  <2> SUFFICES ASSUME NEW i \in 1 .. k - 1, NEW j \in 1 .. k - 1, s[i] = s[j], i # j
               PROVE  FALSE
    OBVIOUS
  <2>1. i < j \/ j < i
    BY <1>3
  <2>2. s[i] \in ids
    BY <1>1, <1>4
  <2>3. s[i] \in Nat
    BY <1>2, <2>2
  <2> QED BY <1>1, <1>4, <2>1, <2>3
<1>6. ASSUME NEW x \in before PROVE \E i \in 1 .. k - 1 : s[i] = x
  <2>1. PICK i \in 1 .. Len(s) : s[i] = x
    BY <1>1
  <2>2. s[i] < s[k] /\ s[i] \in Nat /\ s[k] \in Nat
    BY <1>1, <1>2, <1>3, <2>1
  <2>3. ~(k < i) /\ k # i
    BY <1>1, <1>3, <2>2
  <2> QED BY <1>1, <1>3, <2>1, <2>3
<1> DEFINE f == [i \in 1 .. k - 1 |-> s[i]]
<1>7. f \in Bijection(1 .. k - 1, before)
  <2>1. f \in [1 .. k - 1 -> before]
    BY <1>4
  <2>2. f \in Injection(1 .. k - 1, before)
    BY <1>5, <2>1 DEF Injection, IsInjective
  <2>3. f \in Surjection(1 .. k - 1, before)
    BY <1>6, <2>1 DEF Surjection
  <2> QED BY <2>2, <2>3 DEF Bijection
<1>8. ExistsBijection(1 .. k - 1, before)
  BY <1>7 DEF ExistsBijection
<1>9. Cardinality(before) = k - 1
  BY <1>3, <1>8, FS_CountingElements
<1> QED BY <1>9 DEF s

(***************************************************************************)
(* For any projects, classes, objects, requests and listings: a listing    *)
(* has the objects that satisfy its filters, no id is handed out twice     *)
(* while a create or an object has it, and a client that pages through a   *)
(* class misses none of the objects.                                       *)
(***************************************************************************)
(* What limit and offset cut out of a sequence.                            *)
(***************************************************************************)
(* For any projects, classes, objects, requests and listings: a listing    *)
(* has the objects that satisfy its filters, no id is handed out twice     *)
(* while a create or an object has it, and a client that pages through a   *)
(* class misses none of the objects.                                       *)
(***************************************************************************)
From(len, offset) == IF offset <= 0 THEN 0 ELSE IF offset <= len THEN offset ELSE len

UpTo(len, limit, offset) ==
    IF limit > 0 /\ From(len, offset) + limit <= len
    THEN From(len, offset) + limit ELSE len

Cut(S, s, limit, offset) ==
    LET from == From(Len(s), offset)
        to == UpTo(Len(s), limit, offset)
        page == Page(s, limit, offset)
    IN  /\ from \in 0 .. Len(s) /\ to \in from .. Len(s) /\ Len(s) \in Nat
        /\ page \in Seq(S) /\ Len(page) = to - from
        /\ \A i \in 1 .. to - from : page[i] = s[from + i]

\* A page has what is from one place up to another.
LEMMA PageIs ==
  ASSUME NEW S, NEW s \in Seq(S), NEW limit \in Int, NEW offset \in Int
  PROVE  Cut(S, s, limit, offset)
<1> DEFINE from == From(Len(s), offset)
           to == UpTo(Len(s), limit, offset)
<1>1. Len(s) \in Nat
  OBVIOUS
<1>2. from \in 0 .. Len(s)
  BY <1>1 DEF From
<1>3. to \in from .. Len(s)
  BY <1>1, <1>2 DEF UpTo
<1>4. Min({Max({offset, 0}), Len(s)}) = from
  <2> DEFINE max == Max({offset, 0})
  <2>1. max \in Int /\ max = IF offset >= 0 THEN offset ELSE 0
    BY MaxOfTwo
  <2> HIDE DEF max
  <2>2. Min({max, Len(s)}) = IF max <= Len(s) THEN max ELSE Len(s)
    BY <1>1, <2>1, MinOfTwo
  <2> QED BY <1>1, <2>1, <2>2 DEF From, max
<1>5. (IF limit > 0 THEN Min({from + limit, Len(s)}) ELSE Len(s)) = to
  <2> DEFINE f == from
  <2>1. f \in Int /\ f + limit \in Int
    BY <1>2
  <2> HIDE DEF f
  <2>2. Min({f + limit, Len(s)}) = IF f + limit <= Len(s) THEN f + limit ELSE Len(s)
    BY <1>1, <2>1, MinOfTwo
  <2> QED BY <2>2 DEF UpTo, f
<1>6. Page(s, limit, offset) = SubSeq(s, from + 1, to)
  BY <1>4, <1>5 DEF Page
<1> HIDE DEF from, to
<1>7. LET part == SubSeq(s, from + 1, to)
      IN  /\ part \in Seq(S) /\ Len(part) = to - from
          /\ \A i \in 1 .. to - from : part[i] = s[from + i]
  BY <1>1, <1>2, <1>3, SubSeqProperties
<1> QED BY <1>1, <1>2, <1>3, <1>6, <1>7 DEF Cut, from, to

-----------------------------------------------------------------------------
(***************************************************************************)
(* For any projects, classes, objects, requests and listings: a listing    *)
(* has the objects that satisfy its filters, no id is handed out twice     *)
(* while a create or an object has it, and a client that pages through a   *)
(* class misses none of the objects.                                       *)
(***************************************************************************)
(* LIKE.  The first n characters of a text can be cut into pieces for the  *)
(* first q characters of the pattern.                                      *)
(***************************************************************************)
(* For any projects, classes, objects, requests and listings: a listing    *)
(* has the objects that satisfy its filters, no id is handed out twice     *)
(* while a create or an object has it, and a client that pages through a   *)
(* class misses none of the objects.                                       *)
(***************************************************************************)
Takes(text, pattern, ci, i, m) ==
    pattern[i] \in {"%", "_"} \/ SameChar(text[m], pattern[i], ci)

Piece(text, pattern, ci, cut, i) ==
    \/ pattern[i] = "%" /\ cut[i - 1] <= cut[i]
    \/ /\ pattern[i] # "%" /\ cut[i] = cut[i - 1] + 1
       /\ Takes(text, pattern, ci, i, cut[i])

Reach(text, pattern, ci, n, q) ==
    \E cut \in [0 .. q -> 0 .. Len(text)] :
        /\ cut[0] = 0 /\ cut[q] = n
        /\ \A i \in 1 .. q : Piece(text, pattern, ci, cut, i)

\* No character of the pattern is cut for nothing only.
LEMMA ReachNone ==
  ASSUME NEW text \in Seq(Char), NEW pattern \in Seq(STRING), NEW ci \in BOOLEAN,
         NEW n \in 0 .. Len(text)
  PROVE  Reach(text, pattern, ci, n, 0) <=> n = 0
<1>1. ASSUME n = 0 PROVE Reach(text, pattern, ci, n, 0)
  <2> DEFINE cut == [i \in 0 .. 0 |-> 0]
  <2>1. cut \in [0 .. 0 -> 0 .. Len(text)] /\ cut[0] = 0 /\ 1 .. 0 = {}
    OBVIOUS
  <2> HIDE DEF cut
  <2> QED BY <1>1, <2>1 DEF Reach
<1> QED BY <1>1 DEF Reach

(***************************************************************************)
(* For any projects, classes, objects, requests and listings: a listing    *)
(* has the objects that satisfy its filters, no id is handed out twice     *)
(* while a create or an object has it, and a client that pages through a   *)
(* class misses none of the objects.                                       *)
(***************************************************************************)
(* The last character of a pattern that is no % takes the last one of the  *)
(* text.                                                                   *)
(***************************************************************************)
(* For any projects, classes, objects, requests and listings: a listing    *)
(* has the objects that satisfy its filters, no id is handed out twice     *)
(* while a create or an object has it, and a client that pages through a   *)
(* class misses none of the objects.                                       *)
(***************************************************************************)
LEMMA ReachOne ==
  ASSUME NEW text \in Seq(Char), NEW pattern \in Seq(STRING), NEW ci \in BOOLEAN,
         NEW n \in 0 .. Len(text), NEW q \in 1 .. Len(pattern), pattern[q] # "%"
  PROVE  Reach(text, pattern, ci, n, q) <=>
            n > 0 /\ Reach(text, pattern, ci, n - 1, q - 1)
                  /\ Takes(text, pattern, ci, q, n)
<1>1. ASSUME Reach(text, pattern, ci, n, q)
      PROVE  n > 0 /\ Reach(text, pattern, ci, n - 1, q - 1)
                   /\ Takes(text, pattern, ci, q, n)
  <2>1. PICK cut \in [0 .. q -> 0 .. Len(text)] :
           /\ cut[0] = 0 /\ cut[q] = n
           /\ \A i \in 1 .. q : Piece(text, pattern, ci, cut, i)
    BY <1>1 DEF Reach
  <2>2. Piece(text, pattern, ci, cut, q)
    BY <2>1
  <2>3. cut[q] = cut[q - 1] + 1 /\ Takes(text, pattern, ci, q, n) /\ cut[q - 1] \in Nat
    BY <2>1, <2>2 DEF Piece
  <2> DEFINE c == [i \in 0 .. q - 1 |-> cut[i]]
  <2>4. n > 0 /\ cut[q - 1] = n - 1
    BY <2>1, <2>3
  <2>5. c \in [0 .. q - 1 -> 0 .. Len(text)] /\ c[0] = 0 /\ c[q - 1] = n - 1
    BY <2>1, <2>4
  <2>6. ASSUME NEW i \in 1 .. q - 1 PROVE Piece(text, pattern, ci, c, i)
    <3>1. c[i] = cut[i] /\ c[i - 1] = cut[i - 1] /\ Piece(text, pattern, ci, cut, i)
      BY <2>1
    <3> HIDE DEF c
    <3> QED BY <3>1 DEF Piece
  <2> HIDE DEF c
  <2>7. Reach(text, pattern, ci, n - 1, q - 1)
    BY <2>5, <2>6 DEF Reach
  <2> QED BY <2>3, <2>4, <2>7
<1>2. ASSUME n > 0, Reach(text, pattern, ci, n - 1, q - 1),
             Takes(text, pattern, ci, q, n)
      PROVE  Reach(text, pattern, ci, n, q)
  <2>1. PICK cut \in [0 .. q - 1 -> 0 .. Len(text)] :
           /\ cut[0] = 0 /\ cut[q - 1] = n - 1
           /\ \A i \in 1 .. q - 1 : Piece(text, pattern, ci, cut, i)
    BY <1>2 DEF Reach
  <2> DEFINE c == [i \in 0 .. q |-> IF i = q THEN n ELSE cut[i]]
  <2>2. /\ c \in [0 .. q -> 0 .. Len(text)]
        /\ c[q] = n /\ c[0] = 0 /\ \A i \in 0 .. q - 1 : c[i] = cut[i]
    BY <2>1
  <2> HIDE DEF c
  <2>3. ASSUME NEW i \in 1 .. q PROVE Piece(text, pattern, ci, c, i)
    <3>1. CASE i = q
      <4>1. c[q] = c[q - 1] + 1
        BY <1>2, <2>1, <2>2
      <4> QED BY <1>2, <2>2, <3>1, <4>1 DEF Piece
    <3>2. CASE i # q
      <4>1. c[i] = cut[i] /\ c[i - 1] = cut[i - 1] /\ Piece(text, pattern, ci, cut, i)
        BY <2>1, <2>2, <3>2
      <4> QED BY <4>1 DEF Piece
    <3> QED BY <3>1, <3>2
  <2> QED BY <2>2, <2>3 DEF Reach
<1> QED BY <1>1, <1>2

(***************************************************************************)
(* For any projects, classes, objects, requests and listings: a listing    *)
(* has the objects that satisfy its filters, no id is handed out twice     *)
(* while a create or an object has it, and a client that pages through a   *)
(* class misses none of the objects.                                       *)
(***************************************************************************)
(* A last % takes nothing, or one character more than it took before.      *)
(***************************************************************************)
(* For any projects, classes, objects, requests and listings: a listing    *)
(* has the objects that satisfy its filters, no id is handed out twice     *)
(* while a create or an object has it, and a client that pages through a   *)
(* class misses none of the objects.                                       *)
(***************************************************************************)
LEMMA ReachMany ==
  ASSUME NEW text \in Seq(Char), NEW pattern \in Seq(STRING), NEW ci \in BOOLEAN,
         NEW n \in 0 .. Len(text), NEW q \in 1 .. Len(pattern), pattern[q] = "%"
  PROVE  Reach(text, pattern, ci, n, q) <=>
            \/ Reach(text, pattern, ci, n, q - 1)
            \/ n > 0 /\ Reach(text, pattern, ci, n - 1, q)
<1>1. ASSUME NEW cut \in [0 .. q -> 0 .. Len(text)], NEW m \in 0 .. Len(text),
             cut[0] = 0, cut[q - 1] <= m,
             \A i \in 1 .. q - 1 : Piece(text, pattern, ci, cut, i)
      PROVE  Reach(text, pattern, ci, m, q)
  <2> DEFINE c == [i \in 0 .. q |-> IF i = q THEN m ELSE cut[i]]
  <2>1. /\ c \in [0 .. q -> 0 .. Len(text)]
        /\ c[q] = m /\ c[0] = 0 /\ \A i \in 0 .. q - 1 : c[i] = cut[i]
    BY <1>1
  <2> HIDE DEF c
  <2>2. ASSUME NEW i \in 1 .. q PROVE Piece(text, pattern, ci, c, i)
    <3>1. CASE i = q
      BY <1>1, <2>1, <3>1 DEF Piece
    <3>2. CASE i # q
      <4>1. c[i] = cut[i] /\ c[i - 1] = cut[i - 1] /\ Piece(text, pattern, ci, cut, i)
        BY <1>1, <2>1, <3>2
      <4> QED BY <4>1 DEF Piece
    <3> QED BY <3>1, <3>2
  <2> QED BY <2>1, <2>2 DEF Reach
<1>2. ASSUME Reach(text, pattern, ci, n, q)
      PROVE  \/ Reach(text, pattern, ci, n, q - 1)
             \/ n > 0 /\ Reach(text, pattern, ci, n - 1, q)
  <2>1. PICK cut \in [0 .. q -> 0 .. Len(text)] :
           /\ cut[0] = 0 /\ cut[q] = n
           /\ \A i \in 1 .. q : Piece(text, pattern, ci, cut, i)
    BY <1>2 DEF Reach
  <2>2. cut[q - 1] \in 0 .. n /\ Piece(text, pattern, ci, cut, q)
    <3>1. Piece(text, pattern, ci, cut, q) /\ cut[q - 1] \in 0 .. Len(text)
      BY <2>1
    <3> QED BY <2>1, <3>1 DEF Piece
  <2>3. CASE cut[q - 1] = n
    <3> DEFINE c == [i \in 0 .. q - 1 |-> cut[i]]
    <3>1. c \in [0 .. q - 1 -> 0 .. Len(text)] /\ c[0] = 0 /\ c[q - 1] = n
      BY <2>1, <2>3
    <3>2. ASSUME NEW i \in 1 .. q - 1 PROVE Piece(text, pattern, ci, c, i)
      <4>1. c[i] = cut[i] /\ c[i - 1] = cut[i - 1] /\ Piece(text, pattern, ci, cut, i)
        BY <2>1
      <4> HIDE DEF c
      <4> QED BY <4>1 DEF Piece
    <3> HIDE DEF c
    <3> QED BY <3>1, <3>2 DEF Reach
  <2>4. CASE cut[q - 1] # n
    <3>1. n - 1 \in 0 .. Len(text) /\ cut[q - 1] <= n - 1 /\ n > 0
      BY <2>2, <2>4
    <3>2. \A i \in 1 .. q - 1 : Piece(text, pattern, ci, cut, i)
      BY <2>1
    <3> QED BY <1>1, <2>1, <3>1, <3>2
  <2> QED BY <2>3, <2>4
<1>3. ASSUME Reach(text, pattern, ci, n, q - 1) PROVE Reach(text, pattern, ci, n, q)
  <2>1. PICK cut \in [0 .. q - 1 -> 0 .. Len(text)] :
           /\ cut[0] = 0 /\ cut[q - 1] = n
           /\ \A i \in 1 .. q - 1 : Piece(text, pattern, ci, cut, i)
    BY <1>3 DEF Reach
  <2> DEFINE c == [i \in 0 .. q |-> IF i = q THEN n ELSE cut[i]]
  <2>2. /\ c \in [0 .. q -> 0 .. Len(text)] /\ c[0] = 0
        /\ \A i \in 0 .. q - 1 : c[i] = cut[i]
    BY <2>1
  <2> HIDE DEF c
  <2>3. ASSUME NEW i \in 1 .. q - 1 PROVE Piece(text, pattern, ci, c, i)
    <3>1. c[i] = cut[i] /\ c[i - 1] = cut[i - 1] /\ Piece(text, pattern, ci, cut, i)
      BY <2>1, <2>2
    <3> QED BY <3>1 DEF Piece
  <2>4. c[q - 1] <= n
    BY <2>1, <2>2
  <2> QED BY <1>1, <2>2, <2>3, <2>4
<1>4. ASSUME n > 0, Reach(text, pattern, ci, n - 1, q)
      PROVE  Reach(text, pattern, ci, n, q)
  <2>1. PICK cut \in [0 .. q -> 0 .. Len(text)] :
           /\ cut[0] = 0 /\ cut[q] = n - 1
           /\ \A i \in 1 .. q : Piece(text, pattern, ci, cut, i)
    BY <1>4 DEF Reach
  <2>2. Piece(text, pattern, ci, cut, q) /\ cut[q - 1] \in 0 .. Len(text)
    BY <2>1
  <2>3. cut[q - 1] <= n
    BY <2>1, <2>2 DEF Piece
  <2>4. \A i \in 1 .. q - 1 : Piece(text, pattern, ci, cut, i)
    BY <2>1
  <2> QED BY <1>1, <2>1, <2>3, <2>4
<1> QED BY <1>2, <1>3, <1>4

(***************************************************************************)
(* For any projects, classes, objects, requests and listings: a listing    *)
(* has the objects that satisfy its filters, no id is handed out twice     *)
(* while a create or an object has it, and a client that pages through a   *)
(* class misses none of the objects.                                       *)
(***************************************************************************)
(* The run of the regexp over the text, step by step.                      *)
(***************************************************************************)
(* For any projects, classes, objects, requests and listings: a listing    *)
(* has the objects that satisfy its filters, no id is handed out twice     *)
(* while a create or an object has it, and a client that pages through a   *)
(* class misses none of the objects.                                       *)
(***************************************************************************)
Run(re, text, f, n) ==
    /\ f \in [0 .. n -> SUBSET (0 .. Len(re))]
    /\ f[0] = Skip(re, {0})
    /\ \A i \in 1 .. n : f[i] = Advance(re, f[i - 1], text[i])

\* There is one as long as the text, made longer a character at a time.
LEMMA RunExists ==
  ASSUME NEW re, Len(re) \in Nat, NEW text \in Seq(Char), NEW n \in 0 .. Len(text)
  PROVE  \E f : Run(re, text, f, n)
<1> DEFINE Bad == {k \in 0 .. Len(text) : ~ \E f : Run(re, text, f, k)}
<1>1. SUFFICES ASSUME Bad # {} PROVE FALSE
  OBVIOUS
<1>2. PICK k \in Bad : \A y \in Bad : k <= y
  <2>1. Bad \subseteq Nat
    OBVIOUS
  <2> HIDE DEF Bad
  <2> QED BY <1>1, <2>1, Least
<1>3. k \in 0 .. Len(text) /\ ~ \E f : Run(re, text, f, k)
  OBVIOUS
<1>4. \A P, c : Skip(re, P) \subseteq 0 .. Len(re) /\ Advance(re, P, c) \subseteq 0 .. Len(re)
  BY DEF Skip, Advance
<1>5. CASE k = 0
  <2> DEFINE f == [i \in 0 .. 0 |-> Skip(re, {0})]
  <2>0. Skip(re, {0}) \in SUBSET (0 .. Len(re))
    BY <1>4
  <2>1. f \in [0 .. 0 -> SUBSET (0 .. Len(re))] /\ f[0] = Skip(re, {0}) /\ 1 .. 0 = {}
    <3> DEFINE S == Skip(re, {0})
    <3> HIDE DEF S
    <3>1. S \in SUBSET (0 .. Len(re))
      BY <2>0 DEF S
    <3>2. f = [i \in 0 .. 0 |-> S]
      BY DEF S
    <3> HIDE DEF f
    <3>3. 0 \in 0 .. 0 /\ 1 .. 0 = {}
      OBVIOUS
    <3>4. f[0] = S
      BY <3>2, <3>3
    <3>5. f \in [0 .. 0 -> SUBSET (0 .. Len(re))]
      BY <3>1, <3>2
    <3> QED BY <3>3, <3>4, <3>5 DEF S
  <2>2. Run(re, text, f, 0)
    <3> HIDE DEF f
    <3> QED BY <2>1 DEF Run
  <2> QED BY <1>3, <1>5, <2>2
<1>6. CASE k # 0
  <2>1. k - 1 \in 0 .. Len(text) /\ ~(k <= k - 1)
    BY <1>3, <1>6
  <2>2. k - 1 \notin Bad
    BY <1>2, <2>1
  <2>3. PICK f : Run(re, text, f, k - 1)
    BY <2>1, <2>2
  <2> DEFINE g == [i \in 0 .. k |->
                      IF i = k THEN Advance(re, f[k - 1], text[k]) ELSE f[i]]
  <2>4. /\ f \in [0 .. k - 1 -> SUBSET (0 .. Len(re))] /\ f[0] = Skip(re, {0})
        /\ \A i \in 1 .. k - 1 : f[i] = Advance(re, f[i - 1], text[i])
    BY <2>3 DEF Run
  <2>5. /\ g \in [0 .. k -> SUBSET (0 .. Len(re))]
        /\ g[k] = Advance(re, f[k - 1], text[k])
        /\ \A i \in 0 .. k - 1 : g[i] = f[i]
    BY <1>3, <1>4, <1>6, <2>4
  <2> HIDE DEF g
  <2>6. ASSUME NEW i \in 1 .. k PROVE g[i] = Advance(re, g[i - 1], text[i])
    <3>1. CASE i = k
      BY <1>3, <2>5, <3>1
    <3>2. CASE i # k
      <4>1. i \in 1 .. k - 1 /\ i \in 0 .. k - 1 /\ i - 1 \in 0 .. k - 1
        BY <1>3, <3>2
      <4> QED BY <2>4, <2>5, <4>1
    <3> QED BY <3>1, <3>2
  <2>7. g[0] = Skip(re, {0})
    BY <1>3, <1>6, <2>4, <2>5
  <2>8. Run(re, text, g, k)
    BY <2>5, <2>6, <2>7 DEF Run
  <2> QED BY <1>3, <2>8
<1> QED BY <1>5, <1>6

\* Behind is that run.
LEMMA BehindIs ==
  ASSUME NEW re, Len(re) \in Nat, NEW text \in Seq(Char)
  PROVE  /\ Behind(re, text)[0] = Skip(re, {0})
         /\ \A n \in 1 .. Len(text) :
               Behind(re, text)[n] = Advance(re, Behind(re, text)[n - 1], text[n])
<1>0. Len(text) \in Nat
  OBVIOUS
<1>1. PICK f : Run(re, text, f, Len(text))
  BY <1>0, RunExists
<1> DEFINE step(g) == [n \in 0 .. Len(text) |->
                          IF n = 0 THEN Skip(re, {0}) ELSE Advance(re, g[n - 1], text[n])]
<1>2. f = step(f)
  <2>1. f = [n \in 0 .. Len(text) |-> f[n]]
    BY <1>1 DEF Run
  <2>2. \A n \in 0 .. Len(text) :
           f[n] = IF n = 0 THEN Skip(re, {0}) ELSE Advance(re, f[n - 1], text[n])
    <3> SUFFICES ASSUME NEW n \in 0 .. Len(text)
                 PROVE  f[n] = IF n = 0 THEN Skip(re, {0}) ELSE Advance(re, f[n - 1], text[n])
      OBVIOUS
    <3>1. n = 0 \/ n \in 1 .. Len(text)
      BY <1>0
    <3> QED BY <1>1, <3>1 DEF Run
  <2> QED BY <2>1, <2>2
<1> DEFINE b == Behind(re, text)
<1>3. b = step(b)
  <2>1. b = CHOOSE g : g = step(g)
    BY DEF Behind
  <2> HIDE DEF step, b
  <2> QED BY <1>2, <2>1
<1> HIDE DEF b
<1>4. b[0] = Skip(re, {0})
  BY <1>0, <1>3
<1>5. ASSUME NEW n \in 1 .. Len(text) PROVE b[n] = Advance(re, b[n - 1], text[n])
  <2>1. n \in 0 .. Len(text) /\ n # 0
    BY <1>0
  <2>2. step(b)[n] = Advance(re, b[n - 1], text[n])
    BY <2>1
  <2> HIDE DEF step
  <2> QED BY <1>3, <2>2
<1> QED BY <1>4, <1>5 DEF b

\* What is skipped to: another atom further, or where one is already.
LEMMA SkipIs ==
  ASSUME NEW re, Len(re) \in Nat, NEW P, P \subseteq Nat, NEW q \in 0 .. Len(re)
  PROVE  q \in Skip(re, P) <=> \/ q \in P
                               \/ q > 0 /\ re[q].many /\ q - 1 \in Skip(re, P)
<1>1. ASSUME q \in Skip(re, P), q \notin P
      PROVE  q > 0 /\ re[q].many /\ q - 1 \in Skip(re, P)
  <2>1. PICK p \in P : p <= q /\ \A i \in p + 1 .. q : re[i].many
    BY <1>1 DEF Skip
  <2>2. p \in Nat /\ p <= q - 1 /\ q \in p + 1 .. q /\ q - 1 \in 0 .. Len(re)
    BY <1>1, <2>1
  <2>3. \A i \in p + 1 .. q - 1 : i \in p + 1 .. q
    BY <2>2
  <2> QED BY <2>1, <2>2, <2>3 DEF Skip
<1>2. ASSUME q \in P PROVE q \in Skip(re, P)
  <2>1. q <= q /\ q + 1 .. q = {}
    OBVIOUS
  <2> QED BY <1>2, <2>1 DEF Skip
<1>3. ASSUME q > 0, re[q].many, q - 1 \in Skip(re, P) PROVE q \in Skip(re, P)
  <2>1. PICK p \in P : p <= q - 1 /\ \A i \in p + 1 .. q - 1 : re[i].many
    BY <1>3 DEF Skip
  <2>2. p \in Nat /\ p <= q /\ \A i \in p + 1 .. q : i = q \/ i \in p + 1 .. q - 1
    BY <2>1
  <2>3. \A i \in p + 1 .. q : re[i].many
    BY <1>3, <2>1, <2>2
  <2> QED BY <2>2, <2>3 DEF Skip
<1> QED BY <1>1, <1>2, <1>3

\* The atoms of a pattern, one for each of its characters.
LEMMA AtomsAre ==
  ASSUME NEW pattern \in Seq(STRING), NEW ci \in BOOLEAN
  PROVE  /\ Len(likeToRegex(pattern, ci)) = Len(pattern)
         /\ \A q \in 1 .. Len(pattern) :
               /\ likeToRegex(pattern, ci)[q].many = (pattern[q] = "%")
               /\ \A text \in Seq(Char) : \A n \in 1 .. Len(text) :
                     text[n] \in likeToRegex(pattern, ci)[q].of
                        <=> Takes(text, pattern, ci, q, n)
<1> DEFINE re == likeToRegex(pattern, ci)
<1>1. DOMAIN pattern = 1 .. Len(pattern) /\ Len(pattern) \in Nat
  OBVIOUS
<1>2. DOMAIN re = 1 .. Len(pattern)
  BY <1>1 DEF likeToRegex
<1>3. Len(re) = Len(pattern)
  BY <1>1, <1>2
<1>4. ASSUME NEW q \in 1 .. Len(pattern)
      PROVE  /\ re[q].many = (pattern[q] = "%")
             /\ \A text \in Seq(Char) : \A n \in 1 .. Len(text) :
                   text[n] \in re[q].of <=> Takes(text, pattern, ci, q, n)
  <2>1. re[q] = CASE pattern[q] = "%" -> [many |-> TRUE, of |-> Char]
                  [] pattern[q] = "_" -> [many |-> FALSE, of |-> Char]
                  [] OTHER -> [many |-> FALSE, of |-> IF ci THEN Fold(pattern[q])
                                                            ELSE {pattern[q]}]
    BY <1>1 DEF likeToRegex
  <2> DEFINE a == re[q]
             itself == IF ci THEN Fold(pattern[q]) ELSE {pattern[q]}
  <2> HIDE DEF itself
  <2>10. a = CASE pattern[q] = "%" -> [many |-> TRUE, of |-> Char]
               [] pattern[q] = "_" -> [many |-> FALSE, of |-> Char]
               [] OTHER -> [many |-> FALSE, of |-> itself]
    BY <2>1 DEF itself
  <2> HIDE DEF re, a
  <2>11. pattern[q] = "%" => a.many = TRUE /\ a.of = Char
    BY <2>10
  <2>12. pattern[q] = "_" => a.many = FALSE /\ a.of = Char
    BY <2>10
  <2>13. pattern[q] \notin {"%", "_"} => a.many = FALSE /\ a.of = itself
    BY <2>10
  <2>2. ASSUME NEW text \in Seq(Char), NEW n \in 1 .. Len(text)
        PROVE  text[n] \in re[q].of <=> Takes(text, pattern, ci, q, n)
    <3>1. text[n] \in Char
      OBVIOUS
    <3>2. CASE pattern[q] \in {"%", "_"}
      <4>1. re[q].of = Char
        BY <2>11, <2>12, <3>2 DEF a
      <4> QED BY <3>1, <3>2, <4>1 DEF Takes
    <3>3. CASE pattern[q] \notin {"%", "_"}
      <4>1. re[q].of = IF ci THEN Fold(pattern[q]) ELSE {pattern[q]}
        BY <2>13, <3>3 DEF a, itself
      <4> QED BY <3>1, <3>3, <4>1 DEF Takes, SameChar, Fold
    <3> QED BY <3>2, <3>3
  <2>3. re[q].many = (pattern[q] = "%")
    <3>1. CASE pattern[q] = "%"
      <4>1. re[q].many = TRUE
        BY <2>11, <3>1 DEF a
      <4> QED BY <3>1, <4>1
    <3>2. CASE pattern[q] # "%"
      <4>1. re[q].many = FALSE
        BY <2>12, <2>13, <3>2 DEF a
      <4> QED BY <3>2, <4>1
    <3> QED BY <3>1, <3>2
  <2> QED BY <2>2, <2>3
<1> QED BY <1>3, <1>4

(***************************************************************************)
(* For any projects, classes, objects, requests and listings: a listing    *)
(* has the objects that satisfy its filters, no id is handed out twice     *)
(* while a create or an object has it, and a client that pages through a   *)
(* class misses none of the objects.                                       *)
(***************************************************************************)
(* The regexp is behind q atoms when the text so far is cut for the first  *)
(* q, or for a % more that has begun; and how that follows from what it    *)
(* was a character before, or an atom before.                              *)
(***************************************************************************)
(* For any projects, classes, objects, requests and listings: a listing    *)
(* has the objects that satisfy its filters, no id is handed out twice     *)
(* while a create or an object has it, and a client that pages through a   *)
(* class misses none of the objects.                                       *)
(***************************************************************************)
Begun(text, pattern, ci, n, q) ==
    \/ Reach(text, pattern, ci, n, q)
    \/ q < Len(pattern) /\ pattern[q + 1] = "%" /\ Reach(text, pattern, ci, n, q + 1)

\* What is begun is begun in one of four ways.
LEMMA BegunIs ==
  ASSUME NEW text \in Seq(Char), NEW pattern \in Seq(STRING), NEW ci \in BOOLEAN,
         NEW n \in 0 .. Len(text), NEW q \in 0 .. Len(pattern)
  PROVE  Begun(text, pattern, ci, n, q) <=>
            \/ q = 0 /\ n = 0
            \/ q > 0 /\ pattern[q] = "%" /\ Begun(text, pattern, ci, n, q - 1)
            \/ q > 0 /\ pattern[q] # "%" /\ n > 0
                 /\ Begun(text, pattern, ci, n - 1, q - 1)
                 /\ Takes(text, pattern, ci, q, n)
            \/ n > 0 /\ q < Len(pattern) /\ pattern[q + 1] = "%"
                 /\ Begun(text, pattern, ci, n - 1, q)
<1> DEFINE R(m, p) == Reach(text, pattern, ci, m, p)
           B(m, p) == Begun(text, pattern, ci, m, p)
           T == Takes(text, pattern, ci, q, n)
<1>0. Len(text) \in Nat /\ Len(pattern) \in Nat
  OBVIOUS
<1>1. \A m \in 0 .. Len(text) : R(m, 0) <=> m = 0
  BY ReachNone
<1>2. \A m \in 0 .. Len(text), p \in 1 .. Len(pattern) :
         pattern[p] = "%" => (R(m, p) <=> R(m, p - 1) \/ (m > 0 /\ R(m - 1, p)))
  BY ReachMany
<1>3. q > 0 /\ pattern[q] # "%" => (R(n, q) <=> n > 0 /\ R(n - 1, q - 1) /\ T)
  BY <1>0, ReachOne
<1>4. \A m, p : B(m, p) <=> R(m, p) \/ (p < Len(pattern) /\ pattern[p + 1] = "%"
                                             /\ R(m, p + 1))
  BY DEF Begun
<1> HIDE DEF R, B, T
<1>5. \A m \in 0 .. Len(text), p \in 0 .. Len(pattern) :
         p < Len(pattern) /\ pattern[p + 1] = "%" => (B(m, p) <=> R(m, p + 1))
  <2> SUFFICES ASSUME NEW m \in 0 .. Len(text), NEW p \in 0 .. Len(pattern),
                      p < Len(pattern), pattern[p + 1] = "%"
               PROVE  B(m, p) <=> R(m, p + 1)
    OBVIOUS
  <2>1. p + 1 \in 1 .. Len(pattern) /\ (p + 1) - 1 = p
    BY <1>0
  <2>2. R(m, p) => R(m, p + 1)
    BY <1>2, <2>1
  <2> QED BY <1>4, <2>2
<1> DEFINE more == q < Len(pattern) /\ pattern[q + 1] = "%"
<1>6. B(n, q) <=> R(n, q) \/ (n > 0 /\ more /\ B(n - 1, q))
  <2>1. CASE more
    <3>1. q + 1 \in 1 .. Len(pattern) /\ (q + 1) - 1 = q
      BY <1>0, <2>1
    <3>2. R(n, q + 1) <=> R(n, q) \/ (n > 0 /\ R(n - 1, q + 1))
      BY <1>2, <2>1, <3>1
    <3>3. B(n, q) <=> R(n, q + 1)
      BY <1>5, <2>1
    <3>4. n > 0 => (B(n - 1, q) <=> R(n - 1, q + 1))
      <4> SUFFICES ASSUME n > 0 PROVE B(n - 1, q) <=> R(n - 1, q + 1)
        OBVIOUS
      <4>1. n - 1 \in 0 .. Len(text)
        BY <1>0
      <4> QED BY <1>5, <2>1, <4>1
    <3> QED BY <2>1, <3>2, <3>3, <3>4
  <2>2. CASE ~more
    BY <1>4, <2>2
  <2> QED BY <2>1, <2>2
<1>7. q = 0 => (R(n, q) <=> n = 0)
  BY <1>1
<1>8. ASSUME q > 0 PROVE q - 1 \in 0 .. Len(pattern) /\ q - 1 < Len(pattern) /\ (q - 1) + 1 = q
  BY <1>0, <1>8
<1>9. ASSUME q > 0, pattern[q] = "%" PROVE R(n, q) <=> B(n, q - 1)
  BY <1>5, <1>8, <1>9
<1>10. ASSUME q > 0, pattern[q] # "%"
       PROVE  R(n, q) <=> n > 0 /\ B(n - 1, q - 1) /\ T
  <2>1. B(n - 1, q - 1) <=> R(n - 1, q - 1)
    BY <1>4, <1>8, <1>10
  <2> QED BY <1>3, <1>10, <2>1
<1>11. B(n, q) <=>
          \/ q = 0 /\ n = 0
          \/ q > 0 /\ pattern[q] = "%" /\ B(n, q - 1)
          \/ q > 0 /\ pattern[q] # "%" /\ n > 0 /\ B(n - 1, q - 1) /\ T
          \/ n > 0 /\ more /\ B(n - 1, q)
  <2>1. CASE q = 0
    BY <1>6, <1>7, <2>1
  <2>2. CASE q # 0
    <3>1. q > 0
      BY <2>2
    <3>2. CASE pattern[q] = "%"
      BY <1>6, <1>9, <3>1, <3>2
    <3>3. CASE pattern[q] # "%"
      BY <1>6, <1>10, <3>1, <3>3
    <3> QED BY <3>2, <3>3
  <2> QED BY <2>1, <2>2
<1> QED BY <1>11 DEF B, T

\* What the regexp is behind follows from the same two.
LEMMA BehindFollows ==
  ASSUME NEW text \in Seq(Char), NEW pattern \in Seq(STRING), NEW ci \in BOOLEAN,
         NEW n \in 0 .. Len(text), NEW q \in 0 .. Len(pattern),
         NEW b, b = Behind(likeToRegex(pattern, ci), text)
  PROVE  q \in b[n] <=>
            \/ q = 0 /\ n = 0
            \/ q > 0 /\ pattern[q] = "%" /\ q - 1 \in b[n]
            \/ q > 0 /\ pattern[q] # "%" /\ n > 0
                 /\ q - 1 \in b[n - 1] /\ Takes(text, pattern, ci, q, n)
            \/ n > 0 /\ q < Len(pattern) /\ pattern[q + 1] = "%" /\ q \in b[n - 1]
<1> DEFINE re == likeToRegex(pattern, ci)
<1>0. Len(text) \in Nat /\ Len(pattern) \in Nat /\ Len(re) = Len(pattern)
  BY AtomsAre
<1>1. \A p \in 1 .. Len(pattern) :
         /\ re[p].many = (pattern[p] = "%")
         /\ \A m \in 1 .. Len(text) : text[m] \in re[p].of <=> Takes(text, pattern, ci, p, m)
  BY AtomsAre
<1>2. /\ b[0] = Skip(re, {0})
      /\ \A m \in 1 .. Len(text) : b[m] = Advance(re, b[m - 1], text[m])
  BY <1>0, BehindIs
<1> HIDE DEF re
<1>3. q > 0 => q \in 1 .. Len(pattern)
  BY <1>0
<1>4. CASE n = 0
  <2>1. q \in b[n] <=> q \in {0} \/ (q > 0 /\ re[q].many /\ q - 1 \in b[n])
    <3>1. {0} \subseteq Nat /\ Len(re) \in Nat /\ q \in 0 .. Len(re)
      BY <1>0
    <3>2. q \in Skip(re, {0}) <=>
             q \in {0} \/ (q > 0 /\ re[q].many /\ q - 1 \in Skip(re, {0}))
      BY <3>1, SkipIs
    <3> QED BY <1>2, <1>4, <3>2
  <2>2. q > 0 => (re[q].many <=> pattern[q] = "%")
    BY <1>1, <1>3
  <2> QED BY <1>4, <2>1, <2>2
<1>5. CASE n > 0
  <2>1. n \in 1 .. Len(text)
    BY <1>0, <1>5
  <2> DEFINE c == text[n]
             B == b[n - 1]
             one == {p + 1 : p \in {m \in B : m < Len(re) /\ ~re[m + 1].many
                                                  /\ c \in re[m + 1].of}}
             many == {p \in B : p < Len(re) /\ re[p + 1].many /\ c \in re[p + 1].of}
  <2>2. b[n] = Skip(re, one \union many)
    BY <1>2, <2>1 DEF Advance
  <2>3. B \subseteq 0 .. Len(re)
    <3>1. \A P, d : Skip(re, P) \subseteq 0 .. Len(re) /\ Advance(re, P, d) \subseteq 0 .. Len(re)
      BY DEF Skip, Advance
    <3>2. CASE n - 1 = 0
      <4>1. b[n - 1] = Skip(re, {0})
        BY <1>2, <3>2
      <4> QED BY <3>1, <4>1
    <3>3. CASE n - 1 # 0
      <4>1. n - 1 \in 1 .. Len(text)
        BY <1>0, <2>1, <3>3
      <4>2. b[n - 1] = Advance(re, b[(n - 1) - 1], text[n - 1])
        BY <1>2, <4>1
      <4> QED BY <3>1, <4>2
    <3> QED BY <3>2, <3>3
  <2> HIDE DEF B
  <2>4. one \union many \subseteq Nat
    <3>1. \A p \in B : p \in Nat /\ p + 1 \in Nat
      BY <1>0, <2>3
    <3> QED BY <3>1
  <2>5. q \in one <=> q > 0 /\ q - 1 \in B /\ ~re[q].many /\ c \in re[q].of
    <3>1. ASSUME q \in one PROVE q > 0 /\ q - 1 \in B /\ ~re[q].many /\ c \in re[q].of
      <4>1. PICK p \in B : q = p + 1 /\ p < Len(re) /\ ~re[p + 1].many /\ c \in re[p + 1].of
        BY <3>1
      <4>2. p \in Nat /\ p + 1 = q /\ q - 1 = p
        BY <1>0, <2>3, <4>1
      <4> QED BY <4>1, <4>2
    <3>2. ASSUME q > 0, q - 1 \in B, ~re[q].many, c \in re[q].of PROVE q \in one
      <4>1. q - 1 < Len(re) /\ (q - 1) + 1 = q
        BY <1>0, <3>2
      <4> QED BY <3>2, <4>1
    <3> QED BY <3>1, <3>2
  <2>6. q \in many <=> q \in B /\ q < Len(re) /\ re[q + 1].many /\ c \in re[q + 1].of
    OBVIOUS
  <2>7. q \in b[n] <=> q \in one \/ q \in many \/ (q > 0 /\ re[q].many /\ q - 1 \in b[n])
    <3> DEFINE P == one \union many
    <3>1. P \subseteq Nat /\ b[n] = Skip(re, P) /\ Len(re) \in Nat /\ q \in 0 .. Len(re)
      BY <1>0, <2>2, <2>4
    <3>2. q \in P <=> q \in one \/ q \in many
      OBVIOUS
    <3> HIDE DEF P, one, many
    <3>3. q \in Skip(re, P) <=> q \in P \/ (q > 0 /\ re[q].many /\ q - 1 \in Skip(re, P))
      BY <3>1, SkipIs
    <3> QED BY <3>1, <3>2, <3>3
  <2> HIDE DEF one, many
  <2>8. q > 0 => /\ re[q].many <=> pattern[q] = "%"
                 /\ c \in re[q].of <=> Takes(text, pattern, ci, q, n)
    BY <1>1, <1>3, <2>1
  <2>9. q < Len(pattern) => /\ re[q + 1].many <=> pattern[q + 1] = "%"
                            /\ pattern[q + 1] = "%" => c \in re[q + 1].of
    <3> SUFFICES ASSUME q < Len(pattern)
                 PROVE  /\ re[q + 1].many <=> pattern[q + 1] = "%"
                        /\ pattern[q + 1] = "%" => c \in re[q + 1].of
      OBVIOUS
    <3>1. q + 1 \in 1 .. Len(pattern)
      BY <1>0
    <3>2. pattern[q + 1] = "%" => Takes(text, pattern, ci, q + 1, n)
      BY DEF Takes
    <3> QED BY <1>1, <2>1, <3>1, <3>2
  <2> QED BY <1>0, <1>5, <2>5, <2>6, <2>7, <2>8, <2>9 DEF B
<1> QED BY <1>4, <1>5

(***************************************************************************)
(* For any projects, classes, objects, requests and listings: a listing    *)
(* has the objects that satisfy its filters, no id is handed out twice     *)
(* while a create or an object has it, and a client that pages through a   *)
(* class misses none of the objects.                                       *)
(***************************************************************************)
(* The two agree: else at a first character, and there at a first atom,    *)
(* they do not, and they follow in the same way from where they do.        *)
(***************************************************************************)
(* For any projects, classes, objects, requests and listings: a listing    *)
(* has the objects that satisfy its filters, no id is handed out twice     *)
(* while a create or an object has it, and a client that pages through a   *)
(* class misses none of the objects.                                       *)
(***************************************************************************)
LEMMA BehindIsBegun ==
  ASSUME NEW text \in Seq(Char), NEW pattern \in Seq(STRING), NEW ci \in BOOLEAN,
         NEW m \in 0 .. Len(text), NEW p \in 0 .. Len(pattern)
  PROVE  p \in Behind(likeToRegex(pattern, ci), text)[m]
            <=> Begun(text, pattern, ci, m, p)
<1> DEFINE b == Behind(likeToRegex(pattern, ci), text)
           L(n, q) == q \in b[n]
           B(n, q) == Begun(text, pattern, ci, n, q)
           T(n, q) == Takes(text, pattern, ci, q, n)
           Differ(n) == {q \in 0 .. Len(pattern) : ~(L(n, q) <=> B(n, q))}
           Bad == {n \in 0 .. Len(text) : Differ(n) # {}}
<1>0. Len(text) \in Nat /\ Len(pattern) \in Nat
  OBVIOUS
<1>1. \A n \in 0 .. Len(text), q \in 0 .. Len(pattern) :
         L(n, q) <=> \/ q = 0 /\ n = 0
                     \/ q > 0 /\ pattern[q] = "%" /\ L(n, q - 1)
                     \/ q > 0 /\ pattern[q] # "%" /\ n > 0 /\ L(n - 1, q - 1) /\ T(n, q)
                     \/ n > 0 /\ q < Len(pattern) /\ pattern[q + 1] = "%" /\ L(n - 1, q)
  BY BehindFollows
<1>2. \A n \in 0 .. Len(text), q \in 0 .. Len(pattern) :
         B(n, q) <=> \/ q = 0 /\ n = 0
                     \/ q > 0 /\ pattern[q] = "%" /\ B(n, q - 1)
                     \/ q > 0 /\ pattern[q] # "%" /\ n > 0 /\ B(n - 1, q - 1) /\ T(n, q)
                     \/ n > 0 /\ q < Len(pattern) /\ pattern[q + 1] = "%" /\ B(n - 1, q)
  BY BegunIs
<1> HIDE DEF b, L, B, T
<1>3. SUFFICES ASSUME Bad # {} PROVE FALSE
  BY DEF L, B, b
<1>4. PICK n \in Bad : \A y \in Bad : n <= y
  <2>1. Bad \subseteq Nat
    OBVIOUS
  <2> HIDE DEF Bad
  <2> QED BY <1>3, <2>1, Least
<1>5. n \in 0 .. Len(text) /\ Differ(n) # {}
  OBVIOUS
<1>6. PICK q \in Differ(n) : \A y \in Differ(n) : q <= y
  <2>1. Differ(n) \subseteq Nat
    OBVIOUS
  <2> HIDE DEF Differ
  <2> QED BY <1>5, <2>1, Least
<1>7. q \in 0 .. Len(pattern) /\ ~(L(n, q) <=> B(n, q))
  OBVIOUS
<1>8. q > 0 => (L(n, q - 1) <=> B(n, q - 1))
  <2> SUFFICES ASSUME q > 0 PROVE L(n, q - 1) <=> B(n, q - 1)
    OBVIOUS
  <2>1. q - 1 \in 0 .. Len(pattern) /\ ~(q <= q - 1)
    BY <1>0, <1>7
  <2>2. q - 1 \notin Differ(n)
    BY <1>6, <2>1
  <2> QED BY <2>1, <2>2
<1>9. n > 0 => \A r \in 0 .. Len(pattern) : L(n - 1, r) <=> B(n - 1, r)
  <2> SUFFICES ASSUME n > 0 PROVE \A r \in 0 .. Len(pattern) : L(n - 1, r) <=> B(n - 1, r)
    OBVIOUS
  <2>1. n - 1 \in 0 .. Len(text) /\ ~(n <= n - 1)
    BY <1>0, <1>5
  <2>2. n - 1 \notin Bad
    BY <1>4, <2>1
  <2> QED BY <2>1, <2>2
<1>10. q > 0 => q - 1 \in 0 .. Len(pattern)
  BY <1>0, <1>7
<1> HIDE DEF Bad, Differ
<1> QED BY <1>1, <1>2, <1>5, <1>7, <1>8, <1>9, <1>10

(***************************************************************************)
(* For any projects, classes, objects, requests and listings: a listing    *)
(* has the objects that satisfy its filters, no id is handed out twice     *)
(* while a create or an object has it, and a client that pages through a   *)
(* class misses none of the objects.                                       *)
(***************************************************************************)
(* The regexp of a pattern matches the texts that are LIKE it.             *)
(***************************************************************************)
(* For any projects, classes, objects, requests and listings: a listing    *)
(* has the objects that satisfy its filters, no id is handed out twice     *)
(* while a create or an object has it, and a client that pages through a   *)
(* class misses none of the objects.                                       *)
(***************************************************************************)
LEMMA MatchIsLike ==
  ASSUME NEW text \in Seq(Char), NEW pattern \in Seq(STRING), NEW ci \in BOOLEAN
  PROVE  MatchString(likeToRegex(pattern, ci), text) <=> Like(text, pattern, ci)
<1>0. /\ Len(text) \in Nat /\ Len(pattern) \in Nat /\ DOMAIN pattern = 1 .. Len(pattern)
      /\ Len(likeToRegex(pattern, ci)) = Len(pattern)
  BY AtomsAre
<1>1. MatchString(likeToRegex(pattern, ci), text)
         <=> Begun(text, pattern, ci, Len(text), Len(pattern))
  BY <1>0, BehindIsBegun DEF MatchString
<1>2. Begun(text, pattern, ci, Len(text), Len(pattern))
         <=> Reach(text, pattern, ci, Len(text), Len(pattern))
  BY <1>0 DEF Begun
<1>3. \A cut, i : Piece(text, pattern, ci, cut, i) <=>
         \/ pattern[i] = "%" /\ cut[i - 1] <= cut[i]
         \/ /\ pattern[i] # "%" /\ cut[i] = cut[i - 1] + 1
            /\ pattern[i] = "_" \/ SameChar(text[cut[i]], pattern[i], ci)
  BY DEF Piece, Takes
<1>4. Reach(text, pattern, ci, Len(text), Len(pattern)) <=> Like(text, pattern, ci)
  BY <1>0, <1>3 DEF Reach, Like
<1> QED BY <1>1, <1>2, <1>4

-----------------------------------------------------------------------------
(***************************************************************************)
(* For any projects, classes, objects, requests and listings: a listing    *)
(* has the objects that satisfy its filters, no id is handed out twice     *)
(* while a create or an object has it, and a client that pages through a   *)
(* class misses none of the objects.                                       *)
(***************************************************************************)
(* A listing.  A filter is satisfied by what it says it wants.             *)
(***************************************************************************)
(* For any projects, classes, objects, requests and listings: a listing    *)
(* has the objects that satisfy its filters, no id is handed out twice     *)
(* while a create or an object has it, and a client that pages through a   *)
(* class misses none of the objects.                                       *)
(***************************************************************************)
Equals(text, arg, ci) ==
    Len(text) = Len(arg) /\ \A n \in DOMAIN arg : SameChar(text[n], arg[n], ci)

\* Two texts in lower case are equal when their characters are.
LEMMA EqualsIs ==
  ASSUME NEW text \in Seq(Char), NEW arg \in Seq(STRING), NEW ci \in BOOLEAN
  PROVE  (IF ci THEN Lowered(text) = Lowered(arg) ELSE text = arg)
            <=> Equals(text, arg, ci)
<1>1. /\ DOMAIN text = 1 .. Len(text) /\ Len(text) \in Nat
      /\ DOMAIN arg = 1 .. Len(arg) /\ Len(arg) \in Nat
  OBVIOUS
<1>2. CASE ci
  <2> DEFINE a == Lowered(text)
             b == Lowered(arg)
  <2>1. /\ a = [i \in 1 .. Len(text) |-> ToLower(text[i])]
        /\ b = [i \in 1 .. Len(arg) |-> ToLower(arg[i])]
    BY <1>1 DEF Lowered
  <2> HIDE DEF a, b
  <2>2. ASSUME a = b PROVE Equals(text, arg, ci)
    <3>1. DOMAIN a = 1 .. Len(text) /\ DOMAIN b = 1 .. Len(arg)
      BY <2>1
    <3>2. 1 .. Len(text) = 1 .. Len(arg)
      BY <2>2, <3>1
    <3>3. Len(text) = Len(arg)
      <4> DEFINE m == Len(text)
                 n == Len(arg)
      <4>1. m \in Nat /\ n \in Nat /\ 1 .. m = 1 .. n
        BY <1>1, <3>2
      <4> HIDE DEF m, n
      <4>2. m > 0 => m \in 1 .. n
        <5>1. m > 0 => m \in 1 .. m
          BY <4>1
        <5> QED BY <4>1, <5>1
      <4>3. n > 0 => n \in 1 .. m
        <5>1. n > 0 => n \in 1 .. n
          BY <4>1
        <5> QED BY <4>1, <5>1
      <4>4. m = n
        BY <4>1, <4>2, <4>3
      <4> QED BY <4>4 DEF m, n
    <3>4. \A i \in 1 .. Len(arg) : ToLower(text[i]) = ToLower(arg[i])
      BY <2>1, <2>2, <3>3
    <3> QED BY <1>1, <1>2, <3>3, <3>4 DEF Equals, SameChar
  <2>3. ASSUME Equals(text, arg, ci) PROVE a = b
    <3>1. Len(text) = Len(arg)
      BY <2>3 DEF Equals
    <3>2. \A i \in 1 .. Len(arg) : ToLower(text[i]) = ToLower(arg[i])
      BY <1>1, <2>3 DEF Equals, SameChar
    <3> QED BY <2>1, <3>1, <3>2
  <2> QED BY <1>2, <2>2, <2>3 DEF a, b
<1>3. CASE ~ci
  <2>1. Equals(text, arg, ci) <=>
           Len(text) = Len(arg) /\ \A n \in 1 .. Len(arg) : text[n] = arg[n]
    BY <1>1, <1>3 DEF Equals, SameChar
  <2>2. ASSUME Len(text) = Len(arg), \A n \in 1 .. Len(arg) : text[n] = arg[n]
        PROVE  text = arg
    <3>1. text = [n \in 1 .. Len(arg) |-> text[n]] /\ arg = [n \in 1 .. Len(arg) |-> arg[n]]
      BY <1>1, <2>2
    <3> QED BY <2>2, <3>1
  <2> QED BY <1>3, <2>1, <2>2
<1> QED BY <1>2, <1>3

\* What is stored: no field id, and a text in every field.
Stored(b) == "id" \notin DOMAIN b /\ \A f \in DOMAIN b : b[f].text \in Seq(Char)

\* An object matches a listing when it has what the listing wants.
LEMMA MatchIsWanted ==
  ASSUME NEW b, Stored(b), NEW q \in Query
  PROVE  match(b, q.filters, q.ci) <=> Wanted(b, q)
<1>0. q.ci \in BOOLEAN /\ q.filters \subseteq Filter
  BY DEF Query
<1> DEFINE W(f) ==
        /\ f.field \in DOMAIN b \ {"id"}
        /\ LET v == b[f.field]
           IN  /\ v.type # "null"
               /\ IF f.kind = "like" THEN Like(v.text, f.arg, q.ci)
                  ELSE Equals(v.text, f.arg, q.ci)
<1>1. ASSUME NEW f \in q.filters PROVE Satisfies(b, f, q.ci) <=> W(f)
  <2>1. f.arg \in Seq(STRING)
    BY <1>0 DEF Filter
  <2>2. CASE f.field \in DOMAIN b
    <3> DEFINE text == b[f.field].text
    <3>1. text \in Seq(Char) /\ f.field # "id"
      BY <2>2 DEF Stored
    <3> HIDE DEF text
    <3>2. MatchString(likeToRegex(f.arg, q.ci), text) <=> Like(text, f.arg, q.ci)
      BY <1>0, <2>1, <3>1, MatchIsLike
    <3>3. (IF q.ci THEN Lowered(text) = Lowered(f.arg) ELSE text = f.arg)
             <=> Equals(text, f.arg, q.ci)
      BY <1>0, <2>1, <3>1, EqualsIs
    <3> QED BY <2>2, <3>1, <3>2, <3>3 DEF Satisfies, text
  <2>3. CASE f.field \notin DOMAIN b
    BY <2>3 DEF Satisfies
  <2> QED BY <2>2, <2>3
<1>2. Wanted(b, q) <=> \A f \in q.filters : f.field # "" => W(f)
  BY DEF Wanted, Equals
<1> HIDE DEF W
<1>3. match(b, q.filters, q.ci) <=> \A f \in q.filters : f.field # "" => W(f)
  BY <1>1 DEF match, parseFilters
<1> QED BY <1>2, <1>3

(***************************************************************************)
(* For any projects, classes, objects, requests and listings: a listing    *)
(* has the objects that satisfy its filters, no id is handed out twice     *)
(* while a create or an object has it, and a client that pages through a   *)
(* class misses none of the objects.                                       *)
(***************************************************************************)
(* The page that limit and offset cut out of the ids in order.             *)
(***************************************************************************)
(* For any projects, classes, objects, requests and listings: a listing    *)
(* has the objects that satisfy its filters, no id is handed out twice     *)
(* while a create or an object has it, and a client that pages through a   *)
(* class misses none of the objects.                                       *)
(***************************************************************************)
Before(ids, x) == Cardinality({j \in ids : j < x})

Shows(ids, limit, offset, x) ==
    LET skipped == IF offset < 0 THEN 0 ELSE offset
    IN  Before(ids, x) >= skipped /\ (limit > 0 => Before(ids, x) < skipped + limit)

\* A page has an id when as many come before it as the page skips, or more.
LEMMA PageHas ==
  ASSUME NEW n \in Nat, NEW ids \in SUBSET (1 .. n), NEW limit \in Int, NEW offset \in Int,
         NEW page, page = Page(Sorted(ids), limit, offset)
  PROVE  /\ \A x : x \in Range(page) <=> x \in ids /\ Shows(ids, limit, offset, x)
         /\ \A k \in 1 .. Len(page) - 1 : page[k] < page[k + 1]
<1> DEFINE s == Sorted(ids)
           from == From(Len(s), offset)
           to == UpTo(Len(s), limit, offset)
           in(x) == Shows(ids, limit, offset, x)
<1>1. /\ s \in Seq(ids) /\ Len(s) \in Nat
      /\ \A i \in 1 .. Len(s) : s[i] \in ids
      /\ \A i, j \in 1 .. Len(s) : i < j => s[i] < s[j]
      /\ \A x \in ids : \E i \in 1 .. Len(s) : s[i] = x
  BY SortedIs
<1>2. \A k \in 1 .. Len(s) : Before(ids, s[k]) = k - 1
  BY Rank DEF Before
<1>10. page = Page(s, limit, offset)
  OBVIOUS
<1> HIDE DEF s
<1>3. /\ from \in 0 .. Len(s) /\ to \in from .. Len(s)
      /\ page \in Seq(ids) /\ Len(page) = to - from
      /\ \A i \in 1 .. to - from : page[i] = s[from + i]
  <2>1. from = From(Len(s), offset) /\ to = UpTo(Len(s), limit, offset)
    OBVIOUS
  <2>2. Cut(ids, s, limit, offset)
    BY <1>1, PageIs
  <2> HIDE DEF from, to
  <2> QED BY <1>10, <2>1, <2>2 DEF Cut
<1>4. \A k \in 1 .. Len(s) :
         LET skipped == IF offset < 0 THEN 0 ELSE offset
         IN  from < k /\ k <= to <=>
                k - 1 >= skipped /\ (limit > 0 => k - 1 < skipped + limit)
  BY <1>1 DEF From, UpTo
<1> HIDE DEF from, to
<1>5. \A k \in 1 .. Len(s) : in(s[k]) <=> from < k /\ k <= to
  BY <1>2, <1>4 DEF Shows
<1> HIDE DEF in
<1>6. DOMAIN page = 1 .. to - from
  BY <1>3
<1>7. ASSUME NEW x \in Range(page) PROVE x \in ids /\ in(x)
  <2>1. PICK i \in 1 .. to - from : x = page[i]
    BY <1>6 DEF Range
  <2>2. from + i \in 1 .. Len(s) /\ from < from + i /\ from + i <= to /\ x = s[from + i]
    BY <1>1, <1>3, <2>1
  <2> QED BY <1>1, <1>5, <2>2
<1>8. ASSUME NEW x \in ids, in(x) PROVE x \in Range(page)
  <2>1. PICK k \in 1 .. Len(s) : s[k] = x
    BY <1>1
  <2>2. from < k /\ k <= to
    BY <1>5, <1>8, <2>1
  <2>3. k - from \in 1 .. to - from /\ from + (k - from) = k
    BY <1>1, <1>3, <2>2
  <2>4. page[k - from] = x
    BY <1>3, <2>1, <2>3
  <2> QED BY <1>6, <2>3, <2>4 DEF Range
<1>9. ASSUME NEW k \in 1 .. Len(page) - 1 PROVE page[k] < page[k + 1]
  <2>1. k \in 1 .. to - from /\ k + 1 \in 1 .. to - from
    BY <1>1, <1>3
  <2>2. page[k] = s[from + k] /\ page[k + 1] = s[from + (k + 1)]
    BY <1>3, <2>1
  <2>3. from + k \in 1 .. Len(s) /\ from + (k + 1) \in 1 .. Len(s) /\ from + k < from + (k + 1)
    BY <1>1, <1>3, <2>1
  <2> QED BY <1>1, <2>2, <2>3
<1>11. \A x : x \in Range(page) <=> x \in ids /\ in(x)
  BY <1>7, <1>8
<1> QED BY <1>9, <1>11 DEF in

(***************************************************************************)
(* A page is full when the page that skips as many as it shows is not      *)
(* empty.                                                                  *)
(***************************************************************************)
LEMMA FullPage ==
  ASSUME NEW n \in Nat, NEW ids \in SUBSET (1 .. n),
         NEW limit \in Nat \ {0}, NEW offset \in Nat,
         NEW page, page = Page(Sorted(ids), limit, offset)
  PROVE  /\ page \in Seq(ids)
         /\ \A x \in ids : Before(ids, x) >= offset + limit => Len(page) = limit
         /\ Len(page) <= limit
<1> DEFINE s == Sorted(ids)
           from == From(Len(s), offset)
           to == UpTo(Len(s), limit, offset)
<1>1. /\ s \in Seq(ids) /\ Len(s) \in Nat
      /\ \A x \in ids : \E i \in 1 .. Len(s) : s[i] = x
  BY SortedIs
<1>2. \A k \in 1 .. Len(s) : Before(ids, s[k]) = k - 1
  BY Rank DEF Before
<1>3. page = Page(s, limit, offset)
  OBVIOUS
<1> HIDE DEF s
<1>4. page \in Seq(ids) /\ Len(page) = to - from
  <2>1. Cut(ids, s, limit, offset)
    BY <1>1, PageIs
  <2> QED BY <1>3, <2>1 DEF Cut
<1>5. to - from <= limit
  BY <1>1 DEF From, UpTo
<1>6. ASSUME NEW x \in ids, Before(ids, x) >= offset + limit
      PROVE  to - from = limit
  <2>1. PICK i \in 1 .. Len(s) : s[i] = x
    BY <1>1
  <2>2. i - 1 >= offset + limit
    BY <1>2, <1>6, <2>1
  <2> QED BY <1>1, <2>2 DEF From, UpTo
<1> QED BY <1>4, <1>5, <1>6

(***************************************************************************)
(* Of more ids, as many or more come before an id.                         *)
(***************************************************************************)
LEMMA BeforeGrows ==
  ASSUME NEW n \in Nat, NEW T \in SUBSET (1 .. n), NEW S \in SUBSET T, NEW x
  PROVE  Before(S, x) \in Nat /\ Before(T, x) \in Nat /\ Before(S, x) <= Before(T, x)
<1> DEFINE a == {j \in S : j < x}
           b == {j \in T : j < x}
<1>1. IsFiniteSet(1 .. n)
  BY FS_Interval
<1>2. a \in SUBSET b /\ b \in SUBSET (1 .. n)
  OBVIOUS
<1> HIDE DEF a, b
<1>3. IsFiniteSet(b)
  BY <1>1, <1>2, FS_Subset
<1>4. IsFiniteSet(a) /\ Cardinality(a) <= Cardinality(b)
  BY <1>2, <1>3, FS_Subset
<1> QED BY <1>3, <1>4, FS_CardinalityType DEF Before, a, b

(***************************************************************************)
(* The greatest of some numbers up to n is one of them.                    *)
(***************************************************************************)
LEMMA GreatestIs ==
  ASSUME NEW n \in Nat, NEW S \in SUBSET (0 .. n), S # {}
  PROVE  Max(S) \in S /\ \A y \in S : y <= Max(S)
<1> DEFINE U == {n - x : x \in S}
<1>1. U \subseteq Nat /\ U # {}
  OBVIOUS
<1>2. PICK u \in U : \A y \in U : u <= y
  <2> HIDE DEF U
  <2> QED BY <1>1, Least
<1>3. PICK m \in S : u = n - m
  OBVIOUS
<1>4. ASSUME NEW y \in S PROVE m >= y
  <2>1. n - y \in U /\ m \in Int /\ y \in Int
    OBVIOUS
  <2>2. n - m <= n - y
    BY <1>2, <1>3, <2>1
  <2> QED BY <2>1, <2>2
<1>5. S \in SUBSET Int /\ \A y \in S : y \in Int
  OBVIOUS
<1>6. Max(S) = m
  BY <1>4, <1>5, MaxIs
<1> QED BY <1>4, <1>5, <1>6

-----------------------------------------------------------------------------
(***************************************************************************)
(* The inductive invariant.  Until a class is dropped under a create that  *)
(* has an id, the ids of the objects and those of the creates are all      *)
(* different; the client that pages has each object it began with, or as   *)
(* many come before that object as the client skips.                       *)
(***************************************************************************)
StoreOK ==
    /\ DOMAIN objects = Scope
    /\ \A s \in Scope : \A i \in DOMAIN objects[s] : Stored(objects[s][i])

Pager == [scope : Scope \union {<<>>}, query : Query, got : Seq(Id),
          began : SUBSET Id, done : BOOLEAN]

PagerTypeOK == pager \in Pager /\ (pager # NoPager => pager.scope \in Scope)

\* An id that a create has is one handed out, and no object has it.
IdsNew ==
    \A w \in Creator : creates[w] # NoCreate =>
        \A i \in Range(creates[w].ids) :
            i <= counters[creates[w].scope] /\ i \notin DOMAIN objects[creates[w].scope]

IdsApart ==
    \A v, w \in Creator :
        v # w /\ creates[v] # NoCreate /\ creates[w] # NoCreate
              /\ creates[v].scope = creates[w].scope
            => Range(creates[v].ids) \intersect Range(creates[w].ids) = {}

IdsHanded == \A s \in Scope : \A i \in DOMAIN objects[s] : i <= counters[s]

Followed == Matching(objects[pager.scope], pager.query)

PagerOK ==
    pager # NoPager =>
        /\ pager.query.limit = PageSize
        /\ \A x \in pager.began :
              /\ x \in Followed
              /\ x \in Range(pager.got) \/ Before(Followed, x) >= Len(pager.got)
        /\ pager.done => pager.began \subseteq Range(pager.got)

IdsOK == IdsNew /\ IdsApart /\ IdsHanded

HttpInv ==
    /\ TypeOK
    /\ StoreOK
    /\ PagerTypeOK
    /\ raced \/ (IdsOK /\ PagerOK)

(***************************************************************************)
(* The numbers up to n are n.                                              *)
(***************************************************************************)
LEMMA CountUpTo ==
  ASSUME NEW n \in Nat
  PROVE  IsFiniteSet(1 .. n) /\ Cardinality(1 .. n) = n
BY FS_Interval

(***************************************************************************)
(* The bound on all ids handed out is one on those of a class.             *)
(***************************************************************************)
LEMMA HandedBound ==
  ASSUME counters \in [Scope -> Nat], NEW s \in Scope
  PROVE  Cardinality(Handed) \in Nat /\ counters[s] <= Cardinality(Handed)
<1> DEFINE Part(x) == {x} \X (1 .. counters[x])
           Parts == {Part(x) : x \in Scope}
           f == [x \in Scope |-> Part(x)]
<1>1. ASSUME NEW x \in Scope
      PROVE  IsFiniteSet(Part(x)) /\ Cardinality(Part(x)) = counters[x]
  <2>1. /\ IsFiniteSet({x}) /\ Cardinality({x}) = 1
        /\ IsFiniteSet(1 .. counters[x]) /\ Cardinality(1 .. counters[x]) = counters[x]
        /\ counters[x] \in Nat
    <3>1. counters[x] \in Nat
      OBVIOUS
    <3>2. IsFiniteSet({x}) /\ Cardinality({x}) = 1
      BY FS_Singleton
    <3> QED BY <3>1, <3>2, CountUpTo
  <2> QED BY <2>1, FS_Product
<1>2. IsFiniteSet(Scope)
  BY HttpAssumption, FS_Product DEF HttpAssumption, Scope
<1>3. f \in Surjection(Scope, Parts)
  BY DEF Surjection
<1>4. IsFiniteSet(Parts)
  <2> HIDE DEF Parts, f
  <2> QED BY <1>2, <1>3, FS_Surjection
<1>5. IsFiniteSet(Handed)
  <2>1. \A T \in Parts : IsFiniteSet(T)
    BY <1>1
  <2>2. Handed = UNION Parts
    BY DEF Handed
  <2> HIDE DEF Parts
  <2> QED BY <1>4, <2>1, <2>2, FS_UNION
<1>6. Part(s) \in SUBSET Handed
  BY DEF Handed
<1> HIDE DEF Part
<1> QED BY <1>1, <1>5, <1>6, FS_Subset, FS_CardinalityType

-----------------------------------------------------------------------------
(***************************************************************************)
(* What a client that pages has are ids.                                   *)
(***************************************************************************)
LEMMA PagerIds ==
  ASSUME NEW p \in Pager
  PROVE  Range(p.got) \union p.began \subseteq Id
BY DEF Pager, Range

\* A client that is not followed.
LEMMA NotFollowed ==
  ASSUME pager' = NoPager
  PROVE  PagerTypeOK' /\ PagerOK'
BY DEF PagerTypeOK, PagerOK, NoPager, Pager, NoQuery, Query

(***************************************************************************)
(* What a create or a restart does not take away from the class a client   *)
(* follows: all that came before an object still does.                     *)
(***************************************************************************)
Grown(s) == \A i \in DOMAIN objects[s] : i \in DOMAIN objects'[s] /\ objects'[s][i] = objects[s][i]

LEMMA PagerStays ==
  ASSUME TypeOK, PagerTypeOK, UNCHANGED pager,
         pager # NoPager => DOMAIN objects'[pager.scope] \subseteq Id /\ Grown(pager.scope)
  PROVE  PagerTypeOK' /\ (PagerOK => PagerOK')
<1>1. PagerTypeOK'
  BY DEF PagerTypeOK
<1>2. ASSUME PagerOK, pager # NoPager PROVE PagerOK'
  <2> DEFINE S == Followed
             T == Followed'
             k == Len(pager.got)
  <2>1. MaxObjects \in Nat /\ k \in Nat /\ pager.scope \in Scope
    BY <1>2, HttpAssumption DEF PagerTypeOK, Pager, HttpAssumption
  <2>2. T = {i \in DOMAIN objects'[pager.scope] :
                match(objects'[pager.scope][i], pager.query.filters, pager.query.ci)}
    BY DEF Followed, Matching, match, Satisfies, parseFilters
  <2>3. S = {i \in DOMAIN objects[pager.scope] :
                match(objects[pager.scope][i], pager.query.filters, pager.query.ci)}
    BY DEF Followed, Matching
  <2>4. T \in SUBSET (1 .. MaxObjects) /\ S \in SUBSET T
    BY <1>2, <2>2, <2>3 DEF Id, Grown
  <2>5. /\ pager.query.limit = PageSize
        /\ \A x \in pager.began : x \in S /\ (x \in Range(pager.got) \/ Before(S, x) >= k)
        /\ pager.done => pager.began \subseteq Range(pager.got)
    BY <1>2 DEF PagerOK
  <2> HIDE DEF S, T, k
  <2>6. ASSUME NEW x \in pager.began
        PROVE  x \in T /\ (x \in Range(pager.got) \/ Before(T, x) >= k)
    <3>1. x \in S /\ (x \in Range(pager.got) \/ Before(S, x) >= k)
      BY <2>5
    <3>2. Before(S, x) \in Nat /\ Before(T, x) \in Nat /\ Before(S, x) <= Before(T, x)
      BY <2>1, <2>4, BeforeGrows
    <3> QED BY <2>1, <2>4, <3>1, <3>2
  <2> QED BY <1>2, <2>5, <2>6 DEF PagerOK, T, k
<1>3. ASSUME pager = NoPager PROVE PagerOK'
  BY <1>3 DEF PagerOK
<1> QED BY <1>1, <1>2, <1>3

\* Of a class whose objects do not change.
LEMMA PagerElsewhere ==
  ASSUME TypeOK, PagerTypeOK, UNCHANGED pager,
         pager # NoPager => objects'[pager.scope] = objects[pager.scope]
  PROVE  PagerTypeOK' /\ (PagerOK => PagerOK')
<1>1. pager # NoPager => DOMAIN objects'[pager.scope] \subseteq Id /\ Grown(pager.scope)
  BY DEF TypeOK, PagerTypeOK, Grown
<1> QED BY <1>1, PagerStays

(***************************************************************************)
(* A client that follows a class is followed no longer when somebody       *)
(* changes or deletes what the class has, and not concerned otherwise.     *)
(***************************************************************************)
LEMMA DisturbedOrElsewhere ==
  ASSUME TypeOK, PagerTypeOK, NEW scope \in Scope, Disturbs(scope),
         \A s \in Scope \ {scope} : objects'[s] = objects[s]
  PROVE  PagerTypeOK' /\ (PagerOK => PagerOK')
<1>1. CASE pager.scope = scope
  BY <1>1, NotFollowed DEF Disturbs
<1>2. CASE pager.scope # scope
  <2>1. UNCHANGED pager
    BY <1>2 DEF Disturbs
  <2>2. pager # NoPager => objects'[pager.scope] = objects[pager.scope]
    BY <1>2 DEF PagerTypeOK
  <2> QED BY <2>1, <2>2, PagerElsewhere
<1> QED BY <1>1, <1>2

\* What the parts of the invariant give for the next state.
LEMMA InvariantFrom ==
  ASSUME HttpInv, StoreOK', PagerTypeOK', PagerTypeOK' => TypeOK',
         raced => raced', ~raced' /\ IdsOK => IdsOK', ~raced' /\ PagerOK => PagerOK'
  PROVE  HttpInv'
<1>1. raced' \/ (IdsOK' /\ PagerOK')
  <2>1. raced \/ (IdsOK /\ PagerOK)
    BY DEF HttpInv
  <2> QED BY <2>1
<1> QED BY <1>1 DEF HttpInv

-----------------------------------------------------------------------------
(***************************************************************************)
(* A create that begins has no id yet.                                     *)
(***************************************************************************)
LEMMA CreateKeeps ==
  ASSUME HttpInv, NEW w \in Creator, NEW scope \in Scope, NEW n \in Nat, Create(w, scope, n)
  PROVE  HttpInv'
<1> DEFINE c == [scope |-> scope, want |-> n, ids |-> <<>>]
<1>1. /\ creates[w] = NoCreate /\ creates' = [creates EXCEPT ![w] = c]
      /\ UNCHANGED <<classes, objects, counters, logged, pager, raced>>
  BY DEF Create
<1>2. c \in Creation /\ Range(c.ids) = {} /\ c.scope = scope
  BY DEF Creation, Range
<1>3. creates \in [Creator -> Creation \union {NoCreate}]
  BY DEF HttpInv, TypeOK
<1> HIDE DEF c
<1>4. /\ creates' \in [Creator -> Creation \union {NoCreate}]
      /\ creates'[w] = c /\ \A v \in Creator \ {w} : creates'[v] = creates[v]
  BY <1>1, <1>2, <1>3
<1>5. TypeOK'
  BY <1>1, <1>4 DEF HttpInv, TypeOK
<1>6. StoreOK'
  BY <1>1 DEF HttpInv, StoreOK
<1>7. PagerTypeOK' /\ (PagerOK => PagerOK')
  BY <1>1, PagerElsewhere DEF HttpInv
<1>8. ASSUME IdsOK PROVE IdsOK'
  <2>1. IdsHanded'
    BY <1>1, <1>8 DEF IdsOK, IdsHanded
  <2>2. IdsNew'
    BY <1>1, <1>2, <1>4, <1>8 DEF IdsOK, IdsNew
  <2>3. IdsApart'
    <3>1. ASSUME NEW u \in Creator, NEW v \in Creator, u # v,
                 creates'[u] # NoCreate, creates'[v] # NoCreate,
                 creates'[u].scope = creates'[v].scope
          PROVE  Range(creates'[u].ids) \intersect Range(creates'[v].ids) = {}
      <4>1. CASE u = w \/ v = w
        BY <1>2, <1>4, <4>1
      <4>2. CASE u # w /\ v # w
        BY <1>4, <1>8, <3>1, <4>2 DEF IdsOK, IdsApart
      <4> QED BY <4>1, <4>2
    <3> QED BY <3>1 DEF IdsApart
  <2> QED BY <2>1, <2>2, <2>3 DEF IdsOK
<1> QED BY <1>1, <1>5, <1>6, <1>7, <1>8, InvariantFrom

\* The routes that create accept one object, or as many as the bound allows.
LEMMA CreatesKeep ==
  ASSUME HttpInv, NEW scope \in Scope, NEW w \in Creator, NEW parsed \in BOOLEAN,
         \/ handleCreateObject(w, scope, parsed)
         \/ \E n \in 0 .. MaxBulk + 1 : handleCreateObjectsBulk(w, scope, n, parsed)
  PROVE  HttpInv'
<1>1. CASE handleCreateObject(w, scope, parsed)
  BY <1>1, CreateKeeps DEF handleCreateObject
<1>2. ASSUME NEW n \in 0 .. MaxBulk + 1, handleCreateObjectsBulk(w, scope, n, parsed)
      PROVE  HttpInv'
  <2>1. n \in Nat /\ Create(w, scope, n)
    BY <1>2, HttpAssumption DEF handleCreateObjectsBulk, HttpAssumption
  <2> QED BY <2>1, CreateKeeps
<1> QED BY <1>1, <1>2

(***************************************************************************)
(* A create with one id more.                                              *)
(***************************************************************************)
LEMMA WithIds ==
  ASSUME NEW c \in Creation, NEW ids \in Seq(Id)
  PROVE  [c EXCEPT !.ids = ids] = [scope |-> c.scope, want |-> c.want, ids |-> ids]
BY DEF Creation

\* What a sequence has with an element appended.
LEMMA RangeOfAppend ==
  ASSUME NEW S, NEW s \in Seq(S), NEW x \in S
  PROVE  Range(Append(s, x)) = Range(s) \union {x}
<1> DEFINE t == Append(s, x)
<1>1. /\ t \in Seq(S) /\ Len(t) = Len(s) + 1 /\ t[Len(s) + 1] = x
      /\ \A k \in 1 .. Len(s) : t[k] = s[k]
  BY AppendProperties
<1> HIDE DEF t
<1>2. DOMAIN s = 1 .. Len(s) /\ DOMAIN t = 1 .. Len(s) + 1 /\ Len(s) \in Nat
  BY <1>1
<1>3. ASSUME NEW y \in Range(t) PROVE y \in Range(s) \union {x}
  <2>1. PICK k \in 1 .. Len(s) + 1 : y = t[k]
    BY <1>2 DEF Range
  <2>2. k \in 1 .. Len(s) \/ k = Len(s) + 1
    BY <1>2
  <2> QED BY <1>1, <1>2, <2>1, <2>2 DEF Range
<1>4. ASSUME NEW y \in Range(s) \union {x} PROVE y \in Range(t)
  <2>1. CASE y = x
    <3>1. Len(s) + 1 \in DOMAIN t
      BY <1>2
    <3> QED BY <1>1, <2>1, <3>1 DEF Range
  <2>2. CASE y \in Range(s)
    <3>1. PICK k \in 1 .. Len(s) : y = s[k]
      BY <1>2, <2>2 DEF Range
    <3>2. k \in DOMAIN t /\ y = t[k]
      BY <1>1, <1>2, <3>1
    <3> QED BY <3>2 DEF Range
  <2> QED BY <2>1, <2>2
<1> QED BY <1>3, <1>4 DEF t

(***************************************************************************)
(* The next id of a class is past all of its objects and creates.          *)
(***************************************************************************)
LEMMA TakeIdKeeps ==
  ASSUME HttpInv, NEW w \in Creator, TakeId(w)
  PROVE  HttpInv'
<1> DEFINE s == creates[w].scope
           i == counters[s] + 1
           had == creates[w].ids
           c == [creates[w] EXCEPT !.ids = Append(@, i)]
<1>1. /\ creates \in [Creator -> Creation \union {NoCreate}]
      /\ counters \in [Scope -> 0 .. MaxObjects] /\ MaxObjects \in Nat
  BY HttpAssumption DEF HttpInv, TypeOK, HttpAssumption
<1>2. creates[w] \in Creation /\ creates[w] # NoCreate
  <2>1. Len(creates[w].ids) < creates[w].want
    BY DEF TakeId
  <2>2. NoCreate.want = 0 /\ NoCreate.ids = <<>> /\ Len(<<>>) = 0
    BY DEF NoCreate
  <2>3. creates[w] # NoCreate
    BY <2>1, <2>2
  <2> QED BY <1>1, <2>3
<1>3. s \in Scope /\ had \in Seq(Id) /\ creates[w].want \in Nat
  BY <1>2 DEF Creation
<1>4. i \in Id /\ i \in Nat /\ counters[s] \in Nat /\ i = counters[s] + 1
  <2>1. counters \in [Scope -> Nat]
    BY <1>1
  <2>2. Cardinality(Handed) \in Nat /\ counters[s] <= Cardinality(Handed)
    BY <1>3, <2>1, HandedBound
  <2>3. Cardinality(Handed) < MaxObjects
    BY DEF TakeId
  <2>4. counters[s] \in Nat
    BY <1>3, <2>1
  <2> QED BY <1>1, <2>2, <2>3, <2>4 DEF Id
<1>5. /\ counters' = [counters EXCEPT ![s] = i]
      /\ creates' = [creates EXCEPT ![w] = c]
      /\ UNCHANGED <<classes, objects, logged, pager, raced>>
  BY DEF TakeId
<1>6. c \in Creation /\ c # NoCreate /\ c.scope = s /\ Range(c.ids) = Range(had) \union {i}
  <2>1. /\ Append(had, i) \in Seq(Id) /\ Len(Append(had, i)) = Len(had) + 1
        /\ Append(had, i)[Len(had) + 1] = i
        /\ \A k \in 1 .. Len(had) : Append(had, i)[k] = had[k]
    BY <1>3, <1>4, AppendProperties
  <2>2. c = [scope |-> s, want |-> creates[w].want, ids |-> Append(had, i)]
    BY <1>2, <2>1, WithIds
  <2>3. c \in Creation /\ c.scope = s /\ c.want = creates[w].want /\ c.ids = Append(had, i)
    BY <1>3, <2>1, <2>2 DEF Creation
  <2>4. Range(c.ids) = Range(had) \union {i}
    BY <1>3, <1>4, <2>3, RangeOfAppend
  <2>5. c # NoCreate
    <3>1. creates[w].want > 0
      <4>1. Len(had) < creates[w].want
        BY DEF TakeId
      <4>2. Len(had) \in Nat
        BY <1>3
      <4> QED BY <1>3, <4>1, <4>2
    <3>2. NoCreate.want = 0
      BY DEF NoCreate
    <3>3. c.want = creates[w].want
      BY <2>3
    <3> HIDE DEF c
    <3>4. c.want # NoCreate.want
      BY <1>3, <3>1, <3>2, <3>3
    <3> QED BY <3>4
  <2> QED BY <2>3, <2>4, <2>5
<1> HIDE DEF s, i, had, c
<1>7. /\ creates' \in [Creator -> Creation \union {NoCreate}]
      /\ creates'[w] = c /\ \A v \in Creator \ {w} : creates'[v] = creates[v]
      /\ counters' \in [Scope -> 0 .. MaxObjects] /\ counters'[s] = i
      /\ \A x \in Scope \ {s} : counters'[x] = counters[x]
  <2>1. i \in 0 .. MaxObjects
    BY <1>1, <1>4 DEF Id
  <2> QED BY <1>1, <1>3, <1>5, <1>6, <2>1
<1>8. \A x \in Scope : /\ counters[x] <= counters'[x]
                       /\ counters[x] \in Nat /\ counters'[x] \in Nat
  BY <1>1, <1>4, <1>7
<1>9. TypeOK' /\ StoreOK'
  BY <1>5, <1>7 DEF HttpInv, TypeOK, StoreOK
<1>10. PagerTypeOK' /\ (PagerOK => PagerOK')
  BY <1>5, PagerElsewhere DEF HttpInv
<1>11. ASSUME IdsOK PROVE IdsOK'
  <2>1. \A x \in Scope : \A j \in DOMAIN objects[x] : j \in Nat /\ j <= counters[x]
    BY <1>11 DEF HttpInv, TypeOK, Id, IdsOK, IdsHanded
  <2>2. IdsHanded'
    BY <1>5, <1>8, <2>1 DEF IdsHanded
  <2>3. ASSUME NEW v \in Creator, creates[v] # NoCreate
        PROVE  /\ creates[v].scope \in Scope
               /\ \A j \in Range(creates[v].ids) :
                     /\ j \in Nat /\ j <= counters[creates[v].scope]
                     /\ j \notin DOMAIN objects[creates[v].scope]
    <3>1. creates[v] \in Creation
      BY <1>1, <2>3
    <3>2. creates[v].scope \in Scope /\ creates[v].ids \in Seq(Id)
      BY <3>1 DEF Creation
    <3>3. Range(creates[v].ids) \subseteq Nat
      <4>1. Id \subseteq Nat
        BY <1>1 DEF Id
      <4>2. Range(creates[v].ids) \subseteq Id
        BY <3>2 DEF Range
      <4> QED BY <4>1, <4>2
    <3> QED BY <1>11, <2>3, <3>2, <3>3 DEF IdsOK, IdsNew
  <2>4. i \notin DOMAIN objects[s]
    BY <1>3, <1>4, <2>1
  <2>5. IdsNew'
    <3> SUFFICES ASSUME NEW v \in Creator, creates'[v] # NoCreate,
                        NEW j \in Range(creates'[v].ids)
                 PROVE  /\ j <= counters'[creates'[v].scope]
                        /\ j \notin DOMAIN objects'[creates'[v].scope]
      BY DEF IdsNew
    <3>1. CASE v # w
      <4>1. creates'[v] = creates[v] /\ creates[v] # NoCreate
        BY <1>7, <3>1
      <4>2. creates[v].scope \in Scope /\ j \in Nat /\ j <= counters[creates[v].scope]
            /\ j \notin DOMAIN objects[creates[v].scope]
        BY <2>3, <4>1
      <4> QED BY <1>5, <1>8, <4>1, <4>2
    <3>2. CASE v = w
      <4>1. creates'[v].scope = s /\ (j \in Range(had) \/ j = i)
        BY <1>6, <1>7, <3>2
      <4>2. j \in Range(had) => j \in Nat /\ j <= counters[s] /\ j \notin DOMAIN objects[s]
        BY <1>2, <2>3 DEF s, had
      <4> QED BY <1>3, <1>4, <1>5, <1>7, <2>4, <4>1, <4>2
    <3> QED BY <3>1, <3>2
  <2>6. IdsApart'
    <3>1. ASSUME NEW v \in Creator, v # w, creates[v] # NoCreate, creates[v].scope = s
          PROVE  Range(creates[v].ids) \intersect Range(c.ids) = {}
      <4>1. Range(creates[v].ids) \intersect Range(had) = {}
        BY <1>2, <1>11, <3>1 DEF IdsOK, IdsApart, s, had
      <4>2. i \notin Range(creates[v].ids)
        BY <1>4, <2>3, <3>1
      <4> QED BY <1>6, <4>1, <4>2
    <3>2. ASSUME NEW u \in Creator, NEW v \in Creator, u # v,
                 creates'[u] # NoCreate, creates'[v] # NoCreate,
                 creates'[u].scope = creates'[v].scope
          PROVE  Range(creates'[u].ids) \intersect Range(creates'[v].ids) = {}
      <4>1. CASE u = w
        BY <1>6, <1>7, <3>1, <3>2, <4>1
      <4>2. CASE v = w
        BY <1>6, <1>7, <3>1, <3>2, <4>2
      <4>3. CASE u # w /\ v # w
        BY <1>7, <1>11, <3>2, <4>3 DEF IdsOK, IdsApart
      <4> QED BY <4>1, <4>2, <4>3
    <3> QED BY <3>2 DEF IdsApart
  <2> QED BY <2>2, <2>5, <2>6 DEF IdsOK
<1> QED BY <1>5, <1>9, <1>10, <1>11, InvariantFrom

(***************************************************************************)
(* The objects of a create are new; what comes before another object stays *)
(* before it.                                                              *)
(***************************************************************************)
LEMMA StoreCreatedKeeps ==
  ASSUME HttpInv, NEW w \in Creator, StoreCreated(w)
  PROVE  HttpInv'
<1> DEFINE s == creates[w].scope
           new == Range(creates[w].ids)
<1>1. /\ creates \in [Creator -> Creation \union {NoCreate}]
      /\ logged \in [Scope -> 0 .. MaxObjects] /\ MaxObjects \in Nat
      /\ DOMAIN objects = Scope
  BY HttpAssumption DEF HttpInv, TypeOK, StoreOK, HttpAssumption
<1>2. creates[w] \in Creation /\ creates[w] # NoCreate /\ s \in Scope /\ new \subseteq Id
  <2>1. creates[w] # NoCreate
    BY DEF StoreCreated
  <2>2. creates[w] \in Creation
    BY <1>1, <2>1
  <2> QED BY <2>1, <2>2 DEF Creation, Range
<1>3. PICK bodies \in [new -> Body] :
          objects' = [objects EXCEPT ![s] =
              [i \in DOMAIN @ \union new |->
                  IF i \in new THEN jsonToStored(bodies[i]) ELSE @[i]]]
  BY DEF StoreCreated
<1>4. /\ logged' = [logged EXCEPT ![s] = Max({@} \union new)]
      /\ creates' = [creates EXCEPT ![w] = NoCreate]
      /\ UNCHANGED <<classes, counters, pager, raced>>
  BY DEF StoreCreated
<1> HIDE DEF new
<1>5. /\ DOMAIN objects' = Scope
      /\ \A x \in Scope \ {s} : objects'[x] = objects[x]
      /\ DOMAIN objects'[s] = DOMAIN objects[s] \union new
      /\ \A i \in DOMAIN objects[s] \ new : objects'[s][i] = objects[s][i]
      /\ \A i \in new : objects'[s][i] = jsonToStored(bodies[i]) /\ bodies[i] \in Body
  BY <1>1, <1>2, <1>3
<1> HIDE DEF s
<1>6. \A i \in new : Stored(objects'[s][i])
  <2>1. \A b \in Body : Stored(jsonToStored(b))
    BY RequestAssumption DEF RequestAssumption, jsonToStored, Stored
  <2> QED BY <1>5, <2>1
<1>7. StoreOK'
  <2> SUFFICES ASSUME NEW x \in Scope, NEW i \in DOMAIN objects'[x]
               PROVE  Stored(objects'[x][i])
    BY <1>5 DEF StoreOK, Stored
  <2>1. CASE x # s
    BY <1>5, <2>1 DEF HttpInv, StoreOK
  <2>2. CASE x = s /\ i \in new
    BY <1>6, <2>2
  <2>3. CASE x = s /\ i \notin new
    BY <1>2, <1>5, <2>3 DEF HttpInv, StoreOK
  <2> QED BY <2>1, <2>2, <2>3
<1>8. \A x \in Scope : DOMAIN objects'[x] \subseteq Id
  <2>1. \A x \in Scope : DOMAIN objects[x] \subseteq Id
    BY DEF HttpInv, TypeOK
  <2> QED BY <1>2, <1>5, <2>1
<1>9. logged' \in [Scope -> 0 .. MaxObjects]
  <2>1. {logged[s]} \union new \in SUBSET (0 .. MaxObjects) /\ {logged[s]} \union new # {}
    <3>1. logged[s] \in 0 .. MaxObjects
      BY <1>1, <1>2
    <3>2. new \subseteq 0 .. MaxObjects
      BY <1>1, <1>2 DEF Id
    <3> QED BY <3>1, <3>2
  <2>2. Max({logged[s]} \union new) \in 0 .. MaxObjects
    BY <1>1, <2>1, GreatestIs
  <2> QED BY <1>1, <1>2, <1>4, <2>2
<1>10. /\ creates' \in [Creator -> Creation \union {NoCreate}]
       /\ creates'[w] = NoCreate /\ \A v \in Creator \ {w} : creates'[v] = creates[v]
  BY <1>1, <1>4
<1>11. TypeOK'
  <2>1. \A x \in Scope : /\ DOMAIN objects'[x] \subseteq Id
                         /\ \A i \in DOMAIN objects'[x] : "id" \notin DOMAIN objects'[x][i]
    BY <1>7, <1>8 DEF StoreOK, Stored
  <2> QED BY <1>4, <1>9, <1>10, <2>1 DEF HttpInv, TypeOK
<1>12. PagerTypeOK'
  BY <1>4 DEF HttpInv, PagerTypeOK
<1>13. ASSUME IdsOK PROVE IdsOK' /\ (PagerOK => PagerOK')
  <2>1. \A i \in new : i <= counters[s] /\ i \notin DOMAIN objects[s]
    BY <1>2, <1>13 DEF IdsOK, IdsNew, new, s
  <2>2. IdsHanded'
    <3>1. \A x \in Scope : \A i \in DOMAIN objects[x] : i <= counters[x]
      BY <1>13 DEF IdsOK, IdsHanded
    <3>2. \A x \in Scope : \A i \in DOMAIN objects'[x] : i <= counters'[x]
      BY <1>4, <1>5, <2>1, <3>1
    <3> QED BY <3>2 DEF IdsHanded
  <2>3. IdsApart'
    <3>1. \A v \in Creator : creates'[v] # NoCreate => v # w /\ creates'[v] = creates[v]
      BY <1>10
    <3> QED BY <1>13, <3>1 DEF IdsOK, IdsApart
  <2>4. IdsNew'
    <3> SUFFICES ASSUME NEW v \in Creator, creates'[v] # NoCreate,
                        NEW j \in Range(creates'[v].ids)
                 PROVE  /\ j <= counters'[creates'[v].scope]
                        /\ j \notin DOMAIN objects'[creates'[v].scope]
      BY DEF IdsNew
    <3>1. v # w /\ creates'[v] = creates[v] /\ creates[v] # NoCreate
          /\ creates[v] \in Creation /\ creates[v].scope \in Scope
      <4>1. v # w /\ creates'[v] = creates[v] /\ creates[v] # NoCreate
        BY <1>10
      <4>2. creates[v] \in Creation
        BY <1>1, <4>1
      <4> QED BY <4>1, <4>2 DEF Creation
    <3>2. j <= counters[creates[v].scope] /\ j \notin DOMAIN objects[creates[v].scope]
      BY <1>13, <3>1 DEF IdsOK, IdsNew
    <3>3. creates[v].scope = s => j \notin new
      BY <1>2, <1>13, <3>1 DEF IdsOK, IdsApart, new, s
    <3> QED BY <1>4, <1>5, <3>1, <3>2, <3>3
  <2>5. PagerOK => PagerOK'
    <3>1. pager # NoPager => DOMAIN objects'[pager.scope] \subseteq Id /\ Grown(pager.scope)
      <4> SUFFICES ASSUME pager # NoPager
                   PROVE  DOMAIN objects'[pager.scope] \subseteq Id /\ Grown(pager.scope)
        OBVIOUS
      <4>1. pager.scope \in Scope
        BY DEF HttpInv, PagerTypeOK
      <4>2. \A i \in DOMAIN objects[s] : i \notin new
        BY <2>1
      <4>3. Grown(s)
        BY <1>5, <4>2 DEF Grown
      <4>4. pager.scope # s => Grown(pager.scope)
        BY <1>5, <4>1 DEF Grown
      <4> QED BY <1>8, <4>1, <4>3, <4>4
    <3> QED BY <1>4, <3>1, PagerStays DEF HttpInv
  <2> QED BY <2>2, <2>3, <2>4, <2>5 DEF IdsOK
<1>14. raced \/ (IdsOK /\ PagerOK)
  BY DEF HttpInv
<1>15. raced' \/ (IdsOK' /\ PagerOK')
  BY <1>4, <1>13, <1>14
<1> QED BY <1>7, <1>11, <1>12, <1>15 DEF HttpInv

(***************************************************************************)
(* The other routes of classes and objects.  A class is dropped when it    *)
(* has no object: while none of its creates has an id either, its counter  *)
(* may start again.                                                        *)
(***************************************************************************)
LEMMA ClassesKeep ==
  ASSUME HttpInv, NEW scope \in Scope,
         handleCreateClass(scope[1], scope[2]) \/ handleDeleteClass(scope)
  PROVE  HttpInv'
<1>1. UNCHANGED <<objects, creates, logged>>
  BY DEF handleCreateClass, handleDeleteClass
<1>2. StoreOK'
  BY <1>1 DEF HttpInv, StoreOK
<1>3. CASE handleCreateClass(scope[1], scope[2])
  <2>1. scope = <<scope[1], scope[2]>>
    BY DEF Scope
  <2>2. /\ classes' = classes \union {scope} /\ validName(scope[2]) /\ validProject(scope[1])
        /\ UNCHANGED <<counters, pager, raced>>
    BY <1>3, <2>1 DEF handleCreateClass
  <2>3. TypeOK'
    BY <1>1, <2>2 DEF HttpInv, TypeOK
  <2>4. PagerTypeOK' /\ (PagerOK => PagerOK')
    BY <1>1, <2>2, PagerElsewhere DEF HttpInv
  <2>5. IdsOK => IdsOK'
    BY <1>1, <2>2 DEF IdsOK, IdsNew, IdsApart, IdsHanded
  <2> QED BY <1>2, <2>2, <2>3, <2>4, <2>5, InvariantFrom
<1>4. CASE handleDeleteClass(scope)
  <2>1. /\ classes' = classes \ {scope} /\ objects[scope] = NoObjects
        /\ counters' = [counters EXCEPT ![scope] = 0]
        /\ Disturbs(scope) /\ Races(scope)
    BY <1>4 DEF handleDeleteClass
  <2>2. /\ counters' \in [Scope -> 0 .. MaxObjects] /\ counters'[scope] = 0
        /\ \A s \in Scope \ {scope} : counters'[s] = counters[s]
    BY <2>1, HttpAssumption DEF HttpInv, TypeOK, HttpAssumption
  <2>3. PagerTypeOK' /\ (PagerOK => PagerOK')
    BY <1>1, <2>1, DisturbedOrElsewhere DEF HttpInv
  <2>4. raced' \in BOOLEAN /\ (raced => raced')
    BY <2>1 DEF Races
  <2>5. TypeOK'
    <3>1. (Range(pager.got) \union pager.began \subseteq Id)'
      BY <2>3, PagerIds DEF PagerTypeOK
    <3> QED BY <1>1, <2>1, <2>2, <2>4, <3>1 DEF HttpInv, TypeOK
  <2>6. ASSUME ~raced', IdsOK PROVE IdsOK'
    <3>1. \A w \in Creator : creates[w].scope = scope => creates[w].ids = <<>>
      BY <2>1, <2>6 DEF Races
    <3>2. Range(<<>>) = {} /\ DOMAIN NoObjects = {}
      BY DEF Range, NoObjects
    <3>3. IdsHanded'
      BY <1>1, <2>1, <2>2, <2>6, <3>2 DEF IdsOK, IdsHanded
    <3>4. IdsApart'
      BY <1>1, <2>6 DEF IdsOK, IdsApart
    <3>5. ASSUME NEW w \in Creator, creates[w] # NoCreate, NEW i \in Range(creates[w].ids)
          PROVE  /\ i <= counters'[creates[w].scope]
                 /\ i \notin DOMAIN objects[creates[w].scope]
      <4>1. creates[w].scope \in Scope
        BY <3>5 DEF HttpInv, TypeOK, Creation
      <4>2. creates[w].scope # scope
        BY <3>1, <3>2, <3>5
      <4> QED BY <2>2, <2>6, <3>5, <4>1, <4>2 DEF IdsOK, IdsNew
    <3>6. IdsNew'
      BY <1>1, <3>5 DEF IdsNew
    <3> QED BY <3>3, <3>4, <3>6 DEF IdsOK
  <2> QED BY <1>2, <2>3, <2>4, <2>5, <2>6, InvariantFrom
<1> QED BY <1>3, <1>4

\* A put and a delete change what the class has, and end the following.
LEMMA ObjectsKeep ==
  ASSUME HttpInv, NEW scope \in Scope, NEW i \in Id,
         \/ handleDeleteObject(scope, i)
         \/ \E item \in Item : handlePutObject(scope, i, item)
  PROVE  HttpInv'
<1>1. /\ i \in DOMAIN objects[scope] /\ Disturbs(scope)
      /\ UNCHANGED <<classes, counters, creates, raced>>
  BY DEF handleDeleteObject, handlePutObject
<1>2. /\ DOMAIN objects' = Scope
      /\ \A s \in Scope \ {scope} : objects'[s] = objects[s]
      /\ DOMAIN objects'[scope] \subseteq DOMAIN objects[scope]
      /\ \A j \in DOMAIN objects'[scope] : Stored(objects'[scope][j])
  <2>0. /\ DOMAIN objects = Scope
        /\ \A j \in DOMAIN objects[scope] : Stored(objects[scope][j])
    BY DEF HttpInv, StoreOK
  <2>1. CASE handleDeleteObject(scope, i)
    BY <2>0, <2>1 DEF handleDeleteObject
  <2>2. ASSUME NEW item \in Item, handlePutObject(scope, i, item)
        PROVE  /\ DOMAIN objects' = Scope
               /\ \A s \in Scope \ {scope} : objects'[s] = objects[s]
               /\ DOMAIN objects'[scope] \subseteq DOMAIN objects[scope]
               /\ \A j \in DOMAIN objects'[scope] : Stored(objects'[scope][j])
    <3>1. item \in Body /\ objects' = [objects EXCEPT ![scope][i] = jsonToStored(item)]
      BY <2>2 DEF handlePutObject, Item
    <3>2. Stored(jsonToStored(item))
      BY <3>1, RequestAssumption DEF RequestAssumption, jsonToStored, Stored
    <3> QED BY <1>1, <2>0, <3>1, <3>2
  <2> QED BY <2>1, <2>2
<1>3. StoreOK'
  <2> SUFFICES ASSUME NEW s \in Scope, NEW j \in DOMAIN objects'[s]
               PROVE  Stored(objects'[s][j])
    BY <1>2 DEF StoreOK, Stored
  <2>1. CASE s = scope
    BY <1>2, <2>1
  <2>2. CASE s # scope
    BY <1>2, <2>2 DEF HttpInv, StoreOK
  <2> QED BY <2>1, <2>2
<1>4. \A s \in Scope : DOMAIN objects'[s] \subseteq DOMAIN objects[s]
  BY <1>2
<1>5. PagerTypeOK' /\ (PagerOK => PagerOK')
  BY <1>1, <1>2, DisturbedOrElsewhere DEF HttpInv
<1>6. logged' \in [Scope -> 0 .. MaxObjects]
  <2>1. logged \in [Scope -> 0 .. MaxObjects] /\ MaxObjects \in Nat
    BY HttpAssumption DEF HttpInv, TypeOK, HttpAssumption
  <2>2. CASE handleDeleteObject(scope, i)
    BY <2>1, <2>2 DEF handleDeleteObject
  <2>3. ASSUME logged' = [logged EXCEPT ![scope] = Max({@, i})]
        PROVE  logged' \in [Scope -> 0 .. MaxObjects]
    <3>1. logged[scope] \in 0 .. MaxObjects /\ i \in 0 .. MaxObjects
      BY <2>1 DEF Id
    <3>2. Max({logged[scope], i}) \in 0 .. MaxObjects
      BY <3>1, MaxOfTwo
    <3> QED BY <2>1, <2>3, <3>2
  <2> QED BY <2>2, <2>3 DEF handlePutObject
<1>7. TypeOK'
  <2>1. (Range(pager.got) \union pager.began \subseteq Id)'
    BY <1>5, PagerIds DEF PagerTypeOK
  <2>2. \A s \in Scope : /\ DOMAIN objects'[s] \subseteq Id
                         /\ \A j \in DOMAIN objects'[s] : "id" \notin DOMAIN objects'[s][j]
    BY <1>3, <1>4 DEF HttpInv, TypeOK, StoreOK, Stored
  <2> QED BY <1>1, <1>6, <2>1, <2>2 DEF HttpInv, TypeOK
<1>8. ASSUME IdsOK PROVE IdsOK'
  <2>1. IdsHanded'
    BY <1>1, <1>4, <1>8 DEF IdsOK, IdsHanded
  <2>2. IdsApart'
    BY <1>1, <1>8 DEF IdsOK, IdsApart
  <2>3. ASSUME NEW w \in Creator, creates[w] # NoCreate, NEW j \in Range(creates[w].ids)
        PROVE  /\ j <= counters[creates[w].scope]
               /\ j \notin DOMAIN objects'[creates[w].scope]
    <3>1. creates[w].scope \in Scope
      BY <2>3 DEF HttpInv, TypeOK, Creation
    <3> QED BY <1>4, <1>8, <2>3, <3>1 DEF IdsOK, IdsNew
  <2>4. IdsNew'
    BY <1>1, <2>3 DEF IdsNew
  <2> QED BY <2>1, <2>2, <2>4 DEF IdsOK
<1> QED BY <1>1, <1>3, <1>5, <1>7, <1>8, InvariantFrom

(***************************************************************************)
(* A checkpoint concerns what the next restart observes.                   *)
(***************************************************************************)
LEMMA CheckpointKeeps ==
  ASSUME HttpInv, Checkpoint
  PROVE  HttpInv'
<1>1. /\ logged' = [s \in Scope |-> 0]
      /\ UNCHANGED <<classes, objects, counters, creates, pager, raced>>
  BY DEF Checkpoint
<1>2. logged' \in [Scope -> 0 .. MaxObjects]
  BY <1>1, HttpAssumption DEF HttpAssumption
<1>3. TypeOK'
  BY <1>1, <1>2 DEF HttpInv, TypeOK
<1>4. StoreOK'
  BY <1>1 DEF HttpInv, StoreOK
<1>5. PagerTypeOK' /\ (PagerOK => PagerOK')
  BY <1>1, PagerElsewhere DEF HttpInv
<1>6. IdsOK => IdsOK'
  BY <1>1 DEF IdsOK, IdsNew, IdsApart, IdsHanded
<1> QED BY <1>1, <1>3, <1>4, <1>5, <1>6, InvariantFrom

\* A restart observes every object there is, and ends the creates.
LEMMA RestartKeeps ==
  ASSUME HttpInv, Restart
  PROVE  HttpInv'
<1>1. /\ counters' = [s \in Scope |-> Max({logged[s]} \union DOMAIN objects[s])]
      /\ creates' = [w \in Creator |-> NoCreate]
      /\ UNCHANGED <<classes, objects, logged, pager, raced>>
  BY DEF Restart
<1>2. ASSUME NEW s \in Scope
      PROVE  counters'[s] \in 0 .. MaxObjects /\ \A i \in DOMAIN objects[s] : i <= counters'[s]
  <2> DEFINE T == {logged[s]} \union DOMAIN objects[s]
  <2>1. MaxObjects \in Nat /\ logged[s] \in 0 .. MaxObjects
        /\ DOMAIN objects[s] \subseteq 1 .. MaxObjects
    BY HttpAssumption DEF HttpInv, TypeOK, Id, HttpAssumption
  <2>2. T \in SUBSET (0 .. MaxObjects) /\ T # {}
    BY <2>1
  <2>3. counters'[s] = Max(T) /\ DOMAIN objects[s] \subseteq T
    BY <1>1
  <2> HIDE DEF T
  <2> QED BY <2>1, <2>2, <2>3, GreatestIs
<1>3. counters' \in [Scope -> 0 .. MaxObjects]
  <2>1. counters' = [s \in Scope |-> counters'[s]]
    BY <1>1
  <2> QED BY <1>2, <2>1
<1>4. TypeOK'
  BY <1>1, <1>3 DEF HttpInv, TypeOK
<1>5. StoreOK'
  BY <1>1 DEF HttpInv, StoreOK
<1>6. PagerTypeOK' /\ (PagerOK => PagerOK')
  BY <1>1, PagerElsewhere DEF HttpInv
<1>7. IdsOK'
  <2>1. \A w \in Creator : creates'[w] = NoCreate
    BY <1>1
  <2> QED BY <1>1, <1>2, <2>1 DEF IdsOK, IdsNew, IdsApart, IdsHanded
<1> QED BY <1>1, <1>4, <1>5, <1>6, <1>7, InvariantFrom

-----------------------------------------------------------------------------
\* What two sequences have together.
LEMMA RangeOfConcat ==
  ASSUME NEW S, NEW s \in Seq(S), NEW t \in Seq(S)
  PROVE  Range(s \o t) = Range(s) \union Range(t)
<1> DEFINE u == s \o t
<1>1. /\ DOMAIN s = 1 .. Len(s) /\ DOMAIN t = 1 .. Len(t) /\ DOMAIN u = 1 .. Len(s) + Len(t)
      /\ Len(s) \in Nat /\ Len(t) \in Nat
      /\ \A k \in 1 .. Len(s) : u[k] = s[k]
      /\ \A k \in 1 .. Len(t) : u[Len(s) + k] = t[k]
  OBVIOUS
<1> HIDE DEF u
<1>2. ASSUME NEW y \in Range(u) PROVE y \in Range(s) \union Range(t)
  <2>1. PICK k \in 1 .. Len(s) + Len(t) : y = u[k]
    BY <1>1 DEF Range
  <2>2. CASE k <= Len(s)
    BY <1>1, <2>1, <2>2 DEF Range
  <2>3. CASE ~(k <= Len(s))
    <3>1. k - Len(s) \in 1 .. Len(t) /\ Len(s) + (k - Len(s)) = k
      BY <1>1, <2>3
    <3>2. y = t[k - Len(s)]
      BY <1>1, <2>1, <3>1
    <3> QED BY <1>1, <3>1, <3>2 DEF Range
  <2> QED BY <2>2, <2>3
<1>3. ASSUME NEW y \in Range(s) PROVE y \in Range(u)
  <2>1. PICK k \in 1 .. Len(s) : y = s[k]
    BY <1>1 DEF Range
  <2>2. k \in DOMAIN u /\ y = u[k]
    BY <1>1, <2>1
  <2> QED BY <2>2 DEF Range
<1>4. ASSUME NEW y \in Range(t) PROVE y \in Range(u)
  <2>1. PICK k \in 1 .. Len(t) : y = t[k]
    BY <1>1 DEF Range
  <2>2. Len(s) + k \in DOMAIN u /\ y = u[Len(s) + k]
    BY <1>1, <2>1
  <2> QED BY <2>2 DEF Range
<1> QED BY <1>2, <1>3, <1>4 DEF u

(***************************************************************************)
(* The client that pages.  What it skips it has, or has passed with as     *)
(* many ids before it; a page that is short is the last one.               *)
(***************************************************************************)
LEMMA ListKeeps ==
  ASSUME HttpInv, handleListObjects
  PROVE  PagerTypeOK' /\ (PagerOK => PagerOK')
<1> DEFINE F == Followed
           k == Len(pager.got)
           q == [pager.query EXCEPT !.offset = k]
           page == QueryObjects(objects[pager.scope], q)
           got == pager.got \o page
<1>1. /\ pager # NoPager
      /\ pager' = [pager EXCEPT !.got = got, !.done = (Len(page) < PageSize)]
      /\ UNCHANGED store
  BY DEF handleListObjects
<1>2. pager \in Pager /\ pager.scope \in Scope
  BY <1>1 DEF HttpInv, PagerTypeOK
<1>3. /\ pager.query \in Query /\ pager.got \in Seq(Id) /\ k \in Nat /\ k # Absent
      /\ MaxObjects \in Nat
  BY <1>2, HttpAssumption DEF Pager, HttpAssumption
<1>4. /\ q.filters = pager.query.filters /\ q.ci = pager.query.ci
      /\ q.limit = pager.query.limit /\ q.offset = k
  BY <1>3 DEF Query
<1>5. F \in SUBSET (1 .. MaxObjects)
  BY <1>2 DEF HttpInv, TypeOK, Followed, Matching, Id
<1>6. Matching(objects[pager.scope], q) = F
  BY <1>4 DEF Matching, Followed
<1> HIDE DEF F, q
<1>7. page = Page(Sorted(F), parseIntDefault(pager.query.limit, DefaultLimit), k)
  BY <1>3, <1>4, <1>6 DEF QueryObjects, parseIntDefault
<1> DEFINE limit == parseIntDefault(pager.query.limit, DefaultLimit)
<1>8. limit \in Int
  BY <1>3, HttpAssumption DEF Query, parseIntDefault, HttpAssumption
<1> HIDE DEF page, k
<1>9. page \in Seq(F)
  <2>1. Sorted(F) \in Seq(F)
    BY <1>3, <1>5, SortedIs
  <2>2. k \in Int /\ page = Page(Sorted(F), limit, k)
    BY <1>3, <1>7
  <2> HIDE DEF limit
  <2>3. Cut(F, Sorted(F), limit, k)
    BY <1>8, <2>1, <2>2, PageIs
  <2> QED BY <2>2, <2>3 DEF Cut
<1>10. /\ got \in Seq(Id) /\ Len(got) = k + Len(page) /\ Len(page) \in Nat
       /\ Range(got) = Range(pager.got) \union Range(page)
  <2>1. page \in Seq(Id)
    <3>1. F \subseteq Id
      BY <1>5 DEF Id
    <3> QED BY <1>9, <3>1
  <2>2. got \in Seq(Id) /\ Len(got) = k + Len(page) /\ Len(page) \in Nat
    BY <1>3, <2>1 DEF k
  <2>3. Range(got) = Range(pager.got) \union Range(page)
    BY <1>3, <2>1, RangeOfConcat
  <2> QED BY <2>2, <2>3
<1> HIDE DEF got
<1>11. pager' \in Pager
  <2>1. (Len(page) < PageSize) \in BOOLEAN
    OBVIOUS
  <2> QED BY <1>1, <1>2, <1>10, <2>1 DEF Pager
<1>12. /\ pager'.scope = pager.scope /\ pager'.query = pager.query
       /\ pager'.got = got /\ pager'.began = pager.began
       /\ pager'.done = (Len(page) < PageSize)
  BY <1>1, <1>2 DEF Pager
<1>13. PagerTypeOK'
  BY <1>2, <1>11, <1>12 DEF PagerTypeOK
<1>14. ASSUME PagerOK PROVE PagerOK'
  <2>1. /\ pager.query.limit = PageSize
        /\ \A x \in pager.began :
              x \in F /\ (x \in Range(pager.got) \/ Before(F, x) >= k)
    BY <1>1, <1>14 DEF PagerOK, F, k
  <2>2. PageSize \in Nat \ {0} /\ PageSize # Absent
    BY HttpAssumption DEF HttpAssumption
  <2>3. page = Page(Sorted(F), PageSize, k)
    BY <1>7, <2>1, <2>2 DEF parseIntDefault
  <2>4. \A x : x \in Range(page) <=> x \in F /\ Shows(F, PageSize, k, x)
    <3>1. PageSize \in Int /\ k \in Int
      BY <1>3, <2>2
    <3> QED BY <1>3, <1>5, <2>3, <3>1, PageHas
  <2>5. /\ \A x \in F : Before(F, x) >= k + PageSize => Len(page) = PageSize
        /\ Len(page) <= PageSize
    BY <1>3, <1>5, <2>2, <2>3, FullPage
  <2>6. ASSUME NEW x \in pager.began, x \notin Range(got)
        PROVE  x \in F /\ Before(F, x) >= k + PageSize
    <3>1. x \in F /\ Before(F, x) >= k
      BY <1>10, <2>1, <2>6
    <3>2. ~Shows(F, PageSize, k, x)
      BY <1>10, <2>4, <2>6, <3>1
    <3>3. Before(F, x) \in Nat
      BY <1>3, <1>5, BeforeGrows
    <3> QED BY <1>3, <2>2, <3>1, <3>2, <3>3 DEF Shows
  <2>7. Followed' = F
    BY <1>1, <1>12 DEF Followed, F, store, Matching
  <2>8. ASSUME NEW x \in pager.began
        PROVE  x \in F /\ (x \in Range(got) \/ Before(F, x) >= Len(got))
    <3>1. x \notin Range(got) => Before(F, x) >= Len(got)
      <4>1. Before(F, x) \in Nat
        BY <1>3, <1>5, BeforeGrows
      <4> QED BY <1>3, <1>10, <2>2, <2>5, <2>6, <4>1
    <3> QED BY <2>1, <3>1
  <2>9. Len(page) < PageSize => pager.began \subseteq Range(got)
    BY <2>2, <2>5, <2>6
  <2> QED BY <1>12, <2>1, <2>7, <2>8, <2>9 DEF PagerOK
<1> QED BY <1>13, <1>14

\* The client begins with nothing, and ends with all it began with.
LEMMA PagingKeeps ==
  ASSUME HttpInv, Paging
  PROVE  HttpInv'
<1>1. UNCHANGED store
  BY DEF Paging, StartPager, handleListObjects, StopPager
<1>2. StoreOK' /\ (IdsOK => IdsOK')
  BY <1>1 DEF HttpInv, StoreOK, IdsOK, IdsNew, IdsApart, IdsHanded, store
<1>3. PagerTypeOK' /\ (PagerOK => PagerOK')
  <2>1. ASSUME NEW scope \in Scope, NEW q \in Queries, StartPager(scope, q)
        PROVE  PagerTypeOK' /\ PagerOK'
    <3> DEFINE M == Matching(objects[scope], q)
    <3>1. /\ scope \in classes /\ q.limit = PageSize
          /\ pager' = [scope |-> scope, query |-> q, got |-> <<>>, began |-> M, done |-> FALSE]
      BY <2>1 DEF StartPager
    <3>2. M \in SUBSET Id
      BY DEF Matching, HttpInv, TypeOK
    <3>3. PagerTypeOK'
      BY <3>1, <3>2, RequestAssumption DEF PagerTypeOK, Pager, RequestAssumption
    <3>4. Followed' = M
      BY <1>1, <3>1 DEF Followed, Matching, store
    <3>5. \A x \in M : Before(M, x) >= 0
      <4>1. M \in SUBSET (1 .. MaxObjects) /\ MaxObjects \in Nat
        BY <3>2, HttpAssumption DEF Id, HttpAssumption
      <4> HIDE DEF M
      <4>2. \A x : Before(M, x) \in Nat
        BY <4>1, BeforeGrows
      <4> QED BY <4>2
    <3> HIDE DEF M
    <3>6. PagerOK'
      BY <3>1, <3>4, <3>5 DEF PagerOK
    <3> QED BY <3>3, <3>6
  <2>2. CASE StopPager
    BY <2>2, NotFollowed DEF StopPager
  <2> QED BY <2>1, <2>2, ListKeeps DEF Paging
<1>4. TypeOK'
  <2>1. (Range(pager.got) \union pager.began \subseteq Id)'
    BY <1>3, PagerIds DEF PagerTypeOK
  <2> QED BY <1>1, <2>1 DEF HttpInv, TypeOK, store
<1>5. raced' = raced
  BY <1>1 DEF store
<1> QED BY <1>2, <1>3, <1>4, <1>5, InvariantFrom

-----------------------------------------------------------------------------
(***************************************************************************)
(* The invariant, and its parts that the runs check.                       *)
(***************************************************************************)
LEMMA InitHolds == Init => HttpInv
<1> SUFFICES ASSUME Init PROVE HttpInv
  OBVIOUS
<1>1. PagerTypeOK /\ PagerOK
  BY DEF Init, NoPager, Pager, NoQuery, Query, PagerOK, PagerTypeOK
<1>2. Range(pager.got) \union pager.began = {}
  BY DEF Init, NoPager, Range
<1>3. \A s \in Scope : DOMAIN objects[s] = {}
  BY DEF Init, NoObjects
<1>4. counters \in [Scope -> 0 .. MaxObjects] /\ logged \in [Scope -> 0 .. MaxObjects]
  BY HttpAssumption DEF Init, HttpAssumption
<1>5. \A w \in Creator : creates[w] = NoCreate
  BY DEF Init
<1>6. creates \in [Creator -> Creation \union {NoCreate}] /\ raced \in BOOLEAN /\ classes = {}
  BY DEF Init
<1>7. TypeOK
  BY <1>2, <1>3, <1>4, <1>6 DEF TypeOK
<1>8. IdsOK
  BY <1>3, <1>5 DEF IdsOK, IdsNew, IdsApart, IdsHanded
<1>9. StoreOK
  BY <1>3 DEF Init, StoreOK
<1> QED BY <1>1, <1>7, <1>8, <1>9 DEF HttpInv

\* Every step of a request, page, checkpoint and restart keeps the invariant.
THEOREM Invariant == Spec => []HttpInv
<1>1. HttpInv /\ [Next]_vars => HttpInv'
  <2> SUFFICES ASSUME HttpInv, [Next]_vars PROVE HttpInv'
    OBVIOUS
  <2>1. ASSUME NEW scope \in Scope, Request(scope) PROVE HttpInv'
    BY <2>1, CreatesKeep, ClassesKeep, ObjectsKeep DEF Request
  <2>2. CASE Creating
    BY <2>2, TakeIdKeeps, StoreCreatedKeeps DEF Creating
  <2>3. CASE Paging
    BY <2>3, PagingKeeps
  <2>4. CASE Checkpoint
    BY <2>4, CheckpointKeeps
  <2>5. CASE Restart
    BY <2>5, RestartKeeps
  <2>6. CASE UNCHANGED vars
    <3>1. TypeOK' /\ StoreOK' /\ PagerTypeOK' /\ raced' = raced
      BY <2>6 DEF vars, store, HttpInv, TypeOK, StoreOK, PagerTypeOK
    <3>2. (IdsOK => IdsOK') /\ (PagerOK => PagerOK')
      BY <2>6 DEF vars, store, IdsOK, IdsNew, IdsApart, IdsHanded, PagerOK, Followed, Matching
    <3> QED BY <3>1, <3>2, InvariantFrom
  <2> QED BY <2>1, <2>2, <2>3, <2>4, <2>5, <2>6 DEF Next
<1> QED BY <1>1, InitHolds, PTL DEF Spec

(***************************************************************************)
(* The types, and the bound on ids, hold of every behaviour; what is       *)
(* stored never has a field id.                                            *)
(***************************************************************************)
THEOREM TypeCorrect == Spec => []TypeOK
<1>1. HttpInv => TypeOK
  BY DEF HttpInv
<1> QED BY <1>1, Invariant, PTL

(***************************************************************************)
(* No object has an id that a create was given and has not stored yet, and *)
(* no two creates have the same: idgen.Next hands out each id of a class   *)
(* once, whatever is deleted, checkpointed and restarted, until the class  *)
(* is dropped under a create that has an id.                               *)
(***************************************************************************)
THEOREM IdsAreNew == Spec => [](raced \/ (IdsNew /\ IdsApart))
<1>1. HttpInv => raced \/ (IdsNew /\ IdsApart)
  BY DEF HttpInv, IdsOK
<1> QED BY <1>1, Invariant, PTL

(***************************************************************************)
(* A client that pages through a class misses no object that was there     *)
(* when it began, in whatever order concurrent creates become visible,     *)
(* unless a class was dropped under a create that had an id.               *)
(***************************************************************************)
THEOREM PagesAreComplete == Spec => []PagesComplete
<1>1. HttpInv => PagesComplete
  <2> SUFFICES ASSUME HttpInv, ~raced, pager.done
               PROVE  pager.began \subseteq Range(pager.got)
    BY DEF PagesComplete
  <2>1. pager # NoPager
    BY DEF NoPager
  <2> QED BY <2>1 DEF HttpInv, PagerOK
<1> QED BY <1>1, Invariant, PTL

(***************************************************************************)
(* Every listing of every class has the objects that satisfy its filters,  *)
(* in the order of their ids, from its offset to its limit.                *)
(***************************************************************************)
THEOREM ListingsAreExact == Spec => []ListsExact
<1>1. HttpInv => ListsExact
  <2> SUFFICES ASSUME HttpInv, NEW s \in classes, NEW q \in Queries
               PROVE  LET page == QueryObjects(objects[s], q)
                      IN  /\ Range(page) = {i \in DOMAIN objects[s] :
                                                OnPage(objects[s], q, i)}
                          /\ \A n \in 1 .. Len(page) - 1 : page[n] < page[n + 1]
    BY DEF ListsExact
  <2> DEFINE c == objects[s]
             ids == Matching(c, q)
             limit == parseIntDefault(q.limit, DefaultLimit)
             offset == parseIntDefault(q.offset, 0)
             page == QueryObjects(c, q)
  <2>1. s \in Scope /\ MaxObjects \in Nat /\ q \in Query
    BY HttpAssumption, RequestAssumption DEF HttpInv, TypeOK, HttpAssumption, RequestAssumption
  <2>2. DOMAIN c \subseteq 1 .. MaxObjects /\ \A i \in DOMAIN c : Stored(c[i])
    BY <2>1 DEF HttpInv, TypeOK, StoreOK, Id
  <2> HIDE DEF c
  <2>3. \A i \in DOMAIN c : match(c[i], q.filters, q.ci) <=> Wanted(c[i], q)
    BY <2>1, <2>2, MatchIsWanted
  <2>4. ids = {i \in DOMAIN c : Wanted(c[i], q)}
    BY <2>3 DEF Matching
  <2>5. ids \in SUBSET (1 .. MaxObjects)
    BY <2>2, <2>4
  <2>6. limit \in Int /\ offset \in Int
    BY <2>1, HttpAssumption DEF Query, parseIntDefault, HttpAssumption
  <2>7. page = Page(Sorted(ids), limit, offset)
    BY DEF QueryObjects
  <2> HIDE DEF ids, limit, offset, page
  <2>8. /\ \A x : x \in Range(page) <=> x \in ids /\ Shows(ids, limit, offset, x)
        /\ \A k \in 1 .. Len(page) - 1 : page[k] < page[k + 1]
    BY <2>1, <2>5, <2>6, <2>7, PageHas
  <2>9. ASSUME NEW i \in DOMAIN c
        PROVE  OnPage(c, q, i) <=> i \in ids /\ Shows(ids, limit, offset, i)
    <3> DEFINE skipped == IF offset < 0 THEN 0 ELSE offset
    <3>1. {j \in DOMAIN c : j < i /\ Wanted(c[j], q)} = {j \in ids : j < i}
      BY <2>4
    <3>2. skipped = IF q.offset = Absent \/ q.offset < 0 THEN 0 ELSE q.offset
      BY DEF offset, parseIntDefault
    <3>3. limit = IF q.limit = Absent THEN DefaultLimit ELSE q.limit
      BY DEF limit, parseIntDefault
    <3>4. Wanted(c[i], q) <=> i \in ids
      BY <2>4
    <3> DEFINE k == Before(ids, i)
    <3>5. OnPage(c, q, i) <=>
             Wanted(c[i], q) /\ k >= skipped /\ (limit > 0 => k < skipped + limit)
      BY <3>1, <3>2, <3>3 DEF OnPage, Before
    <3> QED BY <3>4, <3>5 DEF Shows
  <2>10. ids \subseteq DOMAIN c
    BY <2>4
  <2>11. Range(page) = {i \in DOMAIN c : OnPage(c, q, i)}
    BY <2>8, <2>9, <2>10
  <2> QED BY <2>8, <2>11 DEF page, c
<1> QED BY <1>1, Invariant, PTL

=============================================================================
