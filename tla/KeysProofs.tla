----------------------------- MODULE KeysProofs -----------------------------
(***************************************************************************)
(* For any bytes and widths of ids: the order of keys is total, a scan's   *)
(* range is its prefix, and keys say what they are the keys of.            *)
(***************************************************************************)
EXTENDS Keys, FiniteSets, WellFoundedInduction, SequenceTheorems,
        FiniteSetTheorems, TLAPS

Bytes == Seq(0..(Base - 1))

-----------------------------------------------------------------------------
(***************************************************************************)
(* Numbers: the order of the natural numbers is well founded, so that what *)
(* fails somewhere fails at a first place.                                 *)
(***************************************************************************)
Before == {s \in Nat \X Nat : s[1] < s[2]}

\* A set of natural numbers that is not empty has a least one.
LEMMA Least ==
  ASSUME NEW S \in SUBSET Nat, S # {}
  PROVE  \E m \in S : \A y \in S : m <= y
<1>1. IsWellFoundedOn(Before, Nat)
  BY NatLessThanWellFounded DEF OpToRel, Before
<1>2. PICK m \in S : \A y \in S : <<y, m>> \notin Before
  BY <1>1, WFMin
<1>3. ASSUME NEW y \in S PROVE m <= y
  <2>1. y \in Nat /\ m \in Nat
    OBVIOUS
  <2>2. ~(y < m)
    BY <1>2, <2>1 DEF Before
  <2> QED BY <2>1, <2>2
<1> QED BY <1>3

\* Min finds it.
LEMMA MinIs ==
  ASSUME NEW S \in SUBSET Nat, S # {}
  PROVE  Min(S) \in S /\ \A y \in S : Min(S) <= y
<1>1. \E x \in S : \A y \in S : x <= y
  BY Least
<1> QED BY <1>1 DEF Min

\* A set of numbers up to n that is not empty has a greatest one: Max finds it.
LEMMA MaxIs ==
  ASSUME NEW n \in Nat, NEW S \in SUBSET (1..n), S # {}
  PROVE  Max(S) \in S /\ \A y \in S : y <= Max(S)
<1> DEFINE T == {n - i : i \in S}
<1>1. \A i \in S : n - i \in Nat
  OBVIOUS
<1>9. T \in SUBSET Nat /\ T # {}
  BY <1>1
<1> HIDE DEF T
<1>2. PICK m \in T : \A y \in T : m <= y
  BY <1>9, Least
<1> USE DEF T
<1>3. PICK x \in S : m = n - x
  BY <1>2
<1>4. ASSUME NEW y \in S PROVE x >= y
  <2>1. n - y \in T
    OBVIOUS
  <2>2. m <= n - y
    BY <1>2, <2>1
  <2> QED BY <1>3, <2>2
<1>5. \E z \in S : \A y \in S : z >= y
  BY <1>4
<1>6. Max(S) \in S /\ \A y \in S : Max(S) >= y
  BY <1>5 DEF Max
<1> QED BY <1>6

-----------------------------------------------------------------------------
(***************************************************************************)
(* The order of keys                                                       *)
(***************************************************************************)

\* The bytes of a key.
LEMMA BytesAre ==
  ASSUME NEW a \in Bytes
  PROVE  /\ Len(a) \in Nat /\ DOMAIN a = 1..Len(a)
         /\ \A i \in 1..Len(a) : a[i] \in 0..(Base - 1) /\ a[i] \in Nat
BY KeysAssumption DEF Bytes

\* Keys of one length and with the same bytes are equal.
LEMMA SameBytes ==
  ASSUME NEW a \in Bytes, NEW b \in Bytes, Len(a) = Len(b),
         \A i \in 1..Len(a) : a[i] = b[i]
  PROVE  a = b
BY DEF Bytes

\* Two keys agree up to the first byte that differs, or one is a prefix.
LEMMA FirstDifference ==
  ASSUME NEW a \in Bytes, NEW b \in Bytes
  PROVE  \/ \E i \in DOMAIN a \cap DOMAIN b :
              a[i] # b[i] /\ \A j \in 1..(i - 1) : a[j] = b[j]
         \/ Len(a) < Len(b) /\ \A j \in DOMAIN a : a[j] = b[j]
         \/ Len(b) < Len(a) /\ \A j \in DOMAIN b : a[j] = b[j]
         \/ a = b
<1> DEFINE D == {i \in DOMAIN a \cap DOMAIN b : a[i] # b[i]}
<1>1. /\ Len(a) \in Nat /\ DOMAIN a = 1..Len(a)
      /\ Len(b) \in Nat /\ DOMAIN b = 1..Len(b)
  BY BytesAre
<1>2. CASE D # {}
  <2>1. D \in SUBSET Nat
    BY <1>1
  <2>2. PICK i \in D : \A y \in D : i <= y
    <3> HIDE DEF D
    <3> QED BY <1>2, <2>1, Least
  <2>3. \A j \in 1..(i - 1) : a[j] = b[j]
    <3> SUFFICES ASSUME NEW j \in 1..(i - 1), a[j] # b[j] PROVE FALSE
      OBVIOUS
    <3>1. j \in D /\ ~(i <= j)
      BY <1>1, <2>1, <2>2
    <3> QED BY <2>2, <3>1
  <2> QED BY <2>3
<1>3. CASE D = {}
  <2>1. \A i \in DOMAIN a \cap DOMAIN b : a[i] = b[i]
    BY <1>3
  <2>2. CASE Len(a) < Len(b)
    BY <1>1, <2>1, <2>2
  <2>3. CASE Len(b) < Len(a)
    BY <1>1, <2>1, <2>3
  <2>4. CASE Len(a) = Len(b)
    BY <1>1, <2>1, <2>4, SameBytes
  <2> HIDE DEF D
  <2>5. Len(a) \in Nat /\ Len(b) \in Nat
    BY <1>1
  <2>6. Len(a) < Len(b) \/ Len(b) < Len(a) \/ Len(a) = Len(b)
    BY <2>5
  <2> QED BY <2>2, <2>3, <2>4, <2>6
<1> QED BY <1>2, <1>3

\* Of two different keys one is less.
LEMMA LessTotal ==
  ASSUME NEW a \in Bytes, NEW b \in Bytes
  PROVE  Less(a, b) \/ Less(b, a) \/ a = b
<1>1. /\ Len(a) \in Nat /\ DOMAIN a = 1..Len(a)
      /\ Len(b) \in Nat /\ DOMAIN b = 1..Len(b)
      /\ \A i \in 1..Len(a) : a[i] \in Nat
      /\ \A i \in 1..Len(b) : b[i] \in Nat
  BY BytesAre
<1>2. ASSUME NEW i \in DOMAIN a \cap DOMAIN b, a[i] # b[i],
             \A j \in 1..(i - 1) : a[j] = b[j]
      PROVE  Less(a, b) \/ Less(b, a)
  <2>1. a[i] < b[i] \/ b[i] < a[i]
    BY <1>1, <1>2
  <2> QED BY <1>2, <2>1 DEF Less
<1>3. ASSUME Len(a) < Len(b), \A j \in DOMAIN a : a[j] = b[j]
      PROVE  Less(a, b)
  BY <1>3 DEF Less
<1>4. ASSUME Len(b) < Len(a), \A j \in DOMAIN b : a[j] = b[j]
      PROVE  Less(b, a)
  BY <1>4 DEF Less
<1> QED BY <1>2, <1>3, <1>4, FirstDifference

\* No key is less than itself, or than one that is less than it.
LEMMA LessAsymmetric ==
  ASSUME NEW a \in Bytes, NEW b \in Bytes, Less(a, b)
  PROVE  ~Less(b, a) /\ a # b
<1>1. /\ Len(a) \in Nat /\ DOMAIN a = 1..Len(a)
      /\ Len(b) \in Nat /\ DOMAIN b = 1..Len(b)
      /\ \A i \in 1..Len(a) : a[i] \in Nat
      /\ \A i \in 1..Len(b) : b[i] \in Nat
  BY BytesAre
<1>2. CASE \E i \in DOMAIN a \cap DOMAIN b :
             a[i] < b[i] /\ \A j \in 1..(i - 1) : a[j] = b[j]
  <2>1. PICK i \in DOMAIN a \cap DOMAIN b :
               a[i] < b[i] /\ \A j \in 1..(i - 1) : a[j] = b[j]
    BY <1>2
  <2>2. i \in 1..Len(a) /\ i \in 1..Len(b) /\ a[i] \in Nat /\ b[i] \in Nat
    BY <1>1
  <2>3. ASSUME NEW k \in DOMAIN a \cap DOMAIN b, b[k] < a[k],
               \A j \in 1..(k - 1) : b[j] = a[j]
        PROVE  FALSE
    <3>1. k \in 1..Len(a) /\ a[k] \in Nat /\ b[k] \in Nat
      BY <1>1
    <3>2. k = i \/ k \in 1..(i - 1) \/ i \in 1..(k - 1)
      BY <2>2, <3>1
    <3> QED BY <2>1, <2>2, <2>3, <3>1, <3>2
  <2>4. ~(Len(b) < Len(a) /\ \A j \in DOMAIN b : b[j] = a[j])
    BY <1>1, <2>1, <2>2
  <2> QED BY <2>1, <2>2, <2>3, <2>4 DEF Less
<1>3. CASE Len(a) < Len(b) /\ \A j \in DOMAIN a : a[j] = b[j]
  <2>1. ASSUME NEW k \in DOMAIN b \cap DOMAIN a, b[k] < a[k]
        PROVE  FALSE
    <3>1. k \in 1..Len(a) /\ a[k] \in Nat /\ b[k] = a[k]
      BY <1>1, <1>3
    <3> QED BY <2>1, <3>1
  <2>2. ~(Len(b) < Len(a))
    BY <1>1, <1>3
  <2> QED BY <1>1, <1>3, <2>1, <2>2 DEF Less
<1> QED BY <1>2, <1>3 DEF Less

\* What is less than a less one is less.
LEMMA LessTransitive ==
  ASSUME NEW a \in Bytes, NEW b \in Bytes, NEW c \in Bytes,
         Less(a, b), Less(b, c)
  PROVE  Less(a, c)
<1>1. /\ Len(a) \in Nat /\ DOMAIN a = 1..Len(a)
      /\ Len(b) \in Nat /\ DOMAIN b = 1..Len(b)
      /\ Len(c) \in Nat /\ DOMAIN c = 1..Len(c)
      /\ \A i \in 1..Len(a) : a[i] \in Nat
      /\ \A i \in 1..Len(b) : b[i] \in Nat
      /\ \A i \in 1..Len(c) : c[i] \in Nat
  BY BytesAre
<1>2. ASSUME NEW i \in DOMAIN a \cap DOMAIN b, a[i] < b[i],
             \A j \in 1..(i - 1) : a[j] = b[j],
             NEW k \in DOMAIN b \cap DOMAIN c, b[k] < c[k],
             \A j \in 1..(k - 1) : b[j] = c[j]
      PROVE  Less(a, c)
  <2> DEFINE m == IF i <= k THEN i ELSE k
  <2>1. m \in DOMAIN a \cap DOMAIN c
    BY <1>1, <1>2
  <2>2. a[i] \in Nat /\ b[i] \in Nat /\ b[k] \in Nat /\ c[k] \in Nat
    BY <1>1
  <2>3. a[m] < c[m]
    <3>1. CASE i < k
      <4>1. i \in 1..(k - 1) /\ m = i
        BY <1>1, <3>1
      <4> QED BY <1>2, <4>1
    <3>2. CASE i = k
      BY <1>2, <2>2, <3>2
    <3>3. CASE k < i
      <4>1. k \in 1..(i - 1) /\ m = k
        BY <1>1, <3>3
      <4> QED BY <1>2, <4>1
    <3> QED BY <1>1, <3>1, <3>2, <3>3
  <2>4. \A j \in 1..(m - 1) : a[j] = c[j]
    <3> TAKE j \in 1..(m - 1)
    <3>1. j \in 1..(i - 1) /\ j \in 1..(k - 1)
      BY <1>1
    <3> QED BY <1>2, <3>1
  <2> HIDE DEF m
  <2> QED BY <2>1, <2>3, <2>4 DEF Less
<1>3. ASSUME NEW i \in DOMAIN a \cap DOMAIN b, a[i] < b[i],
             \A j \in 1..(i - 1) : a[j] = b[j],
             Len(b) < Len(c), \A j \in DOMAIN b : b[j] = c[j]
      PROVE  Less(a, c)
  <2>1. i \in DOMAIN a \cap DOMAIN c /\ a[i] < c[i]
    BY <1>1, <1>3
  <2>2. \A j \in 1..(i - 1) : a[j] = c[j]
    <3> TAKE j \in 1..(i - 1)
    <3>1. j \in DOMAIN b
      BY <1>1
    <3> QED BY <1>3, <3>1
  <2> QED BY <2>1, <2>2 DEF Less
<1>4. ASSUME Len(a) < Len(b), \A j \in DOMAIN a : a[j] = b[j],
             NEW k \in DOMAIN b \cap DOMAIN c, b[k] < c[k],
             \A j \in 1..(k - 1) : b[j] = c[j]
      PROVE  Less(a, c)
  <2>1. CASE k <= Len(a)
    <3>1. k \in DOMAIN a \cap DOMAIN c /\ a[k] < c[k]
      BY <1>1, <1>4, <2>1
    <3>2. \A j \in 1..(k - 1) : a[j] = c[j]
      BY <1>1, <1>4, <2>1
    <3> QED BY <3>1, <3>2 DEF Less
  <2>2. CASE Len(a) < k
    <3>1. Len(a) < Len(c)
      BY <1>1, <2>2
    <3>2. \A j \in DOMAIN a : a[j] = c[j]
      BY <1>1, <1>4, <2>2, SMTT(30)
    <3> QED BY <3>1, <3>2 DEF Less
  <2> QED BY <1>1, <2>1, <2>2
<1>5. ASSUME Len(a) < Len(b), \A j \in DOMAIN a : a[j] = b[j],
             Len(b) < Len(c), \A j \in DOMAIN b : b[j] = c[j]
      PROVE  Less(a, c)
  <2>1. Len(a) < Len(c) /\ \A j \in DOMAIN a : a[j] = c[j]
    BY <1>1, <1>5
  <2> QED BY <2>1 DEF Less
<1> QED BY <1>2, <1>3, <1>4, <1>5 DEF Less

\* The order of keys as a tree needs it: strict and total.
LEMMA LessOrders ==
  /\ \A a \in Bytes : ~Less(a, a)
  /\ \A a, b \in Bytes : Less(a, b) \/ Less(b, a) \/ a = b
  /\ \A a, b \in Bytes : Less(a, b) => ~Less(b, a)
  /\ \A a, b, c \in Bytes : Less(a, b) /\ Less(b, c) => Less(a, c)
BY LessTotal, LessAsymmetric, LessTransitive

\* Nothing is below the empty key, which stands for no bound.
LEMMA LessEmpty ==
  ASSUME NEW a \in Bytes
  PROVE  ~Less(a, <<>>)
<1>1. DOMAIN <<>> = {} /\ Len(<<>>) = 0 /\ Len(a) \in Nat
  BY BytesAre
<1> QED BY <1>1 DEF Less

\* An id without its last bytes is computed a byte at a time.
LEMMA ShiftedIs ==
  ASSUME NEW id \in Nat
  PROVE  /\ Shifted(id)[0] = id
         /\ \A n \in 1..IdBytes : Shifted(id)[n] = Shifted(id)[n - 1] \div Base
<1> DEFINE First == id
           Step(x, n) == x \div Base
           Rec(f, k) == [n \in 0..k |-> IF n = 0 THEN First ELSE Step(f[n - 1], n)]
           Bad == {k \in 0..IdBytes : ~\E f : f = Rec(f, k)}
           all == CHOOSE f : f = Rec(f, IdBytes)
<1>0. IdBytes \in Nat
  BY KeysAssumption
<1>1. Shifted(id) = all
  BY DEF Shifted
<1> HIDE DEF First, Step
<1>2. Bad = {}
  <2> SUFFICES ASSUME Bad # {} PROVE FALSE
    OBVIOUS
  <2>1. PICK k \in Bad : \A y \in Bad : k <= y
    <3>1. Bad \subseteq Nat
      OBVIOUS
    <3> HIDE DEF Bad
    <3> QED BY <3>1, Least
  <2>2. k \in 0..IdBytes /\ ~\E f : f = Rec(f, k)
    OBVIOUS
  <2>3. CASE k = 0
    <3> DEFINE f == [n \in 0..0 |-> First]
    <3>1. f = Rec(f, 0)
      OBVIOUS
    <3> QED BY <2>2, <2>3, <3>1
  <2>4. CASE k # 0
    <3>1. k - 1 \in 0..IdBytes /\ ~(k <= k - 1)
      BY <1>0, <2>2, <2>4
    <3>2. PICK f : f = Rec(f, k - 1)
      <4>1. k - 1 \notin Bad
        <5> HIDE DEF Bad
        <5> QED BY <2>1, <3>1
      <4> QED BY <3>1, <4>1
    <3> DEFINE g == [n \in 0..k |-> IF n = k THEN Step(f[k - 1], k) ELSE f[n]]
    <3>3. ASSUME NEW n \in 0..k
          PROVE  g[n] = IF n = 0 THEN First ELSE Step(g[n - 1], n)
      <4>1. n = k \/ n \in 0..(k - 1)
        BY <2>2
      <4>2. n # 0 => n - 1 \in 0..(k - 1) /\ n - 1 \in 0..k /\ n - 1 # k
        BY <2>2
      <4>3. n # 0 => g[n - 1] = f[n - 1]
        BY <4>2
      <4>4. n \in 0..(k - 1) => f[n] = IF n = 0 THEN First ELSE Step(f[n - 1], n)
        BY <3>2
      <4>5. g[n] = IF n = k THEN Step(f[k - 1], k) ELSE f[n]
        OBVIOUS
      <4> HIDE DEF g
      <4> QED BY <2>4, <4>1, <4>3, <4>4, <4>5
    <3>4. g = Rec(g, k)
      BY <3>3
    <3> HIDE DEF g
    <3> QED BY <2>2, <3>4
  <2> QED BY <2>3, <2>4
<1>3. \E f : f = Rec(f, IdBytes)
  BY <1>0, <1>2
<1>4. all = Rec(all, IdBytes)
  <2> HIDE DEF Rec
  <2> QED BY <1>3
<1>5. all[0] = First
  <2> HIDE DEF all
  <2> QED BY <1>0, <1>4
<1>6. ASSUME NEW n \in 1..IdBytes PROVE all[n] = Step(all[n - 1], n)
  <2>1. n \in 0..IdBytes /\ n # 0
    BY <1>0
  <2> HIDE DEF all
  <2> QED BY <1>4, <2>1
<1> HIDE DEF all
<1>7. QED BY <1>1, <1>5, <1>6 DEF First, Step

\* What the value of each prefix of bytes is.
Accumulates(bytes, f) ==
  /\ f[0] = 0
  /\ \A n \in 1..Len(bytes) : f[n] = f[n - 1] * Base + bytes[n]

\* The value of bytes is computed a byte at a time.
LEMMA ValueIs ==
  ASSUME NEW bytes \in Bytes
  PROVE  \E f : Accumulates(bytes, f) /\ Value(bytes) = f[Len(bytes)]
<1> DEFINE First == 0
           Step(x, n) == x * Base + bytes[n]
           Rec(f, k) == [n \in 0..k |-> IF n = 0 THEN First ELSE Step(f[n - 1], n)]
           Bad == {k \in 0..Len(bytes) : ~\E f : f = Rec(f, k)}
           all == CHOOSE f : f = Rec(f, Len(bytes))
<1>0. Len(bytes) \in Nat
  BY DEF Bytes
<1>1. Value(bytes) = all[Len(bytes)]
  BY DEF Value
<1> HIDE DEF First, Step
<1>2. Bad = {}
  <2> SUFFICES ASSUME Bad # {} PROVE FALSE
    OBVIOUS
  <2>1. PICK k \in Bad : \A y \in Bad : k <= y
    <3>1. Bad \subseteq Nat
      OBVIOUS
    <3> HIDE DEF Bad
    <3> QED BY <3>1, Least
  <2>2. k \in 0..Len(bytes) /\ ~\E f : f = Rec(f, k)
    OBVIOUS
  <2>3. CASE k = 0
    <3> DEFINE f == [n \in 0..0 |-> First]
    <3>1. f = Rec(f, 0)
      OBVIOUS
    <3> QED BY <2>2, <2>3, <3>1
  <2>4. CASE k # 0
    <3>1. k - 1 \in 0..Len(bytes) /\ ~(k <= k - 1)
      BY <1>0, <2>2, <2>4
    <3>2. PICK f : f = Rec(f, k - 1)
      <4>1. k - 1 \notin Bad
        <5> HIDE DEF Bad
        <5> QED BY <2>1, <3>1
      <4> QED BY <3>1, <4>1
    <3> DEFINE g == [n \in 0..k |-> IF n = k THEN Step(f[k - 1], k) ELSE f[n]]
    <3>3. ASSUME NEW n \in 0..k
          PROVE  g[n] = IF n = 0 THEN First ELSE Step(g[n - 1], n)
      <4>1. n = k \/ n \in 0..(k - 1)
        BY <2>2
      <4>2. n # 0 => n - 1 \in 0..(k - 1) /\ n - 1 \in 0..k /\ n - 1 # k
        BY <2>2
      <4>3. n # 0 => g[n - 1] = f[n - 1]
        BY <4>2
      <4>4. n \in 0..(k - 1) => f[n] = IF n = 0 THEN First ELSE Step(f[n - 1], n)
        BY <3>2
      <4>5. g[n] = IF n = k THEN Step(f[k - 1], k) ELSE f[n]
        OBVIOUS
      <4> HIDE DEF g
      <4> QED BY <2>4, <4>1, <4>3, <4>4, <4>5
    <3>4. g = Rec(g, k)
      BY <3>3
    <3> HIDE DEF g
    <3> QED BY <2>2, <3>4
  <2> QED BY <2>3, <2>4
<1>3. \E f : f = Rec(f, Len(bytes))
  BY <1>0, <1>2
<1>4. all = Rec(all, Len(bytes))
  <2> HIDE DEF Rec
  <2> QED BY <1>3
<1>5. all[0] = First
  <2> HIDE DEF all
  <2> QED BY <1>0, <1>4
<1>6. ASSUME NEW n \in 1..Len(bytes) PROVE all[n] = Step(all[n - 1], n)
  <2>1. n \in 0..Len(bytes) /\ n # 0
    BY <1>0
  <2> HIDE DEF all
  <2> QED BY <1>4, <2>1
<1> HIDE DEF all
<1>7. QED BY <1>1, <1>5, <1>6 DEF First, Step, Accumulates

\* Division by Base leaves a byte.
LEMMA DivisionIs ==
  ASSUME NEW x \in Nat
  PROVE  /\ x \div Base \in Nat /\ x % Base \in 0..(Base - 1)
         /\ (x \div Base) * Base + (x % Base) = x
<1>1. Base \in Nat /\ Base > 0
  BY KeysAssumption
<1>2. x \div Base \in Int /\ x % Base \in 0..(Base - 1)
  BY <1>1
<1>3. x = (x \div Base) * Base + (x % Base)
  BY <1>1, Z3
<1>5. x \div Base >= 0
  BY <1>1, SMTT(30)
<1> QED BY <1>1, <1>2, <1>3, <1>5

\* It keeps the order.
LEMMA DivisionKeepsOrder ==
  ASSUME NEW x \in Nat, NEW y \in Nat, x <= y
  PROVE  x \div Base <= y \div Base
<1>1. Base \in Nat /\ Base > 0
  BY KeysAssumption
<1> DEFINE p == x \div Base
           q == y \div Base
<1>2. /\ p \in Nat /\ x % Base \in 0..(Base - 1) /\ p * Base + (x % Base) = x
      /\ q \in Nat /\ y % Base \in 0..(Base - 1) /\ q * Base + (y % Base) = y
  BY DivisionIs
<1> SUFFICES ASSUME p > q PROVE FALSE
  BY <1>2
<1>3. \A d \in Nat : d >= 1 => d * Base >= Base
  BY <1>1, SMTT(30)
<1>4. (p - q) * Base >= Base
  BY <1>2, <1>3
<1>5. (p - q) * Base = p * Base - q * Base
  BY <1>1, <1>2, SMTT(30)
<1> QED BY <1>1, <1>2, <1>4, <1>5

LEMMA ShiftedNat ==
  ASSUME NEW id \in Nat
  PROVE  /\ Shifted(id)[0] = id
         /\ \A n \in 0..IdBytes : Shifted(id)[n] \in Nat
         /\ \A n \in 1..IdBytes : Shifted(id)[n] = Shifted(id)[n - 1] \div Base
<1> DEFINE s == Shifted(id)
           Bad == {n \in 0..IdBytes : s[n] \notin Nat}
<1>1. s[0] = id /\ \A n \in 1..IdBytes : s[n] = s[n - 1] \div Base
  BY ShiftedIs
<1> HIDE DEF s
<1>2. ASSUME Bad # {} PROVE FALSE
  <2>1. PICK n \in Bad : \A y \in Bad : n <= y
    <3>1. Bad \subseteq Nat
      BY KeysAssumption
    <3> HIDE DEF Bad
    <3> QED BY <1>2, <3>1, Least
  <2>2. n \in 0..IdBytes /\ s[n] \notin Nat /\ IdBytes \in Nat
    BY KeysAssumption
  <2>3. n # 0
    BY <1>1, <2>2
  <2>4. n - 1 \in 0..IdBytes /\ n \in 1..IdBytes /\ ~(n <= n - 1)
    BY <2>2, <2>3
  <2>5. s[n - 1] \in Nat
    BY <2>1, <2>4
  <2> QED BY <1>1, <2>2, <2>4, <2>5, DivisionIs
<1> QED BY <1>1, <1>2 DEF s

\* An id's bytes are bytes.
LEMMA BigEndianBytes ==
  ASSUME NEW id \in Nat
  PROVE  /\ BigEndian(id) \in Bytes /\ Len(BigEndian(id)) = IdBytes
         /\ \A i \in 1..IdBytes : BigEndian(id)[i] = Shifted(id)[IdBytes - i] % Base
<1>1. IdBytes \in Nat
  BY KeysAssumption
<1>2. ASSUME NEW i \in 1..IdBytes
      PROVE  Shifted(id)[IdBytes - i] % Base \in 0..(Base - 1)
  <2>1. IdBytes - i \in 0..IdBytes
    BY <1>1
  <2>2. Shifted(id)[IdBytes - i] \in Nat
    BY <2>1, ShiftedNat
  <2> QED BY <2>2, DivisionIs
<1> QED BY <1>1, <1>2 DEF BigEndian, Bytes

\* The bytes of an id have the id as their value.
LEMMA DecodesId ==
  ASSUME NEW id \in Ids
  PROVE  id \in Nat /\ Value(BigEndian(id)) = id
<1> DEFINE b == BigEndian(id)
           s == Shifted(id)
<1>1. id \in Nat /\ s[IdBytes] = 0 /\ IdBytes \in Nat
  BY KeysAssumption DEF Ids
<1>2. /\ s[0] = id
      /\ \A n \in 0..IdBytes : s[n] \in Nat
      /\ \A n \in 1..IdBytes : s[n] = s[n - 1] \div Base
  BY <1>1, ShiftedNat
<1>3. b \in Bytes /\ Len(b) = IdBytes /\ \A i \in 1..IdBytes : b[i] = s[IdBytes - i] % Base
  BY <1>1, BigEndianBytes
<1> HIDE DEF b, s
<1>4. PICK f : Accumulates(b, f) /\ Value(b) = f[Len(b)]
  BY <1>3, ValueIs
<1> DEFINE Bad == {n \in 0..IdBytes : f[n] # s[IdBytes - n]}
<1>5. ASSUME Bad # {} PROVE FALSE
  <2>1. PICK n \in Bad : \A y \in Bad : n <= y
    <3>1. Bad \subseteq Nat
      BY <1>1
    <3> HIDE DEF Bad
    <3> QED BY <1>5, <3>1, Least
  <2>2. n \in 0..IdBytes /\ f[n] # s[IdBytes - n]
    OBVIOUS
  <2>3. n # 0
    BY <1>1, <1>4, <2>2 DEF Accumulates
  <2>4. /\ n \in 1..IdBytes /\ n - 1 \in 0..IdBytes /\ ~(n <= n - 1)
        /\ IdBytes - n \in 0..IdBytes /\ IdBytes - n + 1 \in 1..IdBytes
        /\ (IdBytes - n + 1) - 1 = IdBytes - n /\ IdBytes - (n - 1) = IdBytes - n + 1
    BY <1>1, <2>2, <2>3
  <2>5. f[n - 1] = s[IdBytes - n + 1]
    BY <2>1, <2>4
  <2> DEFINE x == s[IdBytes - n]
  <2>6. x \in Nat /\ s[IdBytes - n + 1] = x \div Base /\ b[n] = x % Base
    BY <1>2, <1>3, <2>4
  <2>7. f[n] = f[n - 1] * Base + b[n]
    BY <1>3, <1>4, <2>4 DEF Accumulates
  <2>8. f[n] = (x \div Base) * Base + (x % Base)
    BY <2>5, <2>6, <2>7
  <2> HIDE DEF x
  <2>9. f[n] = x
    BY <2>6, <2>8, DivisionIs
  <2> QED BY <2>2, <2>9 DEF x
<1>6. IdBytes \in 0..IdBytes /\ IdBytes - IdBytes = 0
  BY <1>1
<1>7. f[IdBytes] = s[0]
  BY <1>5, <1>6
<1> QED BY <1>1, <1>2, <1>3, <1>4, <1>7 DEF b

\* A greater id has the greater bytes.
LEMMA IdOrder ==
  ASSUME NEW x \in Ids, NEW y \in Ids, x < y
  PROVE  Less(BigEndian(x), BigEndian(y))
<1> DEFINE a == BigEndian(x)
           b == BigEndian(y)
           s == Shifted(x)
           t == Shifted(y)
<1>0. IdBytes \in Nat /\ x \in Nat /\ y \in Nat
  BY KeysAssumption DEF Ids
<1>1. /\ s[0] = x /\ s[IdBytes] = 0
      /\ \A n \in 0..IdBytes : s[n] \in Nat
      /\ \A n \in 1..IdBytes : s[n] = s[n - 1] \div Base
      /\ t[0] = y /\ t[IdBytes] = 0
      /\ \A n \in 0..IdBytes : t[n] \in Nat
      /\ \A n \in 1..IdBytes : t[n] = t[n - 1] \div Base
  BY <1>0, ShiftedNat DEF Ids
<1>2. /\ a \in Bytes /\ Len(a) = IdBytes /\ \A i \in 1..IdBytes : a[i] = s[IdBytes - i] % Base
      /\ b \in Bytes /\ Len(b) = IdBytes /\ \A i \in 1..IdBytes : b[i] = t[IdBytes - i] % Base
  BY <1>0, BigEndianBytes
<1>3. a # b
  <2>1. Value(a) = x /\ Value(b) = y
    BY DecodesId
  <2> HIDE DEF a, b
  <2> QED BY <1>0, <2>1
<1> HIDE DEF a, b, s, t
\* The shifted ids are in the order of the ids.
<1>4. \A n \in 0..IdBytes : s[n] <= t[n]
  <2> DEFINE Bad == {n \in 0..IdBytes : ~(s[n] <= t[n])}
  <2> SUFFICES ASSUME Bad # {} PROVE FALSE
    OBVIOUS
  <2>1. PICK n \in Bad : \A z \in Bad : n <= z
    <3>1. Bad \subseteq Nat
      BY <1>0
    <3> HIDE DEF Bad
    <3> QED BY <3>1, Least
  <2>2. n \in 0..IdBytes /\ ~(s[n] <= t[n])
    OBVIOUS
  <2>3. n # 0
    BY <1>0, <1>1, <2>2
  <2>4. n \in 1..IdBytes /\ n - 1 \in 0..IdBytes /\ ~(n <= n - 1)
    BY <1>0, <2>2, <2>3
  <2>5. s[n - 1] <= t[n - 1] /\ s[n - 1] \in Nat /\ t[n - 1] \in Nat
    BY <1>1, <2>1, <2>4
  <2>6. s[n - 1] \div Base <= t[n - 1] \div Base
    BY <2>5, DivisionKeepsOrder
  <2> QED BY <1>1, <2>2, <2>4, <2>6
<1>5. ~Less(b, a)
  <2> SUFFICES ASSUME Less(b, a) PROVE FALSE
    OBVIOUS
  <2>0. DOMAIN a = 1..IdBytes /\ DOMAIN b = 1..IdBytes
    BY <1>2, BytesAre
  <2>1. PICK i \in 1..IdBytes : b[i] < a[i] /\ \A j \in 1..(i - 1) : b[j] = a[j]
    BY <1>0, <1>2, <2>0 DEF Less
  <2> DEFINE m == IdBytes - i
             Bad == {n \in (m + 1)..IdBytes : s[n] # t[n]}
  <2>2. m \in 0..IdBytes /\ m + 1 \in 1..IdBytes /\ IdBytes - i = m /\ (m + 1) - 1 = m
    BY <1>0
  \* The bytes in front are equal, and with them the numbers they stand for.
  <2>3. ASSUME Bad # {} PROVE FALSE
    <3>1. PICK n \in Bad : \A z \in Bad : n >= z
      <4>1. Bad \in SUBSET (1..IdBytes)
        BY <1>0, <2>2
      <4> HIDE DEF Bad
      <4>2. Max(Bad) \in Bad /\ \A z \in Bad : z <= Max(Bad)
        BY <1>0, <2>3, <4>1, MaxIs
      <4>3. \A z \in Bad : z \in Nat
        BY <1>0, <4>1
      <4> QED BY <4>2, <4>3
    <3>2. n \in (m + 1)..IdBytes /\ s[n] # t[n]
      OBVIOUS
    <3>3. n # IdBytes
      BY <1>1, <3>2
    <3>4. /\ n + 1 \in (m + 1)..IdBytes /\ ~(n >= n + 1) /\ n + 1 \in 1..IdBytes
          /\ (n + 1) - 1 = n /\ n \in 0..IdBytes
          /\ IdBytes - n \in 1..(i - 1) /\ IdBytes - n \in 1..IdBytes
          /\ IdBytes - (IdBytes - n) = n
      BY <1>0, <2>2, <3>2, <3>3
    <3>5. s[n + 1] = t[n + 1]
      BY <3>1, <3>4
    <3>6. s[n] % Base = t[n] % Base
      BY <1>2, <2>1, <3>4
    <3>7. s[n] \div Base = t[n] \div Base
      BY <1>1, <3>4, <3>5
    <3>8. /\ (s[n] \div Base) * Base + (s[n] % Base) = s[n]
          /\ (t[n] \div Base) * Base + (t[n] % Base) = t[n]
      BY <1>1, <3>4, DivisionIs
    <3> QED BY <3>2, <3>6, <3>7, <3>8
  <2>4. s[m + 1] = t[m + 1]
    BY <1>0, <2>2, <2>3
  <2>5. s[m] \div Base = t[m] \div Base
    BY <1>1, <2>2, <2>4
  <2>6. t[m] % Base < s[m] % Base
    BY <1>2, <2>1
  <2> DEFINE p == s[m]
             q == t[m]
             d == p \div Base
  <2>7. p \in Nat /\ q \in Nat /\ p <= q
    BY <1>1, <1>4, <2>2
  <2>8. /\ d \in Nat /\ p % Base \in 0..(Base - 1) /\ d * Base + (p % Base) = p
        /\ q % Base \in 0..(Base - 1) /\ (q \div Base) * Base + (q % Base) = q
    <3> HIDE DEF p, q
    <3> QED BY <2>7, DivisionIs
  <2>9. q \div Base = d /\ q % Base < p % Base
    BY <2>5, <2>6
  <2>10. Base \in Nat /\ d * Base \in Nat
    <3> HIDE DEF d
    <3> QED BY <2>8, KeysAssumption
  <2> HIDE DEF p, q, d, m, Bad
  <2> QED BY <2>7, <2>8, <2>9, <2>10
<1> QED BY <1>2, <1>3, <1>5, LessTotal DEF a, b

-----------------------------------------------------------------------------
(***************************************************************************)
(* How keys are put together, and taken apart                              *)
(***************************************************************************)

\* The bytes of two keys put together.
LEMMA JoinIs ==
  ASSUME NEW a \in Bytes, NEW b \in Bytes
  PROVE  /\ a \o b \in Bytes /\ Len(a \o b) = Len(a) + Len(b)
         /\ \A i \in 1..Len(a) : (a \o b)[i] = a[i]
         /\ \A i \in 1..Len(b) : (a \o b)[Len(a) + i] = b[i]
<1>1. /\ a \o b \in Bytes /\ Len(a \o b) = Len(a) + Len(b)
      /\ \A i \in 1..(Len(a) + Len(b)) :
           (a \o b)[i] = IF i <= Len(a) THEN a[i] ELSE b[i - Len(a)]
  BY ConcatProperties DEF Bytes
<1>2. Len(a) \in Nat /\ Len(b) \in Nat
  BY BytesAre
<1>3. ASSUME NEW i \in 1..Len(a) PROVE (a \o b)[i] = a[i]
  BY <1>1, <1>2
<1>4. ASSUME NEW i \in 1..Len(b) PROVE (a \o b)[Len(a) + i] = b[i]
  <2>1. /\ Len(a) + i \in 1..(Len(a) + Len(b)) /\ ~(Len(a) + i <= Len(a))
        /\ (Len(a) + i) - Len(a) = i
    BY <1>2
  <2> QED BY <1>1, <2>1
<1> QED BY <1>1, <1>3, <1>4

\* A common front does not matter to the order.
LEMMA LessBehind ==
  ASSUME NEW p \in Bytes, NEW a \in Bytes, NEW b \in Bytes, Less(a, b)
  PROVE  Less(p \o a, p \o b)
<1> DEFINE x == p \o a
           y == p \o b
           n == Len(p)
<1>1. /\ x \in Bytes /\ Len(x) = n + Len(a)
      /\ \A i \in 1..n : x[i] = p[i]
      /\ \A i \in 1..Len(a) : x[n + i] = a[i]
      /\ y \in Bytes /\ Len(y) = n + Len(b)
      /\ \A i \in 1..n : y[i] = p[i]
      /\ \A i \in 1..Len(b) : y[n + i] = b[i]
  BY JoinIs
<1>2. /\ n \in Nat /\ Len(a) \in Nat /\ Len(b) \in Nat
      /\ DOMAIN a = 1..Len(a) /\ DOMAIN b = 1..Len(b)
      /\ DOMAIN x = 1..Len(x) /\ DOMAIN y = 1..Len(y)
  BY <1>1, BytesAre
<1> HIDE DEF x, y, n
<1>3. CASE \E i \in DOMAIN a \cap DOMAIN b :
             a[i] < b[i] /\ \A j \in 1..(i - 1) : a[j] = b[j]
  <2>1. PICK i \in DOMAIN a \cap DOMAIN b :
               a[i] < b[i] /\ \A j \in 1..(i - 1) : a[j] = b[j]
    BY <1>3
  <2>2. n + i \in DOMAIN x \cap DOMAIN y /\ x[n + i] < y[n + i]
    BY <1>1, <1>2, <2>1
  <2>3. ASSUME NEW j \in 1..((n + i) - 1) PROVE x[j] = y[j]
    <3>1. CASE j <= n
      BY <1>1, <1>2, <3>1
    <3>2. CASE j > n
      <4>1. /\ j - n \in 1..(i - 1) /\ n + (j - n) = j
            /\ j - n \in 1..Len(a) /\ j - n \in 1..Len(b)
        BY <1>2, <3>2
      <4>2. x[n + (j - n)] = a[j - n] /\ y[n + (j - n)] = b[j - n]
        BY <1>1, <4>1
      <4> QED BY <2>1, <4>1, <4>2
    <3> QED BY <1>2, <3>1, <3>2
  <2> QED BY <2>2, <2>3 DEF Less, x, y
<1>4. CASE Len(a) < Len(b) /\ \A j \in DOMAIN a : a[j] = b[j]
  <2>1. Len(x) < Len(y)
    BY <1>1, <1>2, <1>4
  <2>2. ASSUME NEW j \in DOMAIN x PROVE x[j] = y[j]
    <3>1. CASE j <= n
      BY <1>1, <1>2, <3>1
    <3>2. CASE j > n
      <4>1. /\ j - n \in 1..Len(a) /\ n + (j - n) = j /\ j - n \in 1..Len(b)
        BY <1>1, <1>2, <1>4, <3>2
      <4> QED BY <1>1, <1>2, <1>4, <4>1
    <3> QED BY <1>1, <1>2, <3>1, <3>2
  <2> QED BY <2>1, <2>2 DEF Less, x, y
<1> QED BY <1>3, <1>4 DEF Less

\* The first place where a byte is a separator.
LEMMA FirstSeparator ==
  ASSUME NEW body \in Bytes, NEW n \in 1..Len(body), body[n] = keySep,
         \A i \in 1..(n - 1) : body[i] # keySep
  PROVE  SelectInSeq(body, LAMBDA b : b = keySep) = n
<1> DEFINE S == {i \in 1..Len(body) : body[i] = keySep}
<1>1. S \in SUBSET Nat /\ n \in S /\ Len(body) \in Nat
  BY BytesAre
<1>2. \A i \in S : n <= i
  BY <1>1
<1>3. SelectInSeq(body, LAMBDA b : b = keySep) = IF S # {} THEN Min(S) ELSE 0
  BY DEF SelectInSeq
<1> HIDE DEF S
<1>4. Min(S) \in S /\ \A i \in S : Min(S) <= i
  BY <1>1, MinIs
<1>5. Min(S) <= n /\ n <= Min(S) /\ Min(S) \in Nat /\ n \in Nat
  BY <1>1, <1>2, <1>4
<1> QED BY <1>1, <1>3, <1>5

\* Names and projects are bytes, none of them the separator.
LEMMA NamesAre ==
  /\ Projects \subseteq Bytes /\ Names \subseteq Projects
  /\ \A s \in Projects : \A i \in 1..Len(s) : s[i] # keySep
  /\ \A s \in Names : Len(s) \in Nat \ {0}
<1>1. Base \in Nat /\ Base > 2
  BY KeysAssumption
<1>2. 1..(Base - 1) \subseteq 0..(Base - 1)
  BY <1>1
<1>3. Seq(1..(Base - 1)) \subseteq Bytes
  <2> DEFINE A == 1..(Base - 1)
             B == 0..(Base - 1)
  <2> HIDE DEF A, B
  <2>1. A \subseteq B
    BY <1>2 DEF A, B
  <2>2. \A s \in Seq(A) : s \in Seq(B)
    BY <2>1, SeqMonotonic
  <2> QED BY <2>2 DEF A, B, Bytes
<1>4. \A s \in Projects : \A i \in 1..Len(s) : s[i] # keySep
  BY <1>1 DEF Projects, keySep
<1>5. \A s \in Names : Len(s) \in Nat \ {0}
  BY EmptySeq DEF Names
<1> QED BY <1>3, <1>4, <1>5 DEF Names, Projects

\* Scopes, and what is put behind them, are bytes.
LEMMA KeysAreBytes ==
  ASSUME NEW project \in Projects, NEW class \in Names
  PROVE  /\ <<keySep>> \in Bytes /\ <<nsClass>> \in Bytes /\ <<nsObject>> \in Bytes
         /\ Scope(project) \in Bytes
         /\ ClassKey(project, class) \in Bytes
         /\ ObjectPrefix(project, class) \in Bytes
         /\ \A id \in Ids : ObjectKey(project, class, id) \in Bytes
<1>1. <<keySep>> \in Bytes /\ <<nsClass>> \in Bytes /\ <<nsObject>> \in Bytes /\ <<>> \in Bytes
  <2>1. keySep \in 0..(Base - 1) /\ nsClass \in 0..(Base - 1) /\ nsObject \in 0..(Base - 1)
    BY KeysAssumption DEF keySep, nsClass, nsObject
  <2> QED BY <2>1 DEF Bytes
<1>2. project \in Bytes /\ class \in Bytes
  BY NamesAre
<1>3. Scope(project) \in Bytes
  BY <1>1, <1>2, JoinIs DEF Scope
<1>4. ClassKey(project, class) \in Bytes
  BY <1>1, <1>2, <1>3, JoinIs DEF ClassKey
<1>5. ObjectPrefix(project, class) \in Bytes
  BY <1>1, <1>2, <1>3, JoinIs DEF ObjectPrefix
<1>7. ASSUME NEW id \in Ids PROVE ObjectKey(project, class, id) \in Bytes
  <2>1. BigEndian(id) \in Bytes
    BY BigEndianBytes DEF Ids
  <2> QED BY <1>5, <2>1, JoinIs DEF ObjectKey
<1> QED BY <1>1, <1>3, <1>4, <1>5, <1>7

\* A scope and a class are told apart again.
LEMMA SplitsScope ==
  ASSUME NEW project \in Projects, NEW class \in Names
  PROVE  SplitScope(Scope(project) \o class) = [project |-> project, class |-> class]
<1> DEFINE body == Scope(project) \o class
           n == Len(project)
<1>1. /\ project \in Bytes /\ class \in Bytes /\ <<keySep>> \in Bytes
      /\ \A i \in 1..n : project[i] # keySep
      /\ \A i \in 1..Len(class) : class[i] # keySep
      /\ n \in Nat /\ Len(class) \in Nat /\ Len(<<keySep>>) = 1
  <2>1. <<keySep>> \in Bytes
    <3>1. keySep \in 0..(Base - 1)
      BY KeysAssumption DEF keySep
    <3> QED BY <3>1 DEF Bytes
  <2> QED BY <2>1, NamesAre, BytesAre
<1>2. SplitScope(body) =
        LET at == SelectInSeq(body, LAMBDA b : b = keySep)
        IN  IF at = 0 THEN [project |-> <<>>, class |-> body]
            ELSE [project |-> SubSeq(body, 1, at - 1),
                  class |-> SubSeq(body, at + 1, Len(body))]
  BY DEF SplitScope
<1>3. CASE project = <<>>
  <2>1. body = class
    BY <1>1, <1>3, ConcatEmptySeq DEF Scope, Bytes
  <2>2. SelectInSeq(class, LAMBDA b : b = keySep) = 0
    BY <1>1 DEF SelectInSeq
  <2> QED BY <1>2, <1>3, <2>1, <2>2
<1>4. CASE project # <<>>
  <2> DEFINE front == project \o <<keySep>>
  <2>1. /\ front \in Bytes /\ Len(front) = n + 1
        /\ \A i \in 1..n : front[i] = project[i]
        /\ front[n + 1] = keySep
    BY <1>1, JoinIs
  <2>2. body = front \o class
    BY <1>4 DEF Scope
  <2>3. /\ body \in Bytes /\ Len(body) = n + 1 + Len(class)
        /\ \A i \in 1..(n + 1) : body[i] = front[i]
        /\ \A i \in 1..Len(class) : body[n + 1 + i] = class[i]
    <3> HIDE DEF front, body
    <3>1. /\ body \in Bytes /\ Len(body) = Len(front) + Len(class)
          /\ \A i \in 1..Len(front) : body[i] = front[i]
          /\ \A i \in 1..Len(class) : body[Len(front) + i] = class[i]
      <4>1. front \in Bytes /\ class \in Bytes
        BY <1>1, <2>1
      <4> QED BY <2>2, <4>1, JoinIs
    <3> QED BY <2>1, <3>1
  <2> HIDE DEF front, body
  <2>4. SelectInSeq(body, LAMBDA b : b = keySep) = n + 1
    <3>1. n + 1 \in 1..Len(body) /\ body[n + 1] = keySep
      BY <1>1, <2>1, <2>3
    <3>2. \A i \in 1..((n + 1) - 1) : body[i] # keySep
      BY <1>1, <2>1, <2>3
    <3> QED BY <2>3, <3>1, <3>2, FirstSeparator
  <2>5. SubSeq(body, 1, (n + 1) - 1) = project
    <3>1. \A i \in 1..((n + 1) - 1) : body[i] \in 0..(Base - 1)
      BY <1>1, <2>3, BytesAre
    <3>2. /\ SubSeq(body, 1, (n + 1) - 1) \in Bytes
          /\ Len(SubSeq(body, 1, (n + 1) - 1)) = n
          /\ \A i \in 1..n : SubSeq(body, 1, (n + 1) - 1)[i] = body[i]
      BY <1>1, <3>1, SubSeqProperties DEF Bytes
    <3>3. \A i \in 1..n : body[i] = project[i]
      BY <1>1, <2>1, <2>3
    <3> QED BY <1>1, <3>2, <3>3, SameBytes
  <2>6. SubSeq(body, (n + 1) + 1, Len(body)) = class
    <3> DEFINE m == Len(class)
               t == SubSeq(body, (n + 1) + 1, Len(body))
    <3>1. \A i \in ((n + 1) + 1)..Len(body) : body[i] \in 0..(Base - 1)
      BY <1>1, <2>3, BytesAre
    <3>2. /\ t \in Bytes /\ Len(t) = m
          /\ \A i \in 1..m : t[i] = body[((n + 1) + 1) + i - 1]
      <4>1. (n + 1) + 1 \in Int /\ Len(body) \in Int
        BY <1>1, <2>3
      <4>2. /\ t \in Bytes
            /\ Len(t) = IF (n + 1) + 1 <= Len(body) THEN Len(body) - ((n + 1) + 1) + 1 ELSE 0
            /\ \A i \in 1..(Len(body) - ((n + 1) + 1) + 1) : t[i] = body[((n + 1) + 1) + i - 1]
        BY <3>1, <4>1, SubSeqProperties DEF Bytes
      <4>3. Len(body) - ((n + 1) + 1) + 1 = m
        BY <1>1, <2>3
      <4> QED BY <1>1, <2>3, <4>2, <4>3
    <3>3. \A i \in 1..m : t[i] = class[i]
      <4> TAKE i \in 1..m
      <4>1. ((n + 1) + 1) + i - 1 = n + 1 + i
        BY <1>1
      <4> QED BY <2>3, <3>2, <4>1
    <3> HIDE DEF t
    <3>4. t = class
      BY <1>1, <3>2, <3>3, SameBytes
    <3> QED BY <3>4 DEF t
  <2>7. n + 1 # 0
    BY <1>1
  <2> QED BY <1>2, <2>4, <2>5, <2>6, <2>7 DEF body
<1> QED BY <1>3, <1>4

\* A key of a class is told from an object's by its first byte, and decodes to its
\* project and class (record.go, DecodeClassKey), whatever their names.
THEOREM ClassKeysDecode ==
  ASSUME NEW project \in Projects, NEW class \in Names
  PROVE  /\ IsClassKey(ClassKey(project, class))
         /\ ~IsObjectKey(ClassKey(project, class))
         /\ DecodeClassKey(ClassKey(project, class)) = [project |-> project, class |-> class]
<1> DEFINE key == ClassKey(project, class)
           body == Scope(project) \o class
<1>1. /\ <<nsClass>> \in Bytes /\ Scope(project) \in Bytes /\ class \in Bytes
      /\ Len(<<nsClass>>) = 1 /\ <<nsClass>>[1] = nsClass
  BY KeysAreBytes, NamesAre
<1>2. body \in Bytes
  BY <1>1, JoinIs
<1> HIDE DEF body
<1>3. key = <<nsClass>> \o body
  <2>1. (<<nsClass>> \o Scope(project)) \o class = <<nsClass>> \o (Scope(project) \o class)
    BY <1>1, ConcatAssociative DEF Bytes
  <2> QED BY <2>1 DEF ClassKey, body
<1>4. /\ key \in Bytes /\ Len(key) = 1 + Len(body) /\ key[1] = nsClass
      /\ \A i \in 1..Len(body) : key[1 + i] = body[i]
  <2>1. /\ key \in Bytes /\ Len(key) = Len(<<nsClass>>) + Len(body)
        /\ \A i \in 1..Len(<<nsClass>>) : key[i] = <<nsClass>>[i]
        /\ \A i \in 1..Len(body) : key[Len(<<nsClass>>) + i] = body[i]
    <3> HIDE DEF key
    <3> QED BY <1>1, <1>2, <1>3, JoinIs
  <2> HIDE DEF key
  <2> QED BY <1>1, <2>1
<1> HIDE DEF key
<1>5. Len(body) \in Nat /\ Len(key) \in Nat
  BY <1>2, <1>4, BytesAre
<1>6. Tail(key) = body
  <2>1. key # <<>>
    BY <1>4, <1>5
  <2>2. Tail(key) \in Bytes /\ Len(Tail(key)) = Len(body)
        /\ \A i \in 1..Len(body) : Tail(key)[i] = key[i + 1]
    BY <1>4, <1>5, <2>1, HeadTailProperties DEF Bytes
  <2>3. \A i \in 1..Len(body) : Tail(key)[i] = body[i]
    <3> TAKE i \in 1..Len(body)
    <3>1. i + 1 = 1 + i
      BY <1>5
    <3> QED BY <1>4, <2>2, <3>1
  <2> QED BY <1>2, <2>2, <2>3, SameBytes
<1>7. DecodeClassKey(key) = [project |-> project, class |-> class]
  BY <1>6, SplitsScope DEF DecodeClassKey, body
<1> QED BY <1>4, <1>5, <1>7 DEF IsClassKey, IsObjectKey, key, nsClass, nsObject

\* What is left and right of a separator.
LEMMA AroundSeparator ==
  ASSUME NEW a \in Bytes, NEW b \in Bytes, NEW c \in Bytes, Len(a) = 1, Len(c) = 1
  PROVE  /\ (a \o b) \o c \in Bytes /\ Len((a \o b) \o c) = Len(b) + 2
         /\ ((a \o b) \o c)[1] = a[1]
         /\ ((a \o b) \o c)[Len(b) + 2] = c[1]
         /\ \A i \in 1..Len(b) : ((a \o b) \o c)[1 + i] = b[i]
<1> DEFINE ab == a \o b
           key == ab \o c
<1>1. /\ ab \in Bytes /\ Len(ab) = 1 + Len(b) /\ ab[1] = a[1]
      /\ \A i \in 1..Len(b) : ab[1 + i] = b[i]
  <2>1. /\ ab \in Bytes /\ Len(ab) = Len(a) + Len(b)
        /\ \A i \in 1..Len(a) : ab[i] = a[i]
        /\ \A i \in 1..Len(b) : ab[Len(a) + i] = b[i]
    BY JoinIs
  <2> HIDE DEF ab
  <2> QED BY <2>1
<1> HIDE DEF ab
<1>2. /\ key \in Bytes /\ Len(key) = Len(ab) + Len(c)
      /\ \A i \in 1..Len(ab) : key[i] = ab[i]
      /\ \A i \in 1..Len(c) : key[Len(ab) + i] = c[i]
  BY <1>1, JoinIs
<1>3. Len(b) \in Nat
  BY BytesAre
<1> HIDE DEF key
<1>4. Len(key) = Len(b) + 2 /\ key[1] = a[1] /\ key[Len(b) + 2] = c[1]
  BY <1>1, <1>2, <1>3
<1>5. \A i \in 1..Len(b) : key[1 + i] = b[i]
  <2> TAKE i \in 1..Len(b)
  <2>1. 1 + i \in 1..Len(ab)
    BY <1>1, <1>3
  <2> QED BY <1>1, <1>2, <2>1
<1> QED BY <1>2, <1>4, <1>5 DEF key, ab

\* A prefix of an object's keys: a byte, the scope and the class, a separator.
LEMMA ObjectPrefixIs ==
  ASSUME NEW project \in Projects, NEW class \in Names
  PROVE  LET prefix == ObjectPrefix(project, class)
             body == Scope(project) \o class
         IN  /\ prefix \in Bytes /\ body \in Bytes /\ Len(prefix) = Len(body) + 2
             /\ prefix[1] = nsObject /\ prefix[Len(prefix)] = keySep
             /\ \A i \in 1..Len(body) : prefix[1 + i] = body[i]
<1> DEFINE prefix == ObjectPrefix(project, class)
           body == Scope(project) \o class
<1>1. /\ <<nsObject>> \in Bytes /\ Scope(project) \in Bytes /\ class \in Bytes
      /\ <<keySep>> \in Bytes
      /\ Len(<<nsObject>>) = 1 /\ <<nsObject>>[1] = nsObject
      /\ Len(<<keySep>>) = 1 /\ <<keySep>>[1] = keySep
  BY KeysAreBytes, NamesAre
<1>2. body \in Bytes
  BY <1>1, JoinIs
<1>3. prefix = (<<nsObject>> \o body) \o <<keySep>>
  <2>1. (<<nsObject>> \o Scope(project)) \o class = <<nsObject>> \o (Scope(project) \o class)
    BY <1>1, ConcatAssociative DEF Bytes
  <2> QED BY <2>1 DEF ObjectPrefix
<1> HIDE DEF prefix, body
<1> DEFINE a == <<nsObject>>
           c == <<keySep>>
<1> HIDE DEF a, c
<1>4. /\ a \in Bytes /\ c \in Bytes /\ Len(a) = 1 /\ Len(c) = 1
      /\ a[1] = nsObject /\ c[1] = keySep /\ prefix = (a \o body) \o c
  BY <1>1, <1>3 DEF a, c
<1>5. /\ prefix \in Bytes /\ Len(prefix) = Len(body) + 2 /\ prefix[1] = a[1]
      /\ prefix[Len(body) + 2] = c[1]
      /\ \A i \in 1..Len(body) : prefix[1 + i] = body[i]
  <2>1. a \in Bytes /\ body \in Bytes /\ c \in Bytes /\ Len(a) = 1 /\ Len(c) = 1
    BY <1>2, <1>4
  <2>2. /\ (a \o body) \o c \in Bytes /\ Len((a \o body) \o c) = Len(body) + 2
        /\ ((a \o body) \o c)[1] = a[1]
        /\ ((a \o body) \o c)[Len(body) + 2] = c[1]
        /\ \A i \in 1..Len(body) : ((a \o body) \o c)[1 + i] = body[i]
    BY <2>1, AroundSeparator, ZenonT(40)
  <2> QED BY <1>4, <2>2
<1> QED BY <1>2, <1>4, <1>5 DEF prefix, body

\* A part of a key.
LEMMA PartIs ==
  ASSUME NEW key \in Bytes, NEW m \in Nat, NEW b \in Bytes,
         m + Len(b) <= Len(key), \A i \in 1..Len(b) : key[m + i] = b[i]
  PROVE  SubSeq(key, m + 1, m + Len(b)) = b
<1> DEFINE t == SubSeq(key, m + 1, m + Len(b))
           n == Len(b)
<1>1. /\ n \in Nat /\ Len(key) \in Nat
      /\ \A i \in 1..Len(key) : key[i] \in 0..(Base - 1)
  BY BytesAre
<1>2. \A i \in (m + 1)..(m + n) : key[i] \in 0..(Base - 1)
  BY <1>1
<1>3. m + 1 \in Int /\ m + n \in Int
  BY <1>1
<1>4. /\ t \in Seq(0..(Base - 1))
      /\ Len(t) = IF m + 1 <= m + n THEN (m + n) - (m + 1) + 1 ELSE 0
      /\ \A i \in 1..((m + n) - (m + 1) + 1) : t[i] = key[(m + 1) + i - 1]
  <2> HIDE DEF n
  <2>1. t = SubSeq(key, m + 1, m + n)
    BY DEF n
  <2> HIDE DEF t
  <2> QED BY <1>2, <1>3, <2>1, SubSeqProperties
<1>5. t \in Bytes
  BY <1>4 DEF Bytes
<1> HIDE DEF t
<1>6. Len(t) = n
  BY <1>1, <1>4
<1>7. \A i \in 1..n : t[i] = b[i]
  <2> TAKE i \in 1..n
  <2>1. i \in 1..((m + n) - (m + 1) + 1) /\ (m + 1) + i - 1 = m + i
    BY <1>1
  <2> QED BY <1>4, <2>1
<1>8. t = b
  BY <1>5, <1>6, <1>7, SameBytes
<1> QED BY <1>8 DEF t

\* A key of an object is told from a class's, and decodes to its project, class
\* and id (record.go, DecodeObjectKey), whatever bytes the id has.
THEOREM ObjectKeysDecode ==
  ASSUME NEW project \in Projects, NEW class \in Names, NEW id \in Ids
  PROVE  /\ IsObjectKey(ObjectKey(project, class, id))
         /\ ~IsClassKey(ObjectKey(project, class, id))
         /\ DecodeObjectKey(ObjectKey(project, class, id)) =
              [project |-> project, class |-> class, id |-> id]
<1> DEFINE prefix == ObjectPrefix(project, class)
           body == Scope(project) \o class
           b == BigEndian(id)
           key == prefix \o b
           n == Len(body)
<1>1. /\ prefix \in Bytes /\ body \in Bytes /\ Len(prefix) = n + 2
      /\ prefix[1] = nsObject /\ prefix[n + 2] = keySep
      /\ \A i \in 1..n : prefix[1 + i] = body[i]
  BY ObjectPrefixIs
<1>2. b \in Bytes /\ Len(b) = IdBytes /\ Value(b) = id /\ IdBytes \in Nat
  BY BigEndianBytes, DecodesId, KeysAssumption
<1>3. SplitScope(body) = [project |-> project, class |-> class]
  BY SplitsScope
<1>4. ObjectKey(project, class, id) = key
  BY DEF ObjectKey
<1> HIDE DEF prefix, body, b
<1>5. /\ key \in Bytes /\ Len(key) = n + 2 + IdBytes
      /\ \A i \in 1..(n + 2) : key[i] = prefix[i]
      /\ \A i \in 1..IdBytes : key[n + 2 + i] = b[i]
  <2>1. /\ key \in Bytes /\ Len(key) = Len(prefix) + Len(b)
        /\ \A i \in 1..Len(prefix) : key[i] = prefix[i]
        /\ \A i \in 1..Len(b) : key[Len(prefix) + i] = b[i]
    BY <1>1, <1>2, JoinIs
  <2> HIDE DEF key
  <2> QED BY <1>1, <1>2, <2>1
<1> HIDE DEF key
<1>6. n \in Nat
  BY <1>1, BytesAre
<1> HIDE DEF n
<1>7. Len(key) - IdBytes = n + 2
  BY <1>2, <1>5, <1>6
<1>8. key[1] = nsObject /\ key[n + 2] = keySep /\ \A i \in 1..n : key[1 + i] = body[i]
  <2>1. 1 \in 1..(n + 2) /\ n + 2 \in 1..(n + 2) /\ \A i \in 1..n : 1 + i \in 1..(n + 2)
    BY <1>6
  <2> QED BY <1>1, <1>5, <2>1
<1>9. SubSeq(key, 2, (n + 2) - 1) = body
  <2>1. 1 \in Nat /\ 1 + n <= Len(key) /\ Len(body) = n
    BY <1>2, <1>5, <1>6 DEF n
  <2>2. SubSeq(key, 1 + 1, 1 + Len(body)) = body
    BY <1>1, <1>5, <1>8, <2>1, PartIs
  <2>3. (n + 2) - 1 = 1 + n /\ 1 + 1 = 2
    BY <1>6
  <2> QED BY <2>1, <2>2, <2>3
<1>10. SubSeq(key, (n + 2) + 1, Len(key)) = b
  <2>1. n + 2 \in Nat /\ (n + 2) + Len(b) = Len(key) /\ Len(key) \in Nat
    BY <1>2, <1>5, <1>6
  <2> DEFINE m == n + 2
  <2>2. \A i \in 1..Len(b) : key[m + i] = b[i]
    BY <1>2, <1>5
  <2>3. m \in Nat /\ m + Len(b) <= Len(key)
    BY <2>1
  <2> HIDE DEF m
  <2>4. SubSeq(key, m + 1, m + Len(b)) = b
    BY <1>2, <1>5, <2>2, <2>3, PartIs
  <2> QED BY <2>1, <2>4 DEF m
<1>11. DecodeObjectKey(key) = [project |-> project, class |-> class, id |-> id]
  <2>1. DecodeObjectKey(key) =
          [project |-> SplitScope(SubSeq(key, 2, (Len(key) - IdBytes) - 1)).project,
           class |-> SplitScope(SubSeq(key, 2, (Len(key) - IdBytes) - 1)).class,
           id |-> Value(SubSeq(key, (Len(key) - IdBytes) + 1, Len(key)))]
    BY DEF DecodeObjectKey
  <2>2. SplitScope(SubSeq(key, 2, (Len(key) - IdBytes) - 1)) =
          [project |-> project, class |-> class]
    BY <1>3, <1>7, <1>9
  <2>3. Value(SubSeq(key, (Len(key) - IdBytes) + 1, Len(key))) = id
    BY <1>2, <1>7, <1>10
  <2> QED BY <2>1, <2>2, <2>3
<1>12. IsObjectKey(key)
  BY <1>2, <1>5, <1>6, <1>7, <1>8 DEF IsObjectKey
<1>13. ~IsClassKey(key)
  BY <1>8 DEF IsClassKey, nsClass, nsObject
<1> QED BY <1>4, <1>11, <1>12, <1>13

-----------------------------------------------------------------------------
(***************************************************************************)
(* The range of a scan                                                     *)
(***************************************************************************)

\* What a prefix says, byte by byte.
LEMMA PrefixIs ==
  ASSUME NEW p \in Bytes, NEW k \in Bytes
  PROVE  IsPrefix(p, k) <=> Len(p) <= Len(k) /\ \A i \in 1..Len(p) : p[i] = k[i]
<1>1. Len(p) \in Nat /\ Len(k) \in Nat
  BY BytesAre
<1>2. SubSeq(p, 1, Len(p)) = p
  BY SubSeqFull DEF Bytes
<1>3. ASSUME Len(p) <= Len(k)
      PROVE  /\ SubSeq(k, 1, Len(p)) \in Bytes /\ Len(SubSeq(k, 1, Len(p))) = Len(p)
             /\ \A i \in 1..Len(p) : SubSeq(k, 1, Len(p))[i] = k[i]
  <2> DEFINE n == Len(p)
  <2>1. \A i \in 1..n : k[i] \in 0..(Base - 1)
    BY <1>1, <1>3, BytesAre
  <2>2. n \in Nat /\ 1 \in Int /\ n \in Int
    BY <1>1
  <2> HIDE DEF n
  <2>3. /\ SubSeq(k, 1, n) \in Seq(0..(Base - 1))
        /\ Len(SubSeq(k, 1, n)) = IF 1 <= n THEN n - 1 + 1 ELSE 0
        /\ \A i \in 1..(n - 1 + 1) : SubSeq(k, 1, n)[i] = k[1 + i - 1]
    BY <2>1, <2>2, SubSeqProperties
  <2>4. Len(SubSeq(k, 1, n)) = n
    BY <2>2, <2>3
  <2>5. \A i \in 1..n : SubSeq(k, 1, n)[i] = k[i]
    <3> TAKE i \in 1..n
    <3>1. i \in 1..(n - 1 + 1) /\ 1 + i - 1 = i
      BY <2>2
    <3> QED BY <2>3, <3>1
  <2> QED BY <2>3, <2>4, <2>5 DEF Bytes, n
<1>4. ASSUME Len(p) <= Len(k), \A i \in 1..Len(p) : p[i] = k[i]
      PROVE  p = SubSeq(k, 1, Len(p))
  BY <1>3, <1>4, SameBytes
<1>5. ASSUME Len(p) <= Len(k), p = SubSeq(k, 1, Len(p))
      PROVE  \A i \in 1..Len(p) : p[i] = k[i]
  BY <1>3, <1>5
<1> QED BY <1>2, <1>4, <1>5 DEF IsPrefix

\* What has a prefix is not below it.
LEMMA PrefixBelow ==
  ASSUME NEW p \in Bytes, NEW k \in Bytes, IsPrefix(p, k)
  PROVE  ~Less(k, p)
<1>1. Len(p) <= Len(k) /\ \A i \in 1..Len(p) : p[i] = k[i]
  BY PrefixIs
<1>2. /\ Len(p) \in Nat /\ Len(k) \in Nat /\ DOMAIN p = 1..Len(p) /\ DOMAIN k = 1..Len(k)
      /\ \A i \in 1..Len(p) : p[i] \in Nat
  BY BytesAre
<1> QED BY <1>1, <1>2 DEF Less

\* The bytes of the bound above a prefix: it ends where the prefix has its last
\* byte that is not the highest.
LEMMA PrefixUpperIs ==
  ASSUME NEW p \in Bytes
  PROVE  \/ /\ PrefixUpper(p) = <<>>
            /\ \A i \in 1..Len(p) : p[i] = Base - 1
         \/ \E n \in 1..Len(p) :
              /\ PrefixUpper(p) \in Bytes /\ Len(PrefixUpper(p)) = n
              /\ \A i \in 1..(n - 1) : PrefixUpper(p)[i] = p[i]
              /\ PrefixUpper(p)[n] = p[n] + 1 /\ p[n] # Base - 1
              /\ \A i \in (n + 1)..Len(p) : p[i] = Base - 1
<1> DEFINE S == {i \in 1..Len(p) : p[i] # Base - 1}
           at == SelectLastInSeq(p, LAMBDA b : b # Base - 1)
<1>1. at = IF S # {} THEN Max(S) ELSE 0
  BY DEF SelectLastInSeq
<1>2. PrefixUpper(p) = IF at = 0 THEN <<>> ELSE Append(SubSeq(p, 1, at - 1), p[at] + 1)
  BY DEF PrefixUpper
<1>3. Len(p) \in Nat /\ \A i \in 1..Len(p) : p[i] \in 0..(Base - 1) /\ p[i] \in Nat
  BY BytesAre
<1> HIDE DEF at
<1>4. CASE S = {}
  BY <1>1, <1>2, <1>4
<1>5. CASE S # {}
  <2>1. S \in SUBSET (1..Len(p))
    OBVIOUS
  <2>2. at \in S /\ \A i \in S : i <= at
    <3> HIDE DEF S
    <3> QED BY <1>1, <1>3, <1>5, <2>1, MaxIs
  <2>3. at \in 1..Len(p) /\ p[at] # Base - 1
    BY <2>2
  <2>4. \A i \in (at + 1)..Len(p) : p[i] = Base - 1
    <3> TAKE i \in (at + 1)..Len(p)
    <3>1. i \in 1..Len(p) /\ ~(i <= at)
      BY <1>3, <2>3
    <3> QED BY <2>2, <3>1
  <2> DEFINE n == at - 1
             front == SubSeq(p, 1, n)
  <2>5. n \in Nat /\ at = n + 1 /\ n <= Len(p) /\ 1 \in Int /\ n \in Int
    BY <1>3, <2>3
  <2> HIDE DEF n
  <2>6. \A i \in 1..n : p[i] \in 0..(Base - 1)
    BY <1>3, <2>5
  <2>7. /\ front \in Seq(0..(Base - 1))
        /\ Len(front) = IF 1 <= n THEN n - 1 + 1 ELSE 0
        /\ \A i \in 1..(n - 1 + 1) : front[i] = p[1 + i - 1]
    BY <2>5, <2>6, SubSeqProperties
  <2> HIDE DEF front
  <2>8. Len(front) = n
    BY <2>5, <2>7
  <2>9. \A i \in 1..n : front[i] = p[i]
    <3> TAKE i \in 1..n
    <3>1. i \in 1..(n - 1 + 1) /\ 1 + i - 1 = i
      BY <2>5
    <3> QED BY <2>7, <3>1
  <2>10. PrefixUpper(p) = Append(front, p[at] + 1)
    BY <1>2, <2>3 DEF front, n
  <2>11. p[at] + 1 \in 0..(Base - 1)
    BY <1>3, <2>3, KeysAssumption
  <2>12. /\ PrefixUpper(p) \in Seq(0..(Base - 1)) /\ Len(PrefixUpper(p)) = n + 1
         /\ \A i \in 1..n : PrefixUpper(p)[i] = front[i]
         /\ PrefixUpper(p)[n + 1] = p[at] + 1
    BY <2>7, <2>8, <2>10, <2>11, AppendProperties
  <2>13. PrefixUpper(p) \in Bytes /\ Len(PrefixUpper(p)) = at /\ at - 1 = n
    BY <2>5, <2>12 DEF Bytes
  <2>14. /\ \A i \in 1..(at - 1) : PrefixUpper(p)[i] = p[i]
         /\ PrefixUpper(p)[at] = p[at] + 1
    BY <2>5, <2>9, <2>12, <2>13
  <2> QED BY <2>3, <2>4, <2>13, <2>14
<1> QED BY <1>4, <1>5

\* The keys between a prefix and its upper bound are those that have it
\* (split.go, prefixUpper): the bounds of a scan lose none and add none.
THEOREM PrefixRange ==
  ASSUME NEW p \in Bytes, NEW k \in Bytes
  PROVE  (~Less(k, p) /\ (PrefixUpper(p) = <<>> \/ Less(k, PrefixUpper(p))))
           <=> IsPrefix(p, k)
<1> DEFINE u == PrefixUpper(p)
<1>1. /\ Len(p) \in Nat /\ Len(k) \in Nat /\ DOMAIN p = 1..Len(p) /\ DOMAIN k = 1..Len(k)
      /\ \A i \in 1..Len(p) : p[i] \in Nat /\ p[i] \in 0..(Base - 1)
      /\ \A i \in 1..Len(k) : k[i] \in Nat /\ k[i] \in 0..(Base - 1)
      /\ Base \in Nat
  BY BytesAre, KeysAssumption
<1>2. \/ u = <<>> /\ \A i \in 1..Len(p) : p[i] = Base - 1
      \/ \E n \in 1..Len(p) :
           /\ u \in Bytes /\ Len(u) = n
           /\ \A i \in 1..(n - 1) : u[i] = p[i]
           /\ u[n] = p[n] + 1 /\ p[n] # Base - 1
           /\ \A i \in (n + 1)..Len(p) : p[i] = Base - 1
  BY PrefixUpperIs
<1> HIDE DEF u
<1>3. ASSUME IsPrefix(p, k) PROVE ~Less(k, p) /\ (u = <<>> \/ Less(k, u))
  <2>1. Len(p) <= Len(k) /\ \A i \in 1..Len(p) : p[i] = k[i]
    BY <1>3, PrefixIs
  <2>2. ASSUME NEW n \in 1..Len(p), u \in Bytes, Len(u) = n,
               \A i \in 1..(n - 1) : u[i] = p[i], u[n] = p[n] + 1
        PROVE  Less(k, u)
    <3>1. DOMAIN u = 1..n
      BY <2>2, BytesAre
    <3>2. n \in DOMAIN k \cap DOMAIN u /\ k[n] < u[n]
      BY <1>1, <2>1, <2>2, <3>1
    <3>3. \A i \in 1..(n - 1) : k[i] = u[i]
      <4> TAKE i \in 1..(n - 1)
      <4>1. i \in 1..Len(p)
        BY <1>1
      <4> QED BY <2>1, <2>2, <4>1
    <3> QED BY <3>2, <3>3 DEF Less
  <2> QED BY <1>2, <1>3, <2>2, PrefixBelow
<1>4. ASSUME ~Less(k, p), u = <<>> \/ Less(k, u) PROVE IsPrefix(p, k)
  <2>1. ASSUME NEW i \in DOMAIN k \cap DOMAIN p, k[i] # p[i],
               \A j \in 1..(i - 1) : k[j] = p[j]
        PROVE  FALSE
    <3>1. i \in 1..Len(k) /\ i \in 1..Len(p)
      BY <1>1
    <3>2. p[i] < k[i]
      <4>1. ~(k[i] < p[i])
        BY <1>4, <2>1 DEF Less
      <4> QED BY <1>1, <2>1, <3>1, <4>1
    <3>3. p[i] # Base - 1
      BY <1>1, <3>1, <3>2
    <3>4. PICK n \in 1..Len(p) :
            /\ u \in Bytes /\ Len(u) = n
            /\ \A j \in 1..(n - 1) : u[j] = p[j]
            /\ u[n] = p[n] + 1
            /\ \A j \in (n + 1)..Len(p) : p[j] = Base - 1
      BY <1>2, <3>1, <3>3
    <3>5. DOMAIN u = 1..n /\ Less(k, u)
      <4>1. Len(u) # 0
        BY <3>4
      <4>2. u # <<>>
        BY <4>1
      <4> QED BY <1>4, <3>4, <4>2, BytesAre
    <3>6. i <= n
      BY <1>1, <3>1, <3>3, <3>4
    <3>7. \A j \in 1..(i - 1) : u[j] = k[j]
      <4> TAKE j \in 1..(i - 1)
      <4>1. j \in 1..(n - 1)
        BY <1>1, <3>6
      <4> QED BY <2>1, <3>4, <4>1
    <3>8. CASE u[i] < k[i]
      <4>1. i \in DOMAIN u \cap DOMAIN k
        BY <1>1, <3>1, <3>5, <3>6
      <4>2. Less(u, k)
        BY <3>7, <3>8, <4>1 DEF Less
      <4> QED BY <3>4, <3>5, <4>2, LessAsymmetric
    <3>9. CASE ~(u[i] < k[i])
      <4>1. i = n
        <5> SUFFICES ASSUME i # n PROVE FALSE
          OBVIOUS
        <5>1. i \in 1..(n - 1)
          BY <1>1, <3>1, <3>6
        <5> QED BY <3>2, <3>4, <3>9, <5>1
      <4>2. u[n] = k[n]
        BY <1>1, <3>1, <3>2, <3>4, <3>9, <4>1
      <4>3. Len(u) <= Len(k) /\ \A j \in 1..Len(u) : u[j] = k[j]
        <5>1. n <= Len(k)
          BY <1>1, <3>1, <4>1
        <5>2. \A j \in 1..n : j = n \/ j \in 1..(i - 1)
          BY <4>1
        <5> QED BY <3>4, <3>7, <4>2, <5>1, <5>2
      <4>4. IsPrefix(u, k)
        BY <3>4, <4>3, PrefixIs
      <4> QED BY <3>4, <3>5, <4>4, PrefixBelow
    <3> QED BY <3>8, <3>9
  <2>2. ~(Len(k) < Len(p) /\ \A j \in DOMAIN k : k[j] = p[j])
    BY <1>4 DEF Less
  <2>3. CASE Len(p) < Len(k) /\ \A j \in DOMAIN p : k[j] = p[j]
    BY <1>1, <2>3, PrefixIs
  <2>4. CASE k = p
    BY <1>1, <2>4, PrefixIs
  <2> QED BY <2>1, <2>2, <2>3, <2>4, FirstDifference
<1> QED BY <1>3, <1>4 DEF u

\* Of finitely many keys one is the lowest.
LEMMA LowestExists ==
  ASSUME NEW S \in SUBSET Bytes, IsFiniteSet(S), S # {}
  PROVE  \E k \in S : \A j \in S : j = k \/ Less(k, j)
<1> DEFINE Good(T) == T # {} => \E k \in T : \A j \in T : j = k \/ Less(k, j)
           N == Cardinality(S)
           Bad == {n \in 0..N : \E T \in SUBSET S : IsFiniteSet(T) /\ Cardinality(T) = n /\ ~Good(T)}
<1>1. N \in Nat
  BY FS_CardinalityType
<1> SUFFICES ASSUME Bad # {} PROVE FALSE
  <2>1. N \in 0..N
    BY <1>1
  <2>2. N \notin Bad => Good(S)
    BY <2>1
  <2> QED BY <2>2
<1>2. PICK n \in Bad : \A m \in Bad : n <= m
  <2>1. Bad \subseteq Nat
    BY <1>1
  <2> HIDE DEF Bad
  <2> QED BY <2>1, Least
<1>3. PICK T \in SUBSET S : IsFiniteSet(T) /\ Cardinality(T) = n /\ ~Good(T)
  OBVIOUS
<1>4. PICK x \in T : TRUE
  BY <1>3
<1> DEFINE R == T \ {x}
<1>5. IsFiniteSet(R) /\ Cardinality(R) = n - 1 /\ R \in SUBSET S
  BY <1>3, <1>4, FS_RemoveElement
<1>6. n \in 0..N /\ n # 0
  <2>1. n \in 0..N
    OBVIOUS
  <2>2. T # {}
    BY <1>4
  <2> QED BY <1>3, <2>1, <2>2, FS_EmptySet
<1>7. Good(R)
  <2>1. n - 1 \in 0..N /\ ~(n <= n - 1)
    BY <1>1, <1>6
  <2>2. n - 1 \notin Bad
    <3> HIDE DEF Bad
    <3> QED BY <1>2, <2>1
  <2> QED BY <1>5, <2>1, <2>2
<1>8. CASE R = {}
  BY <1>3, <1>4, <1>8
<1>9. CASE R # {}
  <2>1. PICK k \in R : \A j \in R : j = k \/ Less(k, j)
    BY <1>7, <1>9
  <2>2. k \in Bytes /\ x \in Bytes /\ k # x /\ \A j \in R : j \in Bytes
    BY <1>3, <1>4
  <2>3. \A j \in T : j = x \/ j \in R
    OBVIOUS
  <2>4. CASE Less(k, x)
    BY <1>3, <1>4, <2>1, <2>2, <2>3, <2>4
  <2>5. CASE Less(x, k)
    <3>1. \A j \in R : Less(x, j)
      BY <2>1, <2>2, <2>5, LessTransitive
    <3> QED BY <1>3, <1>4, <2>3, <3>1
  <2> QED BY <2>2, <2>4, <2>5, LessTotal
<1> QED BY <1>8, <1>9

\* The objects of a class are side by side, behind its prefix, in the order of
\* their ids (record.go, the key layout: newest last).
THEOREM ObjectKeysInOrder ==
  ASSUME NEW project \in Projects, NEW class \in Names
  PROVE  /\ \A id \in Ids :
              IsPrefix(ObjectPrefix(project, class), ObjectKey(project, class, id))
         /\ \A x, y \in Ids :
              Less(ObjectKey(project, class, x), ObjectKey(project, class, y)) <=> x < y
<1> DEFINE p == ObjectPrefix(project, class)
           key(id) == ObjectKey(project, class, id)
           b(id) == BigEndian(id)
<1>1. p \in Bytes /\ \A id \in Ids : key(id) \in Bytes
  BY KeysAreBytes
<1>2. \A id \in Ids : id \in Nat /\ b(id) \in Bytes /\ key(id) = p \o b(id)
  BY BigEndianBytes DEF Ids, ObjectKey
<1>3. \A x, y \in Ids : x < y => Less(b(x), b(y))
  BY IdOrder
<1> HIDE DEF p, key, b
<1>4. ASSUME NEW id \in Ids PROVE IsPrefix(p, key(id))
  <2>1. /\ Len(p \o b(id)) = Len(p) + Len(b(id)) /\ Len(p) \in Nat /\ Len(b(id)) \in Nat
        /\ \A i \in 1..Len(p) : (p \o b(id))[i] = p[i]
    BY <1>1, <1>2, JoinIs, BytesAre
  <2>2. Len(p) <= Len(key(id)) /\ \A i \in 1..Len(p) : p[i] = key(id)[i]
    BY <1>2, <2>1
  <2> QED BY <1>1, <2>2, PrefixIs
<1>5. ASSUME NEW x \in Ids, NEW y \in Ids, x < y PROVE Less(key(x), key(y))
  <2>1. Less(b(x), b(y))
    BY <1>3, <1>5
  <2>2. Less(p \o b(x), p \o b(y))
    BY <1>1, <1>2, <2>1, LessBehind
  <2> QED BY <1>2, <2>2
<1>6. ASSUME NEW x \in Ids, NEW y \in Ids, Less(key(x), key(y)) PROVE x < y
  <2>1. ~Less(key(y), key(x)) /\ key(x) # key(y)
    BY <1>1, <1>6, LessAsymmetric
  <2>2. x # y /\ ~(y < x)
    BY <1>5, <2>1
  <2> QED BY <1>2, <2>2
<1>7. \A x, y \in Ids : Less(key(x), key(y)) <=> x < y
  BY <1>5, <1>6
<1> QED BY <1>4, <1>7 DEF p, key

=============================================================================
