----------------------------- MODULE BTreeProofs -----------------------------
(***************************************************************************)
(* For any objects, values and batches: what the pages of a tree hold, and *)
(* that no operation changes it.  Every page is given a record of what its *)
(* subtree should hold, damaged or not: a map from keys to values, and the *)
(* keys that occur in it (the map's, and the separators, which may outlive *)
(* theirs).  A page that is not damaged agrees with its record; a node     *)
(* made from a record's changes agrees with the changed record, and so     *)
(* does each half of a split; a lookup and a scan read the record.         *)
(***************************************************************************)
EXTENDS BTree, KeysProofs

-----------------------------------------------------------------------------
(***************************************************************************)
(* What pages are, and what they hold                                      *)
(***************************************************************************)
Entry == [key : TreeKeys, inline : Values \cup {NoValue},
          head : Nat \cup {InvalidPageID}]

LeafPages == [kind : {"leaf"}, entries : Seq(Entry)]
InternalPages ==
  [kind : {"internal"}, keys : Seq(TreeKeys), children : Seq(Nat)]
OverflowPages ==
  [kind : {"overflow"}, chunk : Values \X Nat, next : Nat \cup {InvalidPageID}]
Page == LeafPages \cup InternalPages \cup OverflowPages \cup {Damaged}

\* A record of what a subtree holds.
IsRecord(h) ==
  /\ h.marks \subseteq TreeKeys
  /\ DOMAIN h.map \subseteq h.marks
  /\ \A k \in DOMAIN h.map : h.map[k] \in Values
  /\ h.map = [k \in DOMAIN h.map |-> h.map[k]]

\* An entry of a page p has the value v, inline or in a chain before p.
EntryHolds(file, p, e, v) ==
  /\ e \in Entry /\ v \in Values
  /\ \/ e.head = InvalidPageID /\ e.inline = v /\ v.len <= MaxInline
     \/ /\ e.head \in 1..(p - 1) /\ e.head + Parts(v) <= p
        /\ \A i \in 1..Parts(v) : file[e.head + i - 1] = Overflow(v, e.head)[i]

\* A leaf's entries are ascending, and are those of the record's map.
LeafHolds(file, p, n, h) ==
  /\ n \in LeafPages
  /\ \A i, j \in DOMAIN n.entries : i < j => Less(n.entries[i].key, n.entries[j].key)
  /\ \A i \in DOMAIN n.entries :
       /\ n.entries[i].key \in DOMAIN h.map
       /\ EntryHolds(file, p, n.entries[i], h.map[n.entries[i].key])
  /\ \A k \in DOMAIN h.map : \E i \in DOMAIN n.entries : n.entries[i].key = k

\* The i-th child of n may have k, or may have it as a separator.
Belongs(n, i, k) ==
  \A j \in DOMAIN n.keys : IF j < i THEN ~Less(k, n.keys[j]) ELSE Less(k, n.keys[j])
Between(n, i, k) ==
  \A j \in DOMAIN n.keys : IF j < i THEN ~Less(k, n.keys[j]) ELSE ~Less(n.keys[j], k)

\* A child, and its part of the record.
ChildHolds(file, p, n, h, g, i) ==
  LET c == n.children[i]
  IN  /\ c \in 1..(p - 1) /\ file[c].kind # "overflow"
      /\ g[c].marks \subseteq h.marks
      /\ \A k \in g[c].marks : Between(n, i, k)
      /\ \A k \in DOMAIN g[c].map :
           Belongs(n, i, k) /\ k \in DOMAIN h.map /\ h.map[k] = g[c].map[k]

\* An internal node's children are before it, and share its map by the
\* separators, which are in order (two may be equal).
InternalHolds(file, p, n, h, g) ==
  /\ n \in InternalPages /\ Len(n.children) = Len(n.keys) + 1
  /\ \A i \in DOMAIN n.keys : n.keys[i] \in h.marks
  /\ \A i, j \in DOMAIN n.keys : i < j => ~Less(n.keys[j], n.keys[i])
  /\ \A i \in DOMAIN n.children : ChildHolds(file, p, n, h, g, i)
  /\ \A k \in DOMAIN h.map :
       \E i \in DOMAIN n.children : k \in DOMAIN g[n.children[i]].map

NodeHolds(file, p, n, h, g) ==
  /\ IsRecord(h)
  /\ LeafHolds(file, p, n, h) \/ InternalHolds(file, p, n, h, g)

\* The pages of a file agree with their records.
FileHolds(file, g) ==
  /\ file \in Seq(Page)
  /\ \A p \in 1..Len(file) :
       /\ IsRecord(g[p])
       /\ file[p].kind = "leaf" => LeafHolds(file, p, file[p], g[p])
       /\ file[p].kind = "internal" => InternalHolds(file, p, file[p], g[p], g)
       /\ file[p].kind = "overflow" => file[p].next \in 1..Len(file) \cup {InvalidPageID}

\* A later file has the earlier one's pages in front, and their records.
Extends(file, g, later, l) ==
  /\ later \in Seq(Page) /\ Len(file) <= Len(later)
  /\ \A p \in 1..Len(file) : later[p] = file[p] /\ l[p] = g[p]

\* The records of a file with a page more.
Put(g, n, h) == [p \in 1..(n + 1) |-> IF p = n + 1 THEN h ELSE g[p]]

\* A record with a key more, with a key less, and its parts around a separator.
Updated(h, k, v) == [map |-> With(h.map, k, v), marks |-> h.marks \cup {k}]
Emptied(h, k) == [map |-> Without(h.map, k), marks |-> h.marks]
Below(h, s) ==
  [map |-> Restrict(h.map, {k \in DOMAIN h.map : Less(k, s)}),
   marks |-> {k \in h.marks : ~Less(s, k)}]
Above(h, s) ==
  [map |-> Restrict(h.map, {k \in DOMAIN h.map : ~Less(k, s)}),
   marks |-> {k \in h.marks : ~Less(k, s)}]

-----------------------------------------------------------------------------
(***************************************************************************)
(* Maps                                                                    *)
(***************************************************************************)

\* The tree's keys are bytes.
LEMMA TreeKeysAre == TreeKeys \subseteq Bytes
<1>1. \A o \in Objects : o.project \in Projects /\ o.class \in Names /\ o.id \in Ids
  BY BTreeAssumption
<1>2. \A o \in Objects : KeyOfObject(o) \in Bytes
  BY <1>1, KeysAreBytes DEF KeyOfObject
<1>3. \A c \in Classes : KeyOfClass(c) \in Bytes
  BY <1>1, KeysAreBytes DEF KeyOfClass, Classes, ClassOf
<1> QED BY <1>2, <1>3 DEF TreeKeys

\* The order of the tree's keys.
LEMMA KeyOrder ==
  /\ \A a \in TreeKeys : ~Less(a, a)
  /\ \A a, b \in TreeKeys : Less(a, b) \/ Less(b, a) \/ a = b
  /\ \A a, b \in TreeKeys : Less(a, b) => ~Less(b, a)
  /\ \A a, b, c \in TreeKeys : Less(a, b) /\ Less(b, c) => Less(a, c)
  /\ \A a, b, c \in TreeKeys : ~Less(b, a) /\ Less(b, c) => Less(a, c)
  /\ \A a, b, c \in TreeKeys : Less(a, b) /\ ~Less(c, b) => Less(a, c)
  /\ \A a, b, c \in TreeKeys : ~Less(b, a) /\ ~Less(c, b) => ~Less(c, a)
BY TreeKeysAre, LessOrders

\* The records that come of a record.
LEMMA RecordsAre ==
  ASSUME NEW h, IsRecord(h), NEW k \in TreeKeys
  PROVE  /\ \A v \in Values : IsRecord(Updated(h, k, v))
         /\ IsRecord(Emptied(h, k)) /\ IsRecord(Below(h, k)) /\ IsRecord(Above(h, k))
<1>1. \A v \in Values : IsRecord(Updated(h, k, v))
  BY DEF IsRecord, Updated, With
<1>2. IsRecord(Emptied(h, k))
  BY DEF IsRecord, Emptied, Without, Restrict
<1>3. IsRecord(Below(h, k))
  <2>1. \A x \in DOMAIN h.map : Less(x, k) => ~Less(k, x)
    BY KeyOrder DEF IsRecord
  <2> QED BY <2>1 DEF IsRecord, Below, Restrict
<1>4. IsRecord(Above(h, k))
  BY DEF IsRecord, Above, Restrict
<1> QED BY <1>1, <1>2, <1>3, <1>4

-----------------------------------------------------------------------------
(***************************************************************************)
(* What is written stays                                                   *)
(***************************************************************************)

\* Pages have their fields.
LEMMA PagesAre ==
  ASSUME NEW n \in Page
  PROVE  /\ n.kind = "leaf" => n \in LeafPages
         /\ n.kind = "internal" => n \in InternalPages
         /\ n.kind = "overflow" => n \in OverflowPages
         /\ n.kind \notin {"leaf", "internal", "overflow"} => n = Damaged
         /\ n \in LeafPages => n.kind = "leaf" /\ n.entries \in Seq(Entry)
         /\ n \in InternalPages =>
              /\ n.kind = "internal" /\ n.keys \in Seq(TreeKeys)
              /\ n.children \in Seq(Nat)
         /\ n = Damaged => n.kind = "damaged"
BY DEF Page, LeafPages, InternalPages, OverflowPages, Damaged

\* An entry keeps its value in a later file, and for a later page.
LEMMA EntryStays ==
  ASSUME NEW file \in Seq(Page), NEW later \in Seq(Page), Len(file) <= Len(later),
         \A i \in 1..Len(file) : later[i] = file[i],
         NEW p \in Nat, NEW q \in Nat, p <= q, p <= Len(file) + 1,
         NEW e, NEW v, EntryHolds(file, p, e, v)
  PROVE  EntryHolds(later, q, e, v)
<1>1. CASE e.head = InvalidPageID /\ e.inline = v /\ v.len <= MaxInline
  BY <1>1 DEF EntryHolds
<1>2. CASE /\ e.head \in 1..(p - 1) /\ e.head + Parts(v) <= p
           /\ \A i \in 1..Parts(v) : file[e.head + i - 1] = Overflow(v, e.head)[i]
  <2>1. v.len \in Nat /\ BodySize - overflowHeader \in Nat /\ BodySize - overflowHeader > 0
    BY BTreeAssumption DEF EntryHolds, overflowHeader
  <2>2. Parts(v) \in Int
    BY <2>1 DEF Parts
  <2>3. e.head \in 1..(q - 1) /\ e.head + Parts(v) <= q /\ Len(file) \in Nat
    BY <1>2, <2>2
  <2>4. \A i \in 1..Parts(v) : later[e.head + i - 1] = Overflow(v, e.head)[i]
    <3> TAKE i \in 1..Parts(v)
    <3> DEFINE H == e.head
               P == Parts(v)
               N == Len(file)
    <3>0. /\ H \in 1..(p - 1) /\ H + P <= p /\ P \in Int /\ p <= N + 1 /\ N \in Nat
          /\ i \in 1..P
      BY <1>2, <2>2, <2>3
    <3>1. e.head + i - 1 \in 1..Len(file)
      <4>1. H + i - 1 \in 1..N
        <5> HIDE DEF H, P, N
        <5> QED BY <3>0
      <4> QED BY <4>1
    <3> QED BY <1>2, <3>1
  <2> QED BY <2>3, <2>4 DEF EntryHolds
<1> QED BY <1>1, <1>2 DEF EntryHolds

\* And so does a node.
LEMMA NodeStays ==
  ASSUME NEW file \in Seq(Page), NEW g, NEW later, NEW l, Extends(file, g, later, l),
         NEW p \in Nat, NEW q \in Nat, p <= q, p <= Len(file) + 1, NEW n, NEW h
  PROVE  /\ LeafHolds(file, p, n, h) => LeafHolds(later, q, n, h)
         /\ InternalHolds(file, p, n, h, g) => InternalHolds(later, q, n, h, l)
         /\ NodeHolds(file, p, n, h, g) => NodeHolds(later, q, n, h, l)
<1>1. /\ later \in Seq(Page) /\ Len(file) <= Len(later)
      /\ \A i \in 1..Len(file) : later[i] = file[i] /\ l[i] = g[i]
      /\ Len(file) \in Nat
  BY DEF Extends
<1>2. ASSUME LeafHolds(file, p, n, h) PROVE LeafHolds(later, q, n, h)
  <2>1. ASSUME NEW i \in DOMAIN n.entries
        PROVE  EntryHolds(later, q, n.entries[i], h.map[n.entries[i].key])
    <3>1. EntryHolds(file, p, n.entries[i], h.map[n.entries[i].key])
      BY <1>2 DEF LeafHolds
    <3> QED BY <1>1, <3>1, EntryStays
  <2> QED BY <1>2, <2>1 DEF LeafHolds
<1>3. ASSUME InternalHolds(file, p, n, h, g) PROVE InternalHolds(later, q, n, h, l)
  <2>1. ASSUME NEW i \in DOMAIN n.children
        PROVE  ChildHolds(later, q, n, h, l, i) /\ l[n.children[i]] = g[n.children[i]]
    <3>1. ChildHolds(file, p, n, h, g, i)
      BY <1>3 DEF InternalHolds
    <3>2. n.children[i] \in 1..(p - 1)
      BY <3>1 DEF ChildHolds
    <3>3. n.children[i] \in 1..Len(file) /\ n.children[i] \in 1..(q - 1)
      BY <1>1, <3>2
    <3>4. later[n.children[i]] = file[n.children[i]] /\ l[n.children[i]] = g[n.children[i]]
      BY <1>1, <3>3
    <3> QED BY <3>1, <3>3, <3>4 DEF ChildHolds
  <2>2. \A k \in DOMAIN h.map :
          \E i \in DOMAIN n.children : k \in DOMAIN l[n.children[i]].map
    BY <1>3, <2>1 DEF InternalHolds
  <2> QED BY <1>3, <2>1, <2>2 DEF InternalHolds
<1> QED BY <1>2, <1>3 DEF NodeHolds

\* Extending is transitive.
LEMMA ExtendsFurther ==
  ASSUME NEW f1, NEW g1, NEW f2, NEW g2, NEW f3, NEW g3,
         Len(f1) \in Nat, f1 \in Seq(Page),
         Extends(f1, g1, f2, g2), Extends(f2, g2, f3, g3)
  PROVE  Extends(f1, g1, f3, g3)
<1>1. Len(f2) \in Nat /\ Len(f3) \in Nat
  BY DEF Extends
<1> QED BY <1>1 DEF Extends

\* A file that holds, and pages that hold behind it.
LEMMA PagesHold ==
  ASSUME NEW file, NEW g, FileHolds(file, g), NEW later, NEW l,
         Extends(file, g, later, l),
         \A p \in (Len(file) + 1)..Len(later) :
           /\ IsRecord(l[p])
           /\ later[p].kind = "leaf" => LeafHolds(later, p, later[p], l[p])
           /\ later[p].kind = "internal" => InternalHolds(later, p, later[p], l[p], l)
           /\ later[p].kind = "overflow" =>
                later[p].next \in 1..Len(later) \cup {InvalidPageID}
  PROVE  FileHolds(later, l)
<1>1. /\ file \in Seq(Page) /\ later \in Seq(Page) /\ Len(file) \in Nat /\ Len(later) \in Nat
      /\ Len(file) <= Len(later)
      /\ \A i \in 1..Len(file) : later[i] = file[i] /\ l[i] = g[i]
  BY DEF Extends, FileHolds
<1>2. ASSUME NEW p \in 1..Len(file)
      PROVE  /\ IsRecord(l[p])
             /\ later[p].kind = "leaf" => LeafHolds(later, p, later[p], l[p])
             /\ later[p].kind = "internal" => InternalHolds(later, p, later[p], l[p], l)
             /\ later[p].kind = "overflow" =>
                  later[p].next \in 1..Len(later) \cup {InvalidPageID}
  <2>1. later[p] = file[p] /\ l[p] = g[p] /\ p \in Nat /\ p <= Len(file) + 1
    BY <1>1
  <2>2. /\ LeafHolds(file, p, file[p], g[p]) => LeafHolds(later, p, file[p], g[p])
        /\ InternalHolds(file, p, file[p], g[p], g) => InternalHolds(later, p, file[p], g[p], l)
    BY <1>1, <2>1, NodeStays
  <2>3. /\ IsRecord(g[p])
        /\ file[p].kind = "leaf" => LeafHolds(file, p, file[p], g[p])
        /\ file[p].kind = "internal" => InternalHolds(file, p, file[p], g[p], g)
        /\ file[p].kind = "overflow" => file[p].next \in 1..Len(file) \cup {InvalidPageID}
    BY DEF FileHolds
  <2> QED BY <1>1, <2>1, <2>2, <2>3
<1>3. \A p \in 1..Len(later) : p \in 1..Len(file) \/ p \in (Len(file) + 1)..Len(later)
  BY <1>1
<1> QED BY <1>1, <1>2, <1>3 DEF FileHolds

\* A node that holds is stored at the end of the file, or what is left of it.
LEMMA StoresNode ==
  ASSUME NEW file, NEW g, FileHolds(file, g), NEW n, NEW h,
         NodeHolds(file, Len(file) + 1, n, h, g)
  PROVE  LET later == Append(file, Stored(n))
             l == Put(g, Len(file), h)
         IN  /\ FileHolds(later, l) /\ Extends(file, g, later, l)
             /\ Len(later) = Len(file) + 1 /\ l[Len(file) + 1] = h
             /\ later[Len(file) + 1] = Stored(n) /\ Stored(n).kind # "overflow"
<1> DEFINE N == Len(file)
           later == Append(file, Stored(n))
           l == Put(g, N, h)
<1>1. N \in Nat /\ file \in Seq(Page)
  BY DEF FileHolds
<1>2. n \in LeafPages \/ n \in InternalPages
  BY DEF NodeHolds, LeafHolds, InternalHolds
<1>3. Stored(n) \in Page /\ Stored(n).kind # "overflow" /\ (Stored(n) = n \/ Stored(n) = Damaged)
  BY <1>2 DEF Stored, Page, Damaged, LeafPages, InternalPages
<1>4. /\ later \in Seq(Page) /\ Len(later) = N + 1 /\ later[N + 1] = Stored(n)
      /\ \A i \in 1..N : later[i] = file[i]
  BY <1>1, <1>3, AppendProperties
<1>5. l[N + 1] = h /\ \A i \in 1..N : l[i] = g[i]
  BY <1>1 DEF Put
<1> HIDE DEF later, l, N
<1>6. Extends(file, g, later, l)
  BY <1>1, <1>4, <1>5 DEF Extends, N
<1>7. NodeHolds(later, N + 1, n, h, l)
  BY <1>1, <1>6, NodeStays DEF N
<1>8. /\ IsRecord(l[N + 1])
      /\ later[N + 1].kind = "leaf" => LeafHolds(later, N + 1, later[N + 1], l[N + 1])
      /\ later[N + 1].kind = "internal" => InternalHolds(later, N + 1, later[N + 1], l[N + 1], l)
      /\ later[N + 1].kind # "overflow"
  <2>1. /\ LeafHolds(later, N + 1, n, h) => n.kind = "leaf"
        /\ InternalHolds(later, N + 1, n, h, l) => n.kind = "internal"
    BY DEF LeafHolds, InternalHolds, LeafPages, InternalPages
  <2>2. IsRecord(h) /\ (LeafHolds(later, N + 1, n, h) \/ InternalHolds(later, N + 1, n, h, l))
    BY <1>7 DEF NodeHolds
  <2>3. CASE Stored(n) = n
    BY <1>4, <1>5, <2>1, <2>2, <2>3
  <2>4. CASE Stored(n) = Damaged
    BY <1>4, <1>5, <2>2, <2>4 DEF Damaged
  <2> QED BY <1>3, <2>3, <2>4
<1>9. FileHolds(later, l)
  <2>1. \A p \in (Len(file) + 1)..Len(later) : p = N + 1
    BY <1>1, <1>4 DEF N
  <2> QED BY <1>6, <1>8, <2>1, PagesHold
<1> QED BY <1>3, <1>4, <1>5, <1>6, <1>9 DEF later, l, N

-----------------------------------------------------------------------------
(***************************************************************************)
(* Entries and their chains                                                *)
(***************************************************************************)

\* A value takes a page at least.
LEMMA PartsAre ==
  ASSUME NEW v \in Values
  PROVE  Parts(v) \in Nat /\ Parts(v) >= 1
<1> DEFINE c == BodySize - overflowHeader
           x == v.len + c - 1
<1>1. v.len \in Nat /\ c \in Nat /\ c > 0
  BY BTreeAssumption DEF overflowHeader
<1>2. Parts(v) = IF v.len = 0 THEN 1 ELSE x \div c
  BY DEF Parts
<1> HIDE DEF c
<1>3. CASE v.len = 0
  BY <1>2, <1>3
<1>4. CASE v.len # 0
  <2>1. x \in Nat /\ x >= c
    BY <1>1, <1>4
  <2> HIDE DEF x
  <2>2. x = (x \div c) * c + (x % c)
    BY <1>1, <2>1, Z3
  <2>3. x \div c \in Int /\ x % c \in 0..(c - 1)
    BY <1>1, <2>1
  <2> DEFINE q == x \div c
  <2>4. q >= 1
    <3> SUFFICES ASSUME q <= 0 PROVE FALSE
      BY <2>3
    <3> HIDE DEF q
    <3>1. q \in Int /\ x = q * c + (x % c)
      BY <2>2, <2>3 DEF q
    <3>2. q * c <= 0
      BY <1>1, <3>1, SMTT(30)
    <3> QED BY <1>1, <2>1, <2>3, <3>1, <3>2
  <2> QED BY <1>2, <1>4, <2>3, <2>4
<1> QED BY <1>3, <1>4

\* A sequence with more behind it.
LEMMA Joins ==
  ASSUME NEW S, NEW s \in Seq(S), NEW t \in Seq(S)
  PROVE  /\ s \o t \in Seq(S) /\ Len(s \o t) = Len(s) + Len(t)
         /\ \A i \in 1..Len(s) : (s \o t)[i] = s[i]
         /\ \A i \in 1..Len(t) : (s \o t)[Len(s) + i] = t[i]
<1>1. Len(s) \in Nat /\ Len(t) \in Nat
  OBVIOUS
<1>2. /\ s \o t \in Seq(S) /\ Len(s \o t) = Len(s) + Len(t)
      /\ \A i \in 1..(Len(s) + Len(t)) :
           (s \o t)[i] = IF i <= Len(s) THEN s[i] ELSE t[i - Len(s)]
  BY ConcatProperties
<1>3. ASSUME NEW i \in 1..Len(t) PROVE (s \o t)[Len(s) + i] = t[i]
  <2>1. /\ Len(s) + i \in 1..(Len(s) + Len(t)) /\ ~(Len(s) + i <= Len(s))
        /\ (Len(s) + i) - Len(s) = i
    BY <1>1
  <2> QED BY <1>2, <2>1
<1>4. \A i \in 1..Len(s) : (s \o t)[i] = s[i]
  BY <1>1, <1>2
<1> QED BY <1>2, <1>3, <1>4

\* The entry made for a value holds it, its chain behind the file.
LEMMA MakesEntry ==
  ASSUME NEW file, NEW g, FileHolds(file, g), NEW k \in TreeKeys, NEW v \in Values
  PROVE  LET made == MakeEntry(file, k, v)
         IN  /\ made.entry.key = k
             /\ \A p \in (Len(file) + 1)..Len(made.pages) :
                  made.pages[p].kind = "overflow"
             /\ \E l : /\ FileHolds(made.pages, l) /\ Extends(file, g, made.pages, l)
                       /\ EntryHolds(made.pages, Len(made.pages) + 1, made.entry, v)
<1> DEFINE made == MakeEntry(file, k, v)
           N == Len(file)
           M == Parts(v)
<1>1. N \in Nat /\ file \in Seq(Page) /\ M \in Nat /\ M >= 1
  BY PartsAre DEF FileHolds
<1>2. v.len \in Nat /\ MaxInline \in Nat
  BY BTreeAssumption
<1>3. CASE v.len <= MaxInline
  <2>1. /\ made.pages = file
        /\ made.entry = [key |-> k, inline |-> v, head |-> InvalidPageID]
    BY <1>3 DEF MakeEntry
  <2> HIDE DEF made
  <2>2. EntryHolds(file, N + 1, made.entry, v)
    BY <1>3, <2>1 DEF EntryHolds, Entry
  <2>3. Extends(file, g, file, g)
    BY <1>1 DEF Extends
  <2>4. \A p \in (N + 1)..N : FALSE
    BY <1>1
  <2> QED BY <2>1, <2>2, <2>3, <2>4 DEF made
<1>4. CASE ~(v.len <= MaxInline)
  <2> DEFINE chain == Overflow(v, N + 1)
             e == [key |-> k, inline |-> NoValue, head |-> N + 1]
             all == file \o chain
             l == [p \in 1..(N + M) |-> IF p <= N THEN g[p]
                                       ELSE [map |-> [x \in {} |-> NoValue], marks |-> {}]]
  <2>1. made.pages = all /\ made.entry = e
    BY <1>4 DEF MakeEntry
  <2>2. \A i \in 1..M : /\ chain[i] \in OverflowPages
                        /\ chain[i].next \in 1..(N + M) \cup {InvalidPageID}
    <3> TAKE i \in 1..M
    <3>1. chain[i] = [kind |-> "overflow", chunk |-> <<v, i>>,
                      next |-> IF i < M THEN (N + 1) + i ELSE InvalidPageID]
      BY DEF Overflow
    <3>2. <<v, i>> \in Values \X Nat
      BY <1>1
    <3>3. i < M => (N + 1) + i \in 1..(N + M)
      BY <1>1
    <3>4. i < M => (N + 1) + i \in Nat
      BY <1>1
    <3> HIDE DEF chain
    <3> QED BY <3>1, <3>2, <3>3, <3>4 DEF OverflowPages
  <2>3. chain \in Seq(Page) /\ Len(chain) = M
    <3>1. \A i \in 1..M : chain[i] \in Page
      BY <2>2 DEF Page
    <3>2. chain = [i \in 1..M |-> chain[i]]
      BY DEF Overflow
    <3> HIDE DEF chain
    <3> QED BY <1>1, <3>1, <3>2
  <2> HIDE DEF chain
  <2>4. /\ all \in Seq(Page) /\ Len(all) = N + M
        /\ \A i \in 1..N : all[i] = file[i]
        /\ \A i \in 1..M : all[N + i] = chain[i]
    <3>1. /\ all \in Seq(Page) /\ Len(all) = Len(file) + Len(chain)
          /\ \A i \in 1..Len(file) : all[i] = file[i]
          /\ \A i \in 1..Len(chain) : all[Len(file) + i] = chain[i]
      <4>1. file \in Seq(Page) /\ chain \in Seq(Page)
        BY <1>1, <2>3
      <4> QED BY <4>1, Joins
    <3> HIDE DEF all
    <3> QED BY <2>3, <3>1
  <2> HIDE DEF all
  <2>5. \A p \in (N + 1)..(N + M) :
          /\ all[p] \in OverflowPages /\ all[p].kind = "overflow"
          /\ all[p].next \in 1..(N + M) \cup {InvalidPageID}
    <3> TAKE p \in (N + 1)..(N + M)
    <3>1. p - N \in 1..M /\ N + (p - N) = p
      BY <1>1
    <3>2. all[p] = chain[p - N]
      BY <2>4, <3>1
    <3>3. all[p] \in OverflowPages /\ all[p].next \in 1..(N + M) \cup {InvalidPageID}
      BY <2>2, <3>1, <3>2
    <3> QED BY <3>3 DEF OverflowPages
  <2>6. \A p \in (N + 1)..(N + M) : IsRecord(l[p])
    <3> TAKE p \in (N + 1)..(N + M)
    <3>1. l[p] = [map |-> [x \in {} |-> NoValue], marks |-> {}]
      BY <1>1
    <3> HIDE DEF l
    <3> QED BY <3>1 DEF IsRecord
  <2>7. \A p \in 1..N : l[p] = g[p]
    BY <1>1
  <2> HIDE DEF l
  <2>8. Extends(file, g, all, l)
    BY <1>1, <2>4, <2>7 DEF Extends
  <2>9. FileHolds(all, l)
    <3>1. \A p \in (Len(file) + 1)..Len(all) :
            /\ IsRecord(l[p])
            /\ all[p].kind = "leaf" => LeafHolds(all, p, all[p], l[p])
            /\ all[p].kind = "internal" => InternalHolds(all, p, all[p], l[p], l)
            /\ all[p].kind = "overflow" => all[p].next \in 1..Len(all) \cup {InvalidPageID}
      BY <2>4, <2>5, <2>6
    <3> QED BY <2>8, <3>1, PagesHold
  <2>10. EntryHolds(all, N + M + 1, e, v)
    <3>1. e \in Entry /\ e.head = N + 1 /\ N + 1 \in 1..(N + M) /\ (N + M + 1) - 1 = N + M
      BY <1>1 DEF Entry
    <3>2. (N + 1) + M <= N + M + 1
      BY <1>1
    <3>3. \A i \in 1..M : all[(N + 1) + i - 1] = chain[i]
      <4> TAKE i \in 1..M
      <4>1. (N + 1) + i - 1 = N + i
        BY <1>1
      <4> QED BY <2>4, <4>1
    <3> HIDE DEF e, M
    <3> QED BY <3>1, <3>2, <3>3 DEF EntryHolds, chain, M
  <2>11. e.key = k
    OBVIOUS
  <2> HIDE DEF e, made, N, M
  <2>12. \A p \in (Len(file) + 1)..Len(made.pages) : made.pages[p].kind = "overflow"
    BY <2>1, <2>4, <2>5 DEF N
  <2>13. EntryHolds(made.pages, Len(made.pages) + 1, made.entry, v)
    BY <2>1, <2>4, <2>10
  <2> QED BY <2>1, <2>8, <2>9, <2>11, <2>12, <2>13 DEF made
<1> QED BY <1>3, <1>4

-----------------------------------------------------------------------------
(***************************************************************************)
(* The places of a key in a node                                           *)
(***************************************************************************)

\* The search of a leaf ends at the first entry that is not below the key.
LEMMA SearchIs ==
  ASSUME NEW entries \in Seq(Entry), NEW key
  PROVE  /\ LeafSearch(entries, key) \in 1..(Len(entries) + 1)
         /\ \A j \in 1..Len(entries) :
              j < LeafSearch(entries, key) => Less(entries[j].key, key)
         /\ LeafSearch(entries, key) <= Len(entries) =>
              ~Less(entries[LeafSearch(entries, key)].key, key)
<1> DEFINE S == {i \in 1..Len(entries) : ~Less(entries[i].key, key)}
           at == LeafSearch(entries, key)
<1>1. Len(entries) \in Nat
  OBVIOUS
<1>2. at = IF S # {} THEN (IF Min(S) = 0 THEN Len(entries) + 1 ELSE Min(S))
           ELSE Len(entries) + 1
  BY DEF LeafSearch, SelectInSeq
<1> HIDE DEF at
<1>3. CASE S = {}
  BY <1>1, <1>2, <1>3 DEF at
<1>4. CASE S # {}
  <2>1. S \in SUBSET Nat
    OBVIOUS
  <2>2. Min(S) \in S /\ \A y \in S : Min(S) <= y
    <3> HIDE DEF S
    <3> QED BY <1>4, <2>1, MinIs
  <2>3. Min(S) \in 1..Len(entries) /\ ~Less(entries[Min(S)].key, key)
    BY <2>2
  <2>4. at = Min(S)
    BY <1>1, <1>2, <1>4, <2>3
  <2>5. \A j \in 1..Len(entries) : j < at => Less(entries[j].key, key)
    BY <1>1, <2>2, <2>3, <2>4
  <2> QED BY <1>1, <2>3, <2>4, <2>5 DEF at
<1> QED BY <1>3, <1>4

\* What an internal node has.
LEMMA InternalIs ==
  ASSUME NEW file, NEW p, NEW n, NEW h, NEW g, InternalHolds(file, p, n, h, g), IsRecord(h)
  PROVE  /\ n \in InternalPages /\ n.kind = "internal"
         /\ n.keys \in Seq(TreeKeys) /\ n.children \in Seq(Nat)
         /\ Len(n.keys) \in Nat /\ Len(n.children) = Len(n.keys) + 1
         /\ DOMAIN n.keys = 1..Len(n.keys) /\ DOMAIN n.children = 1..Len(n.children)
         /\ \A i \in 1..Len(n.keys) : n.keys[i] \in TreeKeys /\ n.keys[i] \in h.marks
         /\ \A i, j \in 1..Len(n.keys) : i < j => ~Less(n.keys[j], n.keys[i])
         /\ \A i \in 1..Len(n.children) : ChildHolds(file, p, n, h, g, i)
         /\ \A k \in DOMAIN h.map :
              \E i \in 1..Len(n.children) : k \in DOMAIN g[n.children[i]].map
<1>1. n.kind = "internal" /\ n.keys \in Seq(TreeKeys) /\ n.children \in Seq(Nat)
  BY DEF InternalHolds, InternalPages
<1>2. /\ Len(n.keys) \in Nat /\ DOMAIN n.keys = 1..Len(n.keys)
      /\ DOMAIN n.children = 1..Len(n.children)
      /\ \A i \in 1..Len(n.keys) : n.keys[i] \in TreeKeys
  BY <1>1
<1> QED BY <1>1, <1>2 DEF InternalHolds

\* The child index is that of the child that may have the key.
LEMMA ChildIndexIs ==
  ASSUME NEW file, NEW p, NEW n, NEW h, NEW g, InternalHolds(file, p, n, h, g), IsRecord(h),
         NEW key \in TreeKeys
  PROVE  /\ ChildIndex(n, key) \in 1..Len(n.children)
         /\ Belongs(n, ChildIndex(n, key), key)
<1> DEFINE S == {i \in 1..Len(n.keys) : Less(key, n.keys[i])}
           at == ChildIndex(n, key)
<1>1. /\ Len(n.keys) \in Nat /\ Len(n.children) = Len(n.keys) + 1
      /\ DOMAIN n.keys = 1..Len(n.keys)
      /\ \A i \in 1..Len(n.keys) : n.keys[i] \in TreeKeys
      /\ \A i, j \in 1..Len(n.keys) : i < j => ~Less(n.keys[j], n.keys[i])
  BY InternalIs
<1>2. at = IF S # {} THEN (IF Min(S) = 0 THEN Len(n.children) ELSE Min(S))
           ELSE Len(n.children)
  BY DEF ChildIndex, SelectInSeq
<1> HIDE DEF at
<1>3. CASE S = {}
  <2>1. at = Len(n.keys) + 1
    BY <1>1, <1>2, <1>3
  <2>2. \A j \in 1..Len(n.keys) : j < at /\ ~Less(key, n.keys[j])
    BY <1>1, <1>3, <2>1
  <2> QED BY <1>1, <2>1, <2>2 DEF Belongs, at
<1>4. CASE S # {}
  <2>1. S \in SUBSET Nat
    OBVIOUS
  <2>2. Min(S) \in S /\ \A y \in S : Min(S) <= y
    <3> HIDE DEF S
    <3> QED BY <1>4, <2>1, MinIs
  <2>3. at \in 1..Len(n.keys) /\ Less(key, n.keys[at]) /\ \A y \in S : at <= y
    <3>1. Min(S) \in 1..Len(n.keys) /\ Less(key, n.keys[Min(S)])
      BY <2>2
    <3>2. at = Min(S)
      BY <1>1, <1>2, <1>4, <3>1
    <3> QED BY <2>2, <3>1, <3>2
  <2>4. \A j \in 1..Len(n.keys) : j < at => ~Less(key, n.keys[j])
    BY <1>1, <2>3
  <2>5. ASSUME NEW j \in 1..Len(n.keys), ~(j < at) PROVE Less(key, n.keys[j])
    <3>1. j = at \/ at < j
      BY <1>1, <2>3, <2>5
    <3>2. at < j => ~Less(n.keys[j], n.keys[at])
      BY <1>1, <2>3
    <3>3. n.keys[j] \in TreeKeys /\ n.keys[at] \in TreeKeys
      BY <1>1, <2>3
    <3> QED BY <2>3, <3>1, <3>2, <3>3, KeyOrder
  <2>6. at \in 1..Len(n.children)
    BY <1>1, <2>3
  <2> QED BY <1>1, <2>4, <2>5, <2>6 DEF Belongs, at
<1> QED BY <1>3, <1>4

\* A key of the record is below the child it belongs to, and no other.
LEMMA BelongsToOne ==
  ASSUME NEW file, NEW p, NEW n, NEW h, NEW g, InternalHolds(file, p, n, h, g), IsRecord(h),
         NEW i \in 1..Len(n.children), NEW j \in 1..Len(n.children), NEW k,
         Belongs(n, i, k), Belongs(n, j, k)
  PROVE  i = j
<1>1. /\ Len(n.keys) \in Nat /\ Len(n.children) = Len(n.keys) + 1
      /\ DOMAIN n.keys = 1..Len(n.keys)
  BY InternalIs
<1>2. ASSUME NEW a \in 1..Len(n.children), NEW b \in 1..Len(n.children), a < b,
             Belongs(n, a, k), Belongs(n, b, k)
      PROVE  FALSE
  <2>1. a \in 1..Len(n.keys) /\ ~(a < a)
    BY <1>1, <1>2
  <2> QED BY <1>1, <1>2, <2>1 DEF Belongs
<1> QED BY <1>1, <1>2

-----------------------------------------------------------------------------
(***************************************************************************)
(* Splits                                                                  *)
(***************************************************************************)

\* A part of a sequence.
LEMMA RangeOf ==
  ASSUME NEW S, NEW s \in Seq(S), NEW m \in Nat, NEW n \in Nat, m <= n, n <= Len(s)
  PROVE  /\ SubSeq(s, m + 1, n) \in Seq(S) /\ Len(SubSeq(s, m + 1, n)) = n - m
         /\ \A i \in 1..(n - m) : SubSeq(s, m + 1, n)[i] = s[m + i]
<1>1. \A i \in (m + 1)..n : s[i] \in S
  BY ElementOfSeq
<1>2. m + 1 \in Int /\ n \in Int
  OBVIOUS
<1> DEFINE t == SubSeq(s, m + 1, n)
<1>3. /\ t \in Seq(S)
      /\ Len(t) = IF m + 1 <= n THEN n - (m + 1) + 1 ELSE 0
      /\ \A i \in 1..(n - (m + 1) + 1) : t[i] = s[(m + 1) + i - 1]
  BY <1>1, <1>2, SubSeqProperties
<1> HIDE DEF t
<1>4. Len(t) = n - m
  BY <1>3
<1>5. \A i \in 1..(n - m) : t[i] = s[m + i]
  <2> TAKE i \in 1..(n - m)
  <2>1. i \in 1..(n - (m + 1) + 1) /\ (m + 1) + i - 1 = m + i
    OBVIOUS
  <2> QED BY <1>3, <2>1
<1> QED BY <1>3, <1>4, <1>5 DEF t

\* The halves of a leaf hold the halves of its record.
LEMMA SplitsLeaf ==
  ASSUME NEW file, NEW p, NEW n, NEW h, LeafHolds(file, p, n, h), IsRecord(h),
         Len(n.entries) >= 2
  PROVE  LET s == SplitLeaf(n)
         IN  /\ s.sep \in h.marks
             /\ LeafHolds(file, p, s.left, Below(h, s.sep))
             /\ LeafHolds(file, p, s.right, Above(h, s.sep))
<1> DEFINE N == Len(n.entries)
           mid == IF N \div 2 = 0 THEN 1 ELSE N \div 2
           sep == n.entries[mid + 1].key
           le == SubSeq(n.entries, 1, mid)
           re == SubSeq(n.entries, mid + 1, N)
<1>1. /\ n.kind = "leaf" /\ n.entries \in Seq(Entry) /\ N \in Nat
      /\ DOMAIN n.entries = 1..N
  BY DEF LeafHolds, LeafPages
<1>2. mid \in 1..(N - 1)
  <2> DEFINE d == N \div 2
  <2>1. d \in Int /\ 2 * d <= N /\ N <= 2 * d + 1
    <3> HIDE DEF N
    <3> QED BY <1>1
  <2> HIDE DEF d
  <2>2. mid = IF d = 0 THEN 1 ELSE d
    BY DEF d
  <2> HIDE DEF mid
  <2> QED BY <1>1, <2>1, <2>2
<1>3. /\ SplitLeaf(n).left = [kind |-> "leaf", entries |-> le]
      /\ SplitLeaf(n).right = [kind |-> "leaf", entries |-> re]
      /\ SplitLeaf(n).sep = sep
  BY DEF SplitLeaf, Leaf
<1>4. /\ le \in Seq(Entry) /\ Len(le) = mid /\ DOMAIN le = 1..mid
      /\ \A i \in 1..mid : le[i] = n.entries[i]
  <2> HIDE DEF mid
  <2>1. /\ SubSeq(n.entries, 0 + 1, mid) \in Seq(Entry)
        /\ Len(SubSeq(n.entries, 0 + 1, mid)) = mid - 0
        /\ \A i \in 1..(mid - 0) : SubSeq(n.entries, 0 + 1, mid)[i] = n.entries[0 + i]
    BY <1>1, <1>2, RangeOf
  <2>2. 0 + 1 = 1 /\ mid - 0 = mid /\ \A i \in 1..mid : 0 + i = i
    BY <1>1, <1>2
  <2>3. /\ le \in Seq(Entry) /\ Len(le) = mid
        /\ \A i \in 1..mid : le[i] = n.entries[i]
    BY <2>1, <2>2
  <2> HIDE DEF le
  <2> QED BY <2>3
<1>5. /\ re \in Seq(Entry) /\ Len(re) = N - mid /\ DOMAIN re = 1..(N - mid)
      /\ \A i \in 1..(N - mid) : re[i] = n.entries[mid + i]
  <2> HIDE DEF mid
  <2>1. /\ re \in Seq(Entry) /\ Len(re) = N - mid
        /\ \A i \in 1..(N - mid) : re[i] = n.entries[mid + i]
    BY <1>1, <1>2, RangeOf
  <2> HIDE DEF re
  <2> QED BY <2>1
<1>6. /\ \A i, j \in 1..N : i < j => Less(n.entries[i].key, n.entries[j].key)
      /\ \A i \in 1..N : /\ n.entries[i].key \in DOMAIN h.map
                         /\ EntryHolds(file, p, n.entries[i], h.map[n.entries[i].key])
                         /\ n.entries[i].key \in TreeKeys
      /\ \A k \in DOMAIN h.map : \E i \in 1..N : n.entries[i].key = k
  BY <1>1 DEF LeafHolds, IsRecord
<1> HIDE DEF le, re, mid
<1>7. sep \in DOMAIN h.map /\ sep \in h.marks /\ sep \in TreeKeys
  <2>1. mid + 1 \in 1..N
    BY <1>1, <1>2
  <2> QED BY <1>6, <2>1 DEF IsRecord
<1>8. \A i \in 1..N : IF i <= mid THEN Less(n.entries[i].key, sep)
                                  ELSE ~Less(n.entries[i].key, sep)
  <2> TAKE i \in 1..N
  <2>1. mid + 1 \in 1..N /\ (i <= mid => i < mid + 1) /\ (~(i <= mid) => i = mid + 1 \/ mid + 1 < i)
    BY <1>1, <1>2
  <2>2. CASE i <= mid
    BY <1>6, <2>1, <2>2
  <2>3. CASE ~(i <= mid)
    <3>1. i = mid + 1 => n.entries[i].key = sep
      OBVIOUS
    <3>2. mid + 1 < i => Less(sep, n.entries[i].key)
      BY <1>6, <2>1
    <3> HIDE DEF sep
    <3> QED BY <1>6, <1>7, <2>1, <2>3, <3>1, <3>2, KeyOrder
  <2> QED BY <2>2, <2>3
<1> HIDE DEF sep
<1>9. LeafHolds(file, p, SplitLeaf(n).left, Below(h, sep))
  <2> DEFINE b == Below(h, sep)
             l == SplitLeaf(n).left
  <2>1. /\ DOMAIN b.map = {k \in DOMAIN h.map : Less(k, sep)}
        /\ \A k \in DOMAIN b.map : b.map[k] = h.map[k]
    BY DEF Below, Restrict
  <2>2. l \in LeafPages /\ l.entries = le /\ DOMAIN l.entries = 1..mid
    BY <1>3, <1>4 DEF LeafPages
  <2> HIDE DEF b, l
  <2>3. \A i \in 1..mid : i \in 1..N /\ l.entries[i] = n.entries[i]
    BY <1>1, <1>2, <1>4, <2>2
  <2>4. \A i, j \in 1..mid : i < j => Less(l.entries[i].key, l.entries[j].key)
    BY <1>6, <2>3
  <2>5. \A i \in 1..mid : l.entries[i].key \in DOMAIN b.map
    <3> TAKE i \in 1..mid
    <3>1. i \in 1..N /\ i <= mid /\ l.entries[i] = n.entries[i]
      BY <1>2, <2>3
    <3>2. n.entries[i].key \in DOMAIN h.map /\ Less(n.entries[i].key, sep)
      BY <1>6, <1>8, <3>1
    <3> QED BY <2>1, <3>1, <3>2
  <2>6. \A i \in 1..mid : EntryHolds(file, p, l.entries[i], b.map[l.entries[i].key])
    <3> TAKE i \in 1..mid
    <3>1. i \in 1..N /\ l.entries[i] = n.entries[i] /\ l.entries[i].key \in DOMAIN b.map
      BY <2>3, <2>5
    <3>2. EntryHolds(file, p, n.entries[i], h.map[n.entries[i].key])
      BY <1>6, <3>1
    <3>3. b.map[l.entries[i].key] = h.map[n.entries[i].key]
      BY <2>1, <3>1
    <3> QED BY <3>1, <3>2, <3>3
  <2>7. \A k \in DOMAIN b.map : \E i \in 1..mid : l.entries[i].key = k
    <3> TAKE k \in DOMAIN b.map
    <3>1. PICK i \in 1..N : n.entries[i].key = k
      BY <1>6, <2>1
    <3>2. i <= mid
      BY <1>8, <2>1, <3>1
    <3>3. i \in 1..mid
      BY <1>2, <3>2
    <3> QED BY <2>3, <3>1, <3>3
  <2> QED BY <2>2, <2>4, <2>5, <2>6, <2>7 DEF LeafHolds, b, l
<1>10. LeafHolds(file, p, SplitLeaf(n).right, Above(h, sep))
  <2> DEFINE b == Above(h, sep)
             l == SplitLeaf(n).right
             M == N - mid
  <2>1. /\ DOMAIN b.map = {k \in DOMAIN h.map : ~Less(k, sep)}
        /\ \A k \in DOMAIN b.map : b.map[k] = h.map[k]
    BY DEF Above, Restrict
  <2>2. l \in LeafPages /\ l.entries = re /\ DOMAIN l.entries = 1..M
    BY <1>3, <1>5 DEF LeafPages
  <2> HIDE DEF b, l
  <2>3. \A i \in 1..M : mid + i \in 1..N /\ ~(mid + i <= mid) /\ l.entries[i] = n.entries[mid + i]
    BY <1>1, <1>2, <1>5, <2>2
  <2>4. \A i, j \in 1..M : i < j => Less(l.entries[i].key, l.entries[j].key)
    <3> TAKE i, j \in 1..M
    <3>1. i < j => mid + i < mid + j
      BY <1>1, <1>2
    <3> QED BY <1>6, <2>3, <3>1
  <2>5. \A i \in 1..M : l.entries[i].key \in DOMAIN b.map
    <3> TAKE i \in 1..M
    <3>1. mid + i \in 1..N /\ ~(mid + i <= mid) /\ l.entries[i] = n.entries[mid + i]
      BY <2>3
    <3>2. n.entries[mid + i].key \in DOMAIN h.map /\ ~Less(n.entries[mid + i].key, sep)
      BY <1>6, <1>8, <3>1
    <3> QED BY <2>1, <3>1, <3>2
  <2>6. \A i \in 1..M : EntryHolds(file, p, l.entries[i], b.map[l.entries[i].key])
    <3> TAKE i \in 1..M
    <3>1. mid + i \in 1..N /\ l.entries[i] = n.entries[mid + i]
      BY <2>3
    <3>2. EntryHolds(file, p, n.entries[mid + i], h.map[n.entries[mid + i].key])
      BY <1>6, <3>1
    <3> QED BY <2>1, <2>5, <3>1, <3>2
  <2>7. \A k \in DOMAIN b.map : \E i \in 1..M : l.entries[i].key = k
    <3> TAKE k \in DOMAIN b.map
    <3>1. PICK i \in 1..N : n.entries[i].key = k
      BY <1>6, <2>1
    <3>2. ~(i <= mid)
      BY <1>8, <2>1, <3>1
    <3>3. i - mid \in 1..M /\ mid + (i - mid) = i
      BY <1>1, <1>2, <3>2
    <3> QED BY <2>3, <3>1, <3>3
  <2> QED BY <2>2, <2>4, <2>5, <2>6, <2>7 DEF LeafHolds, b, l
<1> QED BY <1>3, <1>7, <1>9, <1>10

\* The halves of an internal node hold the halves of its record.
LEMMA SplitsInternal ==
  ASSUME NEW file, NEW p, NEW n, NEW h, NEW g, InternalHolds(file, p, n, h, g), IsRecord(h),
         Len(n.keys) >= 1
  PROVE  LET s == SplitInternal(n)
         IN  /\ s.sep \in h.marks
             /\ InternalHolds(file, p, s.left, Below(h, s.sep), g)
             /\ InternalHolds(file, p, s.right, Above(h, s.sep), g)
<1> DEFINE N == Len(n.keys)
           mid == N \div 2
           sep == n.keys[mid + 1]
           l == SplitInternal(n).left
           r == SplitInternal(n).right
<1>1. /\ n.keys \in Seq(TreeKeys) /\ n.children \in Seq(Nat)
      /\ N \in Nat /\ Len(n.children) = N + 1
      /\ \A i \in 1..N : n.keys[i] \in TreeKeys /\ n.keys[i] \in h.marks
      /\ \A i, j \in 1..N : i < j => ~Less(n.keys[j], n.keys[i])
      /\ \A i \in 1..(N + 1) : ChildHolds(file, p, n, h, g, i)
      /\ \A k \in DOMAIN h.map : \E i \in 1..(N + 1) : k \in DOMAIN g[n.children[i]].map
      /\ DOMAIN n.keys = 1..N /\ DOMAIN n.children = 1..(N + 1)
  BY InternalIs
<1>2. mid \in Nat /\ mid + 1 \in 1..N
  <2>1. mid \in Int /\ 2 * mid <= N /\ N <= 2 * mid + 1
    <3> HIDE DEF N
    <3> QED BY <1>1
  <2> HIDE DEF mid
  <2> QED BY <1>1, <2>1
<1>3. /\ l = [kind |-> "internal", keys |-> SubSeq(n.keys, 1, mid),
              children |-> SubSeq(n.children, 1, mid + 1)]
      /\ r = [kind |-> "internal", keys |-> SubSeq(n.keys, mid + 2, N),
              children |-> SubSeq(n.children, mid + 2, Len(n.children))]
      /\ SplitInternal(n).sep = sep
  BY DEF SplitInternal, Internal
<1> HIDE DEF mid, l, r
<1>4. /\ l \in InternalPages /\ Len(l.keys) = mid /\ Len(l.children) = mid + 1
      /\ DOMAIN l.keys = 1..mid /\ DOMAIN l.children = 1..(mid + 1)
      /\ \A i \in 1..mid : l.keys[i] = n.keys[i]
      /\ \A i \in 1..(mid + 1) : l.children[i] = n.children[i]
  <2>1. /\ SubSeq(n.keys, 0 + 1, mid) \in Seq(TreeKeys)
        /\ Len(SubSeq(n.keys, 0 + 1, mid)) = mid - 0
        /\ \A i \in 1..(mid - 0) : SubSeq(n.keys, 0 + 1, mid)[i] = n.keys[0 + i]
    BY <1>1, <1>2, RangeOf
  <2>2. /\ SubSeq(n.children, 0 + 1, mid + 1) \in Seq(Nat)
        /\ Len(SubSeq(n.children, 0 + 1, mid + 1)) = (mid + 1) - 0
        /\ \A i \in 1..((mid + 1) - 0) : SubSeq(n.children, 0 + 1, mid + 1)[i] = n.children[0 + i]
    <3>1. mid + 1 \in Nat /\ 0 <= mid + 1 /\ mid + 1 <= Len(n.children)
      BY <1>1, <1>2
    <3> QED BY <1>1, <3>1, RangeOf
  <2>3. 0 + 1 = 1 /\ mid - 0 = mid /\ (mid + 1) - 0 = mid + 1 /\ \A i \in 1..(mid + 1) : 0 + i = i
    BY <1>2
  <2>4. /\ l.keys \in Seq(TreeKeys) /\ Len(l.keys) = mid
        /\ \A i \in 1..mid : l.keys[i] = n.keys[i]
    BY <1>2, <1>3, <2>1, <2>3
  <2>5. /\ l.children \in Seq(Nat) /\ Len(l.children) = mid + 1
        /\ \A i \in 1..(mid + 1) : l.children[i] = n.children[i]
    BY <1>3, <2>2, <2>3
  <2>6. l \in InternalPages
    BY <1>3, <2>4, <2>5 DEF InternalPages
  <2> QED BY <2>4, <2>5, <2>6
<1> DEFINE M == N - (mid + 1)
           K == mid + 1
<1>5. /\ r \in InternalPages /\ Len(r.keys) = M /\ Len(r.children) = M + 1
      /\ DOMAIN r.keys = 1..M /\ DOMAIN r.children = 1..(M + 1)
      /\ \A i \in 1..M : r.keys[i] = n.keys[K + i]
      /\ \A i \in 1..(M + 1) : r.children[i] = n.children[K + i]
      /\ M \in Nat
  <2>0. K \in Nat /\ K <= N /\ N <= Len(n.keys) /\ K + 1 = mid + 2 /\ N \in Nat
        /\ N + 1 \in Nat /\ K <= N + 1 /\ N + 1 <= Len(n.children)
    BY <1>1, <1>2
  <2>1. /\ SubSeq(n.keys, K + 1, N) \in Seq(TreeKeys)
        /\ Len(SubSeq(n.keys, K + 1, N)) = N - K
        /\ \A i \in 1..(N - K) : SubSeq(n.keys, K + 1, N)[i] = n.keys[K + i]
    <3>1. n.keys \in Seq(TreeKeys) /\ K \in Nat /\ N \in Nat /\ K <= N /\ N <= Len(n.keys)
      BY <1>1, <2>0
    <3> HIDE DEF K, N
    <3> QED BY <3>1, RangeOf
  <2>2. /\ SubSeq(n.children, K + 1, N + 1) \in Seq(Nat)
        /\ Len(SubSeq(n.children, K + 1, N + 1)) = (N + 1) - K
        /\ \A i \in 1..((N + 1) - K) : SubSeq(n.children, K + 1, N + 1)[i] = n.children[K + i]
    <3>1. /\ n.children \in Seq(Nat) /\ K \in Nat /\ N + 1 \in Nat /\ K <= N + 1
          /\ N + 1 <= Len(n.children)
      BY <1>1, <2>0
    <3> HIDE DEF K
    <3> QED BY <3>1, RangeOf, SMTT(30)
  <2>3. N - K = M /\ (N + 1) - K = M + 1 /\ M \in Nat
    BY <1>1, <1>2
  <2>4. /\ r.keys \in Seq(TreeKeys) /\ Len(r.keys) = M
        /\ \A i \in 1..M : r.keys[i] = n.keys[K + i]
    <3> HIDE DEF K, M
    <3> QED BY <1>3, <2>0, <2>1, <2>3
  <2>5. /\ r.children \in Seq(Nat) /\ Len(r.children) = M + 1
        /\ \A i \in 1..(M + 1) : r.children[i] = n.children[K + i]
    <3> HIDE DEF K, M
    <3> QED BY <1>1, <1>3, <2>0, <2>2, <2>3
  <2>6. r \in InternalPages
    BY <1>3, <2>4, <2>5 DEF InternalPages
  <2> HIDE DEF M, K
  <2> QED BY <2>3, <2>4, <2>5, <2>6
<1>6. sep \in TreeKeys /\ sep \in h.marks
  BY <1>1, <1>2
<1>7. /\ \A i \in 1..mid : i \in 1..N /\ i < mid + 1 /\ ~Less(sep, n.keys[i])
      /\ \A i \in 1..M : K + i \in 1..N /\ mid + 1 < K + i /\ ~Less(n.keys[K + i], sep)
  BY <1>1, <1>2
<1>8. K = mid + 1 /\ M = N - K /\ K \in 1..N
  BY <1>1, <1>2
<1> HIDE DEF K, M, sep
\* The keys below each child are on its side of the separator.
<1>9. ASSUME NEW i \in 1..(N + 1), NEW k, k \in DOMAIN g[n.children[i]].map
      PROVE  IF i <= K THEN Less(k, sep) ELSE ~Less(k, sep)
  <2>1. Belongs(n, i, k)
    BY <1>1, <1>9 DEF ChildHolds
  <2>2. mid + 1 \in 1..N /\ (i <= K => ~(mid + 1 < i)) /\ (~(i <= K) => mid + 1 < i)
    BY <1>1, <1>2, <1>8
  <2> QED BY <1>1, <2>1, <2>2 DEF Belongs, sep
<1>10. ASSUME NEW i \in 1..(N + 1), NEW k, k \in g[n.children[i]].marks
       PROVE  IF i <= K THEN ~Less(sep, k) ELSE ~Less(k, sep)
  <2>1. Between(n, i, k)
    BY <1>1, <1>10 DEF ChildHolds
  <2>2. mid + 1 \in 1..N /\ (i <= K => ~(mid + 1 < i)) /\ (~(i <= K) => mid + 1 < i)
    BY <1>1, <1>2, <1>8
  <2> QED BY <1>1, <2>1, <2>2 DEF Between, sep
<1>11. InternalHolds(file, p, l, Below(h, sep), g)
  <2> DEFINE b == Below(h, sep)
  <2>1. /\ DOMAIN b.map = {k \in DOMAIN h.map : Less(k, sep)}
        /\ \A k \in DOMAIN b.map : b.map[k] = h.map[k]
        /\ b.marks = {k \in h.marks : ~Less(sep, k)}
    BY DEF Below, Restrict
  <2> HIDE DEF b
  <2>2. \A i \in 1..mid : l.keys[i] \in b.marks
    BY <1>1, <1>4, <1>7, <2>1
  <2>3. \A i, j \in 1..mid : i < j => ~Less(l.keys[j], l.keys[i])
    BY <1>1, <1>4, <1>7
  <2>4. ASSUME NEW i \in 1..(mid + 1) PROVE ChildHolds(file, p, l, b, g, i)
    <3> DEFINE c == n.children[i]
    <3>1. i \in 1..(N + 1) /\ i <= K /\ l.children[i] = c
      BY <1>1, <1>4, <1>8
    <3>2. /\ c \in 1..(p - 1) /\ file[c].kind # "overflow"
          /\ g[c].marks \subseteq h.marks
          /\ \A k \in g[c].marks : Between(n, i, k)
          /\ \A k \in DOMAIN g[c].map :
               Belongs(n, i, k) /\ k \in DOMAIN h.map /\ h.map[k] = g[c].map[k]
      BY <1>1, <3>1 DEF ChildHolds
    <3>3. g[c].marks \subseteq b.marks
      BY <1>10, <2>1, <3>1, <3>2
    <3>4. \A k \in g[c].marks : Between(l, i, k)
      BY <1>1, <1>4, <1>7, <3>2 DEF Between
    <3>5. \A k \in DOMAIN g[c].map :
            Belongs(l, i, k) /\ k \in DOMAIN b.map /\ b.map[k] = g[c].map[k]
      <4> TAKE k \in DOMAIN g[c].map
      <4>1. Belongs(n, i, k) /\ k \in DOMAIN h.map /\ h.map[k] = g[c].map[k]
        BY <3>2
      <4>2. Less(k, sep)
        BY <1>9, <3>1
      <4>3. Belongs(l, i, k)
        BY <1>1, <1>4, <1>7, <4>1 DEF Belongs
      <4> QED BY <2>1, <4>1, <4>2, <4>3
    <3> QED BY <3>1, <3>2, <3>3, <3>4, <3>5 DEF ChildHolds
  <2>5. \A k \in DOMAIN b.map : \E i \in 1..(mid + 1) : k \in DOMAIN g[l.children[i]].map
    <3> TAKE k \in DOMAIN b.map
    <3>1. PICK i \in 1..(N + 1) : k \in DOMAIN g[n.children[i]].map
      BY <1>1, <2>1
    <3>2. i <= K
      BY <1>9, <2>1, <3>1
    <3>3. i \in 1..(mid + 1)
      BY <1>8, <3>2
    <3> QED BY <1>4, <3>1, <3>3
  <2> QED BY <1>4, <2>2, <2>3, <2>4, <2>5 DEF InternalHolds, b
<1>12. InternalHolds(file, p, r, Above(h, sep), g)
  <2> DEFINE b == Above(h, sep)
  <2>1. /\ DOMAIN b.map = {k \in DOMAIN h.map : ~Less(k, sep)}
        /\ \A k \in DOMAIN b.map : b.map[k] = h.map[k]
        /\ b.marks = {k \in h.marks : ~Less(k, sep)}
    BY DEF Above, Restrict
  <2> HIDE DEF b
  <2>2. \A i \in 1..M : r.keys[i] \in b.marks
    BY <1>1, <1>5, <1>7, <2>1
  <2>3. \A i, j \in 1..M : i < j => ~Less(r.keys[j], r.keys[i])
    <3> TAKE i, j \in 1..M
    <3>1. i < j => K + i < K + j
      BY <1>8
    <3> QED BY <1>1, <1>5, <1>7, <3>1
  <2>4. ASSUME NEW i \in 1..(M + 1) PROVE ChildHolds(file, p, r, b, g, i)
    <3> DEFINE c == n.children[K + i]
    <3>6. K + i \in 1..(N + 1) /\ ~(K + i <= K) /\ K \in Nat
      <4>1. N \in Nat
        BY <1>1
      <4> HIDE DEF N, c
      <4> QED BY <1>8, <4>1
    <3>1. K + i \in 1..(N + 1) /\ ~(K + i <= K) /\ r.children[i] = c
      BY <1>5, <3>6
    <3>2. /\ c \in 1..(p - 1) /\ file[c].kind # "overflow"
          /\ g[c].marks \subseteq h.marks
          /\ \A k \in g[c].marks : Between(n, K + i, k)
          /\ \A k \in DOMAIN g[c].map :
               Belongs(n, K + i, k) /\ k \in DOMAIN h.map /\ h.map[k] = g[c].map[k]
      BY <1>1, <3>1 DEF ChildHolds
    <3>3. g[c].marks \subseteq b.marks
      BY <1>10, <2>1, <3>1, <3>2
    <3>0. \A j \in 1..M : j < i <=> K + j < K + i
      BY <3>6
    <3>4. \A k \in g[c].marks : Between(r, i, k)
      <4> TAKE k \in g[c].marks
      <4>1. Between(n, K + i, k)
        BY <3>2
      <4>2. ASSUME NEW j \in 1..M
            PROVE  IF j < i THEN ~Less(k, r.keys[j]) ELSE ~Less(r.keys[j], k)
        <5>1. K + j \in 1..N /\ (j < i <=> K + j < K + i) /\ r.keys[j] = n.keys[K + j]
          BY <1>5, <1>7, <3>0
        <5> QED BY <1>1, <4>1, <5>1 DEF Between
      <4> QED BY <1>5, <4>2 DEF Between
    <3>5. \A k \in DOMAIN g[c].map :
            Belongs(r, i, k) /\ k \in DOMAIN b.map /\ b.map[k] = g[c].map[k]
      <4> TAKE k \in DOMAIN g[c].map
      <4>1. Belongs(n, K + i, k) /\ k \in DOMAIN h.map /\ h.map[k] = g[c].map[k]
        BY <3>2
      <4>2. ~Less(k, sep)
        BY <1>9, <3>1
      <4>3. Belongs(r, i, k)
        BY <1>1, <1>5, <1>7, <3>0, <4>1, SMTT(30) DEF Belongs
      <4> QED BY <2>1, <4>1, <4>2, <4>3
    <3> QED BY <3>1, <3>2, <3>3, <3>4, <3>5 DEF ChildHolds
  <2>5. \A k \in DOMAIN b.map : \E i \in 1..(M + 1) : k \in DOMAIN g[r.children[i]].map
    <3> TAKE k \in DOMAIN b.map
    <3>1. PICK i \in 1..(N + 1) : k \in DOMAIN g[n.children[i]].map
      BY <1>1, <2>1
    <3>2. ~(i <= K)
      BY <1>9, <2>1, <3>1
    <3>3. i - K \in 1..(M + 1) /\ K + (i - K) = i
      BY <1>1, <1>8, <3>2, SMTT(30)
    <3> QED BY <1>5, <3>1, <3>3
  <2> QED BY <1>5, <2>2, <2>3, <2>4, <2>5 DEF InternalHolds, b
<1> QED BY <1>3, <1>6, <1>11, <1>12 DEF l, r, sep

-----------------------------------------------------------------------------
(***************************************************************************)
(* Sizes, and a node written in one page or two                            *)
(***************************************************************************)

\* The partial sums of sizes.
IsTotal(sizes, f) ==
  /\ f[0] = 0
  /\ \A n \in 1..Len(sizes) : f[n] = f[n - 1] + sizes[n]

\* The sum of sizes is accumulated from the first one on.
LEMMA TotalOf ==
  ASSUME NEW sizes, Len(sizes) \in Nat
  PROVE  \E f : IsTotal(sizes, f) /\ Total(sizes) = f[Len(sizes)]
<1> DEFINE First == 0
           Step(x, n) == x + sizes[n]
           Rec(f, k) == [n \in 0..k |-> IF n = 0 THEN First ELSE Step(f[n - 1], n)]
           Bad == {k \in 0..Len(sizes) : ~\E f : f = Rec(f, k)}
           all == CHOOSE f : f = Rec(f, Len(sizes))
<1>0. Len(sizes) \in Nat
  OBVIOUS
<1>1. Total(sizes) = all[Len(sizes)]
  BY DEF Total
<1> HIDE DEF First, Step
<1>2. Bad = {}
  <2> SUFFICES ASSUME Bad # {} PROVE FALSE
    OBVIOUS
  <2>1. PICK k \in Bad : \A y \in Bad : k <= y
    <3>1. Bad \subseteq Nat
      OBVIOUS
    <3> HIDE DEF Bad
    <3> QED BY <3>1, Least
  <2>2. k \in 0..Len(sizes) /\ ~\E f : f = Rec(f, k)
    OBVIOUS
  <2>3. CASE k = 0
    <3> DEFINE f == [n \in 0..0 |-> First]
    <3>1. f = Rec(f, 0)
      OBVIOUS
    <3> QED BY <2>2, <2>3, <3>1
  <2>4. CASE k # 0
    <3>1. k - 1 \in 0..Len(sizes) /\ ~(k <= k - 1)
      BY <1>0, <2>2, <2>4
    <3>2. PICK f : f = Rec(f, k - 1)
      <4>1. k - 1 \notin Bad
        <5> HIDE DEF Bad
        <5> QED BY <2>1, <3>1
      <4> QED BY <3>1, <4>1
    <3> DEFINE g == [n \in 0..k |-> IF n = k THEN Step(f[k - 1], k) ELSE f[n]]
    <3>3. ASSUME NEW n \in 0..k
          PROVE  g[n] = IF n = 0 THEN First ELSE Step(g[n - 1], n)
      <4>1. n = k \/ n \in 0..(k - 1)
        BY <2>2
      <4>2. n # 0 => n - 1 \in 0..(k - 1) /\ n - 1 \in 0..k /\ n - 1 # k
        BY <2>2
      <4>3. n # 0 => g[n - 1] = f[n - 1]
        BY <4>2
      <4>4. n \in 0..(k - 1) => f[n] = IF n = 0 THEN First ELSE Step(f[n - 1], n)
        BY <3>2
      <4>5. g[n] = IF n = k THEN Step(f[k - 1], k) ELSE f[n]
        OBVIOUS
      <4> HIDE DEF g
      <4> QED BY <2>4, <4>1, <4>3, <4>4, <4>5
    <3>4. g = Rec(g, k)
      BY <3>3
    <3> HIDE DEF g
    <3> QED BY <2>2, <3>4
  <2> QED BY <2>3, <2>4
<1>3. \E f : f = Rec(f, Len(sizes))
  BY <1>0, <1>2
<1>4. all = Rec(all, Len(sizes))
  <2> HIDE DEF Rec
  <2> QED BY <1>3
<1>5. all[0] = First
  <2> HIDE DEF all
  <2> QED BY <1>0, <1>4
<1>6. ASSUME NEW n \in 1..Len(sizes) PROVE all[n] = Step(all[n - 1], n)
  <2>1. n \in 0..Len(sizes) /\ n # 0
    BY <1>0
  <2> HIDE DEF all
  <2> QED BY <1>4, <2>1
<1> HIDE DEF all
<1>7. QED BY <1>1, <1>5, <1>6 DEF First, Step, IsTotal


\* A leaf that does not fit a page has two entries, an internal node a separator.
LEMMA TooLarge ==
  ASSUME NEW file, NEW p, NEW n, NEW h, NEW g, NodeHolds(file, p, n, h, g), ~Fits(n)
  PROVE  /\ LeafHolds(file, p, n, h) => Len(n.entries) >= 2
         /\ InternalHolds(file, p, n, h, g) => Len(n.keys) >= 1
<1>1. BodySize \in Nat /\ BodySize > 12 /\ MaxInline \in Nat
  BY BTreeAssumption
<1>2. ASSUME LeafHolds(file, p, n, h), ~(Len(n.entries) >= 2) PROVE FALSE
  <2> DEFINE sizes == [i \in DOMAIN n.entries |-> EntrySize(n.entries[i])]
             N == Len(n.entries)
  <2>0. n.kind = "leaf" /\ n.entries \in Seq(Entry)
    BY <1>2 DEF LeafHolds, LeafPages
  <2>1. /\ n.kind = "leaf" /\ n.entries \in Seq(Entry) /\ N \in 0..1 /\ DOMAIN n.entries = 1..N
    <3>1. N \in Nat /\ DOMAIN n.entries = 1..N
      BY <2>0
    <3> HIDE DEF N
    <3>3. ~(N >= 2)
      BY <1>2 DEF N
    <3>2. N \in 0..1
      BY <3>1, <3>3
    <3> QED BY <2>0, <3>1, <3>2
  <2>2. EncodedSize(n) = 2 + Total(sizes)
    BY <2>1 DEF EncodedSize
  <2>3. Len(sizes) = N /\ \A i \in 1..N : sizes[i] = EntrySize(n.entries[i])
    BY <2>1
  <2> HIDE DEF sizes
  <2>4. PICK f : IsTotal(sizes, f) /\ Total(sizes) = f[Len(sizes)]
    BY <2>1, <2>3, TotalOf
  <2>5. f[0] = 0 /\ \A i \in 1..N : f[i] = f[i - 1] + sizes[i]
    BY <2>3, <2>4 DEF IsTotal
  <2>6. CASE N = 0
    BY <1>1, <1>2, <2>2, <2>3, <2>4, <2>5, <2>6 DEF Fits
  <2>7. CASE N = 1
    <3> DEFINE e == n.entries[1]
               v == h.map[e.key]
    <3>1. EntryHolds(file, p, e, v)
      BY <1>2, <2>1, <2>7 DEF LeafHolds
    <3>2. /\ e.key \in TreeKeys /\ v.len \in Nat
          /\ (e.head = InvalidPageID /\ e.inline = v /\ v.len <= MaxInline) \/ e.head # InvalidPageID
      <4>1. e \in Entry /\ v \in Values /\ InvalidPageID < 0 /\ (e.head \in 1..(p - 1) => e.head >= 1)
        BY <3>1 DEF EntryHolds, InvalidPageID
      <4> HIDE DEF e, v
      <4> QED BY <3>1, <4>1, BTreeAssumption DEF EntryHolds, Entry
    <3>3. Len(e.key) \in Nat
      BY <3>2, TreeKeysAre DEF Bytes
    <3> HIDE DEF e, v
    <3>4. 2 + EntrySize(e) <= BodySize
      <4>1. CASE e.head = InvalidPageID /\ e.inline = v /\ v.len <= MaxInline
        BY <1>1, <3>2, <3>3, <4>1, SizeAssumption, SMTT(30) DEF EntrySize
      <4>2. CASE e.head # InvalidPageID
        BY <1>1, <3>2, <3>3, <4>2, SizeAssumption DEF EntrySize
      <4> QED BY <3>2, <4>1, <4>2
    <3>5. f[1] = EntrySize(e)
      <4>1. f[1] = f[0] + sizes[1] /\ sizes[1] = EntrySize(e)
        BY <2>3, <2>5, <2>7 DEF e
      <4>2. EntrySize(e) \in Int
        BY <1>1, <3>2, <3>3 DEF EntrySize
      <4> QED BY <2>5, <4>1, <4>2
    <3> QED BY <1>2, <2>2, <2>3, <2>4, <2>7, <3>4, <3>5 DEF Fits
  <2> QED BY <2>1, <2>6, <2>7
<1>3. ASSUME InternalHolds(file, p, n, h, g), ~(Len(n.keys) >= 1) PROVE FALSE
  <2> DEFINE sizes == [i \in DOMAIN n.keys |-> ChildSize(n.keys[i])]
  <2>1. n.kind = "internal" /\ Len(n.keys) = 0 /\ DOMAIN n.keys = 1..0
    <3>1. IsRecord(h)
      BY DEF NodeHolds
    <3>2. n.kind = "internal" /\ Len(n.keys) \in Nat /\ DOMAIN n.keys = 1..Len(n.keys)
      BY <1>3, <3>1, InternalIs
    <3> QED BY <1>3, <3>2
  <2>2. EncodedSize(n) = 2 + 8 + Total(sizes)
    BY <2>1 DEF EncodedSize
  <2>3. Len(sizes) = 0
    BY <2>1
  <2> HIDE DEF sizes
  <2>4. PICK f : IsTotal(sizes, f) /\ Total(sizes) = f[Len(sizes)]
    BY <2>3, TotalOf
  <2>5. Total(sizes) = 0
    BY <2>3, <2>4 DEF IsTotal
  <2> QED BY <1>1, <2>2, <2>5 DEF Fits
<1> QED BY <1>2, <1>3

\* What a node written leaves of its record: the page it is in, or two pages
\* with the halves of the record.
Written(file, n, h, w, l) ==
  /\ FileHolds(w.pages, l)
  /\ w.id = n + 1 /\ n + 1 <= Len(w.pages) /\ w.pages[n + 1].kind # "overflow"
  /\ \/ /\ w.right = InvalidPageID /\ Len(w.pages) = n + 1
        /\ l[n + 1] = h
     \/ /\ w.right = n + 2 /\ Len(w.pages) = n + 2
        /\ w.pages[n + 2].kind # "overflow"
        /\ w.sep \in h.marks /\ l[n + 1] = Below(h, w.sep) /\ l[n + 2] = Above(h, w.sep)

\* A node that holds is written in one page, or in two that share its record.
LEMMA WritesNode ==
  ASSUME NEW file, NEW g, FileHolds(file, g), NEW n, NEW h,
         NodeHolds(file, Len(file) + 1, n, h, g)
  PROVE  LET w == WriteMaybeSplit(file, n)
         IN  \E l : Written(file, Len(file), h, w, l) /\ Extends(file, g, w.pages, l)
<1> DEFINE w == WriteMaybeSplit(file, n)
           N == Len(file)
<1>0. N \in Nat /\ file \in Seq(Page) /\ IsRecord(h)
  BY DEF FileHolds, NodeHolds
<1>1. CASE Fits(n)
  <2> DEFINE l == Put(g, N, h)
  <2>1. /\ w.pages = Append(file, n) /\ w.id = N + 1 /\ w.right = InvalidPageID
        /\ Stored(n) = n
    BY <1>1 DEF WriteMaybeSplit, Stored
  <2>2. /\ FileHolds(Append(file, Stored(n)), l) /\ Extends(file, g, Append(file, Stored(n)), l)
        /\ Len(Append(file, Stored(n))) = N + 1 /\ l[N + 1] = h
        /\ Append(file, Stored(n))[N + 1] = Stored(n) /\ Stored(n).kind # "overflow"
    BY StoresNode
  <2> HIDE DEF w, l, N
  <2>3. Written(file, N, h, w, l) /\ Extends(file, g, w.pages, l)
    BY <1>0, <2>1, <2>2 DEF Written
  <2> QED BY <2>3 DEF w, N
<1>2. CASE ~Fits(n)
  <2> DEFINE halves == IF n.kind = "leaf" THEN SplitLeaf(n) ELSE SplitInternal(n)
             s == halves.sep
             f1 == Append(file, Stored(halves.left))
             g1 == Put(g, N, Below(h, s))
             f2 == Append(f1, Stored(halves.right))
             g2 == Put(g1, N + 1, Above(h, s))
  <2>1. /\ s \in h.marks
        /\ NodeHolds(file, N + 1, halves.left, Below(h, s), g)
        /\ NodeHolds(file, N + 1, halves.right, Above(h, s), g)
    <3>1. /\ s \in h.marks
          /\ \/ /\ LeafHolds(file, N + 1, halves.left, Below(h, s))
                /\ LeafHolds(file, N + 1, halves.right, Above(h, s))
             \/ /\ InternalHolds(file, N + 1, halves.left, Below(h, s), g)
                /\ InternalHolds(file, N + 1, halves.right, Above(h, s), g)
      <4>1. CASE LeafHolds(file, N + 1, n, h)
        <5>1. n.kind = "leaf" /\ Len(n.entries) >= 2
          BY <1>2, <4>1, TooLarge DEF LeafHolds, LeafPages
        <5> QED BY <1>0, <4>1, <5>1, SplitsLeaf
      <4>2. CASE InternalHolds(file, N + 1, n, h, g)
        <5>1. n.kind = "internal" /\ Len(n.keys) >= 1
          BY <1>2, <4>2, TooLarge DEF InternalHolds, InternalPages
        <5> QED BY <1>0, <4>2, <5>1, SplitsInternal
      <4> QED BY <4>1, <4>2 DEF NodeHolds
    <3>2. IsRecord(Below(h, s)) /\ IsRecord(Above(h, s))
      <4>1. s \in TreeKeys
        BY <1>0, <3>1 DEF IsRecord
      <4> QED BY <1>0, <4>1, RecordsAre
    <3> HIDE DEF halves, s, N
    <3> QED BY <3>1, <3>2 DEF NodeHolds
  <2>2. /\ w.pages = file \o <<Stored(halves.left), Stored(halves.right)>>
        /\ w.id = N + 1 /\ w.right = N + 2 /\ w.sep = s
    BY <1>2 DEF WriteMaybeSplit
  <2> HIDE DEF halves, s, w
  <2>3. /\ FileHolds(f1, g1) /\ Extends(file, g, f1, g1)
        /\ Len(f1) = N + 1 /\ g1[N + 1] = Below(h, s)
        /\ f1[N + 1] = Stored(halves.left) /\ Stored(halves.left).kind # "overflow"
    BY <2>1, StoresNode
  <2>4. NodeHolds(f1, N + 1 + 1, halves.right, Above(h, s), g1)
    <3> HIDE DEF f1, g1
    <3>1. N + 1 \in Nat /\ N + 1 + 1 \in Nat /\ N + 1 <= N + 1 + 1 /\ N + 1 <= Len(file) + 1
      BY <1>0
    <3> QED BY <1>0, <2>1, <2>3, <3>1, NodeStays
  <2>5. /\ FileHolds(f2, g2) /\ Extends(f1, g1, f2, g2)
        /\ Len(f2) = N + 1 + 1 /\ g2[N + 1 + 1] = Above(h, s)
        /\ f2[N + 1 + 1] = Stored(halves.right) /\ Stored(halves.right).kind # "overflow"
    <3> HIDE DEF f1, g1, N
    <3>1. /\ FileHolds(f2, Put(g1, Len(f1), Above(h, s))) /\ Extends(f1, g1, f2, Put(g1, Len(f1), Above(h, s)))
          /\ Len(f2) = Len(f1) + 1 /\ Put(g1, Len(f1), Above(h, s))[Len(f1) + 1] = Above(h, s)
          /\ f2[Len(f1) + 1] = Stored(halves.right) /\ Stored(halves.right).kind # "overflow"
      BY <2>3, <2>4, StoresNode
    <3> QED BY <2>3, <3>1
  <2>6. w.pages = f2
    <3> DEFINE a == Stored(halves.left)
               b == Stored(halves.right)
    <3>1. file \o <<a, b>> = Append(Append(file, a), b)
      <4> HIDE DEF a, b, N
      <4> QED BY <1>0
    <3> QED BY <2>2, <3>1
  <2> HIDE DEF f1, f2, g1, g2
  <2>7. Extends(file, g, f2, g2)
    BY <1>0, <2>3, <2>5, ExtendsFurther
  <2>8. /\ f2[N + 1] = Stored(halves.left) /\ g2[N + 1] = Below(h, s)
        /\ N + 1 + 1 = N + 2
    <3>1. N + 1 \in 1..Len(f1)
      BY <1>0, <2>3
    <3> QED BY <1>0, <2>3, <2>5, <3>1 DEF Extends
  <2>9. Written(file, N, h, w, g2)
    <3> HIDE DEF N
    <3>3. N + 1 <= N + 2
      BY <1>0 DEF N
    <3>1. /\ FileHolds(w.pages, g2) /\ w.id = N + 1 /\ Len(w.pages) = N + 2
          /\ w.pages[N + 1].kind # "overflow" /\ w.right = N + 2
      BY <2>2, <2>3, <2>5, <2>6, <2>8
    <3>2. /\ w.pages[N + 2].kind # "overflow" /\ w.sep \in h.marks
          /\ g2[N + 1] = Below(h, w.sep) /\ g2[N + 2] = Above(h, w.sep)
      BY <2>1, <2>2, <2>5, <2>6, <2>8
    <3> QED BY <3>1, <3>2, <3>3 DEF Written
  <2> QED BY <2>6, <2>7, <2>9 DEF w
<1> QED BY <1>1, <1>2

-----------------------------------------------------------------------------
(***************************************************************************)
(* Insert                                                                  *)
(***************************************************************************)

\* t is s with e in place of its elements from a + 1 to c.
IsSplice(S, t, s, e, a, c) ==
  /\ t \in Seq(S) /\ Len(t) = a + 1 + (Len(s) - c)
  /\ \A i \in 1..a : t[i] = s[i]
  /\ t[a + 1] = e
  /\ \A j \in 1..(Len(s) - c) : t[a + 1 + j] = s[c + j]

\* A sequence with an element in place of some.
LEMMA Splices ==
  ASSUME NEW S, NEW s \in Seq(S), NEW e \in S, NEW a \in Nat, NEW c \in Nat,
         a <= c, c <= Len(s)
  PROVE  IsSplice(S, SubSeq(s, 1, a) \o <<e>> \o SubSeq(s, c + 1, Len(s)), s, e, a, c)
<1> DEFINE N == Len(s)
           front == SubSeq(s, 1, a)
           back == SubSeq(s, c + 1, N)
           mid == front \o <<e>>
           t == mid \o back
<1>0. N \in Nat
  OBVIOUS
<1>1. front \in Seq(S) /\ Len(front) = a /\ \A i \in 1..a : front[i] = s[i]
  <2>1. /\ SubSeq(s, 0 + 1, a) \in Seq(S) /\ Len(SubSeq(s, 0 + 1, a)) = a - 0
        /\ \A i \in 1..(a - 0) : SubSeq(s, 0 + 1, a)[i] = s[0 + i]
    <3>1. 0 \in Nat /\ 0 <= a /\ a <= Len(s)
      BY <1>0
    <3> QED BY <3>1, RangeOf
  <2>2. 0 + 1 = 1 /\ a - 0 = a /\ \A i \in 1..a : 0 + i = i
    OBVIOUS
  <2> QED BY <2>1, <2>2
<1>2. back \in Seq(S) /\ Len(back) = N - c /\ \A j \in 1..(N - c) : back[j] = s[c + j]
  BY RangeOf
<1> HIDE DEF front, back
<1>3. <<e>> \in Seq(S) /\ Len(<<e>>) = 1 /\ <<e>>[1] = e
  OBVIOUS
<1>4. /\ mid \in Seq(S) /\ Len(mid) = a + 1
      /\ \A i \in 1..a : mid[i] = s[i]
      /\ mid[a + 1] = e
  <2>1. /\ mid \in Seq(S) /\ Len(mid) = Len(front) + Len(<<e>>)
        /\ \A i \in 1..Len(front) : mid[i] = front[i]
        /\ \A i \in 1..Len(<<e>>) : mid[Len(front) + i] = <<e>>[i]
    BY <1>1, <1>3, Joins
  <2> HIDE DEF mid
  <2> QED BY <1>1, <1>3, <2>1
<1> HIDE DEF mid
<1>5. /\ t \in Seq(S) /\ Len(t) = Len(mid) + Len(back)
      /\ \A i \in 1..Len(mid) : t[i] = mid[i]
      /\ \A i \in 1..Len(back) : t[Len(mid) + i] = back[i]
  <2>1. mid \in Seq(S) /\ back \in Seq(S)
    BY <1>2, <1>4
  <2> QED BY <2>1, Joins
<1> HIDE DEF t
<1>6. /\ Len(t) = a + 1 + (N - c)
      /\ \A i \in 1..a : t[i] = s[i]
      /\ t[a + 1] = e
  <2>1. \A i \in 1..a : i \in 1..(a + 1)
    OBVIOUS
  <2>2. a + 1 \in 1..(a + 1)
    OBVIOUS
  <2> HIDE DEF N
  <2> QED BY <1>2, <1>4, <1>5, <2>1, <2>2
<1>7. \A j \in 1..(N - c) : t[a + 1 + j] = s[c + j]
  BY <1>2, <1>4, <1>5
<1>8. IsSplice(S, t, s, e, a, c)
  BY <1>5, <1>6, <1>7 DEF IsSplice, N
<1> QED BY <1>8 DEF t, mid, front, back, N

\* A leaf with an entry of its key holds its record with the key's value.
LEMMA WithEntryHolds ==
  ASSUME NEW file, NEW p, NEW n, NEW h, LeafHolds(file, p, n, h), IsRecord(h),
         NEW e, NEW v, EntryHolds(file, p, e, v)
  PROVE  LeafHolds(file, p, WithEntry(n, e), Updated(h, e.key, v))
<1> DEFINE N == Len(n.entries)
           k == e.key
           at == LeafSearch(n.entries, k)
           rest == IF Found(n.entries, k) THEN at + 1 ELSE at
           a == at - 1
           c == rest - 1
           s == SubSeq(n.entries, 1, at - 1) \o <<e>> \o SubSeq(n.entries, rest, N)
           r == Updated(h, k, v)
<1>1. /\ n.entries \in Seq(Entry) /\ N \in Nat /\ DOMAIN n.entries = 1..N
      /\ \A i \in 1..N : n.entries[i].key \in TreeKeys /\ n.entries[i].key \in DOMAIN h.map
      /\ \A i, j \in 1..N : i < j => Less(n.entries[i].key, n.entries[j].key)
      /\ \A i \in 1..N : EntryHolds(file, p, n.entries[i], h.map[n.entries[i].key])
      /\ \A x \in DOMAIN h.map : \E i \in 1..N : n.entries[i].key = x
  <2>1. n.entries \in Seq(Entry)
    BY DEF LeafHolds, LeafPages
  <2>2. N \in Nat /\ DOMAIN n.entries = 1..N
    BY <2>1
  <2> QED BY <2>1, <2>2 DEF LeafHolds, IsRecord
<1>2. e \in Entry /\ k \in TreeKeys
  BY DEF EntryHolds, Entry
<1>3. /\ at \in 1..(N + 1)
      /\ \A j \in 1..N : j < at => Less(n.entries[j].key, k)
      /\ at <= N => ~Less(n.entries[at].key, k)
  BY <1>1, SearchIs
<1>4. /\ a \in Nat /\ c \in Nat /\ a <= c /\ c <= N
      /\ a + 1 = at /\ c + 1 = rest
      /\ \A i \in 1..N : i <= a \/ i > c \/ n.entries[i].key = k
  <2>1. Found(n.entries, k) = (at <= N /\ n.entries[at].key = k)
    BY DEF Found
  <2> HIDE DEF at
  <2>2. CASE Found(n.entries, k)
    <3>1. at <= N /\ rest = at + 1
      BY <2>1, <2>2
    <3>2. \A i \in 1..N : i <= a \/ i > c \/ i = at
      BY <1>1, <1>3, <3>1
    <3>3. \A i \in 1..N : i = at => n.entries[i].key = k
      BY <2>1, <2>2
    <3> HIDE DEF rest
    <3> QED BY <1>1, <1>3, <3>1, <3>2, <3>3
  <2>3. CASE ~Found(n.entries, k)
    <3>1. rest = at
      BY <2>3
    <3> QED BY <1>1, <1>3, <3>1
  <2> QED BY <2>2, <2>3
<1>5. \A i \in 1..N : i > c => Less(k, n.entries[i].key)
  <2> TAKE i \in 1..N
  <2> HAVE i > c
  <2>1. at <= N /\ (i = at \/ at < i)
    BY <1>1, <1>3, <1>4
  <2>2. ~Less(n.entries[at].key, k) /\ n.entries[at].key \in TreeKeys
    BY <1>1, <1>3, <2>1
  <2>3. CASE n.entries[at].key = k
    <3>1. Found(n.entries, k)
      BY <2>1, <2>3 DEF Found
    <3>2. at < i
      <4>1. rest = at + 1
        BY <3>1
      <4> HIDE DEF at, rest
      <4> QED BY <1>1, <1>3, <1>4, <2>1, <4>1
    <3> QED BY <1>1, <1>3, <2>1, <2>3, <3>2
  <2>4. CASE n.entries[at].key # k
    <3>1. Less(k, n.entries[at].key)
      BY <1>2, <2>2, <2>4, KeyOrder
    <3>2. at < i => Less(n.entries[at].key, n.entries[i].key)
      BY <1>1, <1>3, <2>1
    <3> HIDE DEF at, k
    <3> QED BY <1>1, <1>2, <2>1, <2>2, <3>1, <3>2, KeyOrder
  <2> QED BY <2>3, <2>4
<1> DEFINE M == N - c
<1> HIDE DEF at, rest
<1>6. /\ s \in Seq(Entry) /\ Len(s) = a + 1 + M /\ M \in Nat
      /\ \A i \in 1..a : s[i] = n.entries[i]
      /\ s[a + 1] = e
      /\ \A j \in 1..M : s[a + 1 + j] = n.entries[c + j]
  <2>1. a = at - 1
    OBVIOUS
  <2>2. a \in Nat /\ c \in Nat /\ a <= c /\ c <= Len(n.entries)
    BY <1>4
  <2> HIDE DEF a, c, N
  <2>4. s = SubSeq(n.entries, 1, a) \o <<e>> \o SubSeq(n.entries, c + 1, Len(n.entries))
    BY <1>4, <2>1 DEF N
  <2> HIDE DEF s
  <2>3. /\ s \in Seq(Entry) /\ Len(s) = a + 1 + (Len(n.entries) - c)
        /\ \A i \in 1..a : s[i] = n.entries[i]
        /\ s[a + 1] = e
        /\ \A j \in 1..(Len(n.entries) - c) : s[a + 1 + j] = n.entries[c + j]
    <3>1. n.entries \in Seq(Entry) /\ e \in Entry
      BY <1>1, <1>2
    <3>2. IsSplice(Entry, s, n.entries, e, a, c)
      BY <2>2, <2>4, <3>1, Splices
    <3> QED BY <3>2 DEF IsSplice
  <2>5. M \in Nat
    BY <1>1, <1>4
  <2> QED BY <2>3, <2>4, <2>5 DEF N
<1>7. WithEntry(n, e) = [kind |-> "leaf", entries |-> s]
  BY DEF WithEntry, Leaf, at, rest
<1> HIDE DEF s, a, c, M, k
\* Every entry is of one of three kinds.
<1>8. /\ DOMAIN s = 1..(a + 1 + M)
      /\ \A i \in DOMAIN s : i \in 1..a \/ i = a + 1 \/ \E j \in 1..M : i = a + 1 + j
  <2>1. DOMAIN s = 1..(a + 1 + M)
    BY <1>6
  <2>2. ASSUME NEW i \in 1..(a + 1 + M), ~(i \in 1..a), i # a + 1
        PROVE  \E j \in 1..M : i = a + 1 + j
    <3>1. i - (a + 1) \in 1..M /\ i = a + 1 + (i - (a + 1))
      BY <1>4, <1>6, <2>2
    <3> QED BY <3>1
  <2> QED BY <2>1, <2>2
<1>9. /\ DOMAIN r.map = DOMAIN h.map \cup {k}
      /\ \A x \in DOMAIN r.map : r.map[x] = IF x = k THEN v ELSE h.map[x]
  BY DEF Updated, With, k
<1> HIDE DEF r
<1>10. /\ \A i \in 1..a : i \in 1..N /\ Less(n.entries[i].key, k)
       /\ \A j \in 1..M : c + j \in 1..N /\ Less(k, n.entries[c + j].key)
  <2>1. \A i \in 1..a : i \in 1..N /\ i < at
    BY <1>1, <1>4
  <2>2. \A j \in 1..M : c + j \in 1..N /\ c + j > c
    BY <1>1, <1>4 DEF M
  <2> QED BY <1>3, <1>5, <2>1, <2>2 DEF k
<1>11. \A i, j \in DOMAIN s : i < j => Less(s[i].key, s[j].key)
  <2> SUFFICES ASSUME NEW i \in DOMAIN s, NEW j \in DOMAIN s, i < j
               PROVE  Less(s[i].key, s[j].key)
    OBVIOUS
  <2>1. CASE i \in 1..a /\ j \in 1..a
    BY <1>1, <1>6, <1>10, <2>1
  <2>2. CASE i \in 1..a /\ j = a + 1
    BY <1>6, <1>10, <2>2 DEF k
  <2>3. CASE i \in 1..a /\ \E y \in 1..M : j = a + 1 + y
    <3>1. PICK y \in 1..M : j = a + 1 + y
      BY <2>3
    <3>2. i \in 1..N /\ c + y \in 1..N /\ i < c + y
      BY <1>4, <1>10, <2>3
    <3> QED BY <1>1, <1>6, <2>3, <3>1, <3>2
  <2>4. CASE i = a + 1 /\ \E y \in 1..M : j = a + 1 + y
    BY <1>6, <1>10, <2>4 DEF k
  <2>5. CASE (\E x \in 1..M : i = a + 1 + x) /\ (\E y \in 1..M : j = a + 1 + y)
    <3>1. PICK x \in 1..M, y \in 1..M : i = a + 1 + x /\ j = a + 1 + y
      BY <2>5
    <3>2. c + x \in 1..N /\ c + y \in 1..N /\ c + x < c + y
      <4>1. x < y
        BY <1>4, <1>6, <3>1
      <4> QED BY <1>4, <1>10, <4>1
    <3> QED BY <1>1, <1>6, <3>1, <3>2
  <2>6. /\ i = a + 1 => ~(j \in 1..a) /\ j # a + 1
        /\ \A x \in 1..M : i = a + 1 + x => ~(j \in 1..a) /\ j # a + 1
    BY <1>4, <1>6
  <2> QED BY <1>8, <2>1, <2>2, <2>3, <2>4, <2>5, <2>6
<1>12. \A i \in DOMAIN s : /\ s[i].key \in DOMAIN r.map
                           /\ EntryHolds(file, p, s[i], r.map[s[i].key])
  <2> TAKE i \in DOMAIN s
  <2>1. CASE i = a + 1
    BY <1>6, <1>9, <2>1 DEF k
  <2>2. ASSUME NEW x \in 1..N, s[i] = n.entries[x], n.entries[x].key # k
        PROVE  /\ s[i].key \in DOMAIN r.map
               /\ EntryHolds(file, p, s[i], r.map[s[i].key])
    BY <1>1, <1>9, <2>2
  <2>3. CASE i \in 1..a
    <3>1. i \in 1..N /\ s[i] = n.entries[i] /\ Less(n.entries[i].key, k)
      BY <1>6, <1>10, <2>3
    <3>2. n.entries[i].key # k
      BY <1>2, <3>1, KeyOrder
    <3> QED BY <2>2, <3>1, <3>2
  <2>4. CASE \E j \in 1..M : i = a + 1 + j
    <3>1. PICK j \in 1..M : i = a + 1 + j
      BY <2>4
    <3>2. c + j \in 1..N /\ s[i] = n.entries[c + j] /\ Less(k, n.entries[c + j].key)
      BY <1>6, <1>10, <3>1
    <3>3. n.entries[c + j].key # k
      BY <1>2, <3>2, KeyOrder
    <3> QED BY <2>2, <3>2, <3>3
  <2> QED BY <1>8, <2>1, <2>3, <2>4
<1>13. \A x \in DOMAIN r.map : \E i \in DOMAIN s : s[i].key = x
  <2> TAKE x \in DOMAIN r.map
  <2>1. CASE x = k
    <3>1. a + 1 \in DOMAIN s
      BY <1>4, <1>6, <1>8
    <3> QED BY <1>6, <2>1, <3>1 DEF k
  <2>2. CASE x # k
    <3>1. PICK i \in 1..N : n.entries[i].key = x
      BY <1>1, <1>9, <2>2
    <3>2. i <= a \/ i > c
      BY <1>4, <2>2, <3>1
    <3>3. CASE i <= a
      <4>1. i \in 1..a /\ i \in DOMAIN s
        BY <1>1, <1>4, <1>6, <1>8, <3>3
      <4> QED BY <1>6, <3>1, <4>1
    <3>4. CASE i > c
      <4>1. i - c \in 1..M /\ c + (i - c) = i /\ a + 1 + (i - c) \in DOMAIN s
        BY <1>1, <1>4, <1>6, <1>8, <3>4 DEF M
      <4> QED BY <1>6, <3>1, <4>1
    <3> QED BY <3>2, <3>3, <3>4
  <2> QED BY <2>1, <2>2
<1>14. WithEntry(n, e) \in LeafPages
  BY <1>6, <1>7 DEF LeafPages
<1> QED BY <1>7, <1>11, <1>12, <1>13, <1>14 DEF LeafHolds, r, k

\* A separator put into the range of the child c: m has the keys of n, with s as
\* its c-th one.
IsSeparated(n, m, c, s) ==
  /\ c \in 1..(Len(n.keys) + 1) /\ s \in TreeKeys /\ Between(n, c, s)
  /\ m.keys \in Seq(TreeKeys) /\ Len(m.keys) = Len(n.keys) + 1
  /\ \A j \in 1..Len(m.keys) :
       m.keys[j] = IF j < c THEN n.keys[j] ELSE IF j = c THEN s ELSE n.keys[j - 1]

\* Keys belong to the children they did, and those of child c to c or to c + 1.
LEMMA Separates ==
  ASSUME NEW n, n.keys \in Seq(TreeKeys), NEW m, NEW c, NEW s, IsSeparated(n, m, c, s),
         NEW k \in TreeKeys
  PROVE  /\ \A i \in 1..(Len(n.keys) + 1) : i < c =>
              /\ Belongs(n, i, k) => Belongs(m, i, k)
              /\ Between(n, i, k) => Between(m, i, k)
         /\ \A i \in 1..(Len(n.keys) + 1) : c < i =>
              /\ Belongs(n, i, k) => Belongs(m, i + 1, k)
              /\ Between(n, i, k) => Between(m, i + 1, k)
         /\ Belongs(n, c, k) /\ Less(k, s) => Belongs(m, c, k)
         /\ Between(n, c, k) /\ ~Less(s, k) => Between(m, c, k)
         /\ Belongs(n, c, k) /\ ~Less(k, s) => Belongs(m, c + 1, k)
         /\ Between(n, c, k) /\ ~Less(k, s) => Between(m, c + 1, k)
<1> DEFINE N == Len(n.keys)
<1>1. /\ N \in Nat /\ DOMAIN n.keys = 1..N /\ \A j \in 1..N : n.keys[j] \in TreeKeys
      /\ c \in 1..(N + 1) /\ s \in TreeKeys /\ DOMAIN m.keys = 1..(N + 1)
      /\ \A j \in 1..(N + 1) :
           m.keys[j] = IF j < c THEN n.keys[j] ELSE IF j = c THEN s ELSE n.keys[j - 1]
  BY DEF IsSeparated
<1>2. \A j \in 1..N : IF j < c THEN ~Less(s, n.keys[j]) ELSE ~Less(n.keys[j], s)
  BY <1>1 DEF IsSeparated, Between
<1> HIDE DEF N
\* The keys of m are those of n, and s.
<1>3. ASSUME NEW j \in 1..(N + 1)
      PROVE  \/ j < c /\ j \in 1..N /\ m.keys[j] = n.keys[j]
             \/ j = c /\ m.keys[j] = s
             \/ c < j /\ j - 1 \in 1..N /\ ~(j - 1 < c) /\ m.keys[j] = n.keys[j - 1]
  BY <1>1
<1>4. ASSUME NEW i \in 1..(N + 1), i < c
      PROVE  /\ Belongs(n, i, k) => Belongs(m, i, k)
             /\ Between(n, i, k) => Between(m, i, k)
  <2>1. i \in 1..N /\ ~(i < i)
    BY <1>1, <1>4
  <2>2. ASSUME Belongs(n, i, k), NEW j \in 1..(N + 1)
        PROVE  IF j < i THEN ~Less(k, m.keys[j]) ELSE Less(k, m.keys[j])
    <3>1. \A y \in 1..N : IF y < i THEN ~Less(k, n.keys[y]) ELSE Less(k, n.keys[y])
      BY <1>1, <2>2 DEF Belongs
    <3>2. Less(k, s)
      BY <1>1, <1>2, <1>4, <2>1, <3>1, KeyOrder
    <3>3. CASE j < c /\ j \in 1..N /\ m.keys[j] = n.keys[j]
      BY <3>1, <3>3
    <3>4. CASE j = c /\ m.keys[j] = s
      BY <1>1, <1>4, <3>2, <3>4
    <3>5. CASE c < j /\ j - 1 \in 1..N /\ ~(j - 1 < c) /\ m.keys[j] = n.keys[j - 1]
      <4>1. ~(j < i) /\ ~(j - 1 < i)
        BY <1>1, <1>4, <3>5
      <4> QED BY <3>1, <3>5, <4>1
    <3> QED BY <1>3, <3>3, <3>4, <3>5
  <2>3. ASSUME Between(n, i, k), NEW j \in 1..(N + 1)
        PROVE  IF j < i THEN ~Less(k, m.keys[j]) ELSE ~Less(m.keys[j], k)
    <3>1. \A y \in 1..N : IF y < i THEN ~Less(k, n.keys[y]) ELSE ~Less(n.keys[y], k)
      BY <1>1, <2>3 DEF Between
    <3>2. ~Less(s, k)
      BY <1>1, <1>2, <1>4, <2>1, <3>1, KeyOrder
    <3>3. CASE j < c /\ j \in 1..N /\ m.keys[j] = n.keys[j]
      BY <3>1, <3>3
    <3>4. CASE j = c /\ m.keys[j] = s
      BY <1>1, <1>4, <3>2, <3>4
    <3>5. CASE c < j /\ j - 1 \in 1..N /\ ~(j - 1 < c) /\ m.keys[j] = n.keys[j - 1]
      <4>1. ~(j < i) /\ ~(j - 1 < i)
        BY <1>1, <1>4, <3>5
      <4> QED BY <3>1, <3>5, <4>1
    <3> QED BY <1>3, <3>3, <3>4, <3>5
  <2> QED BY <1>1, <2>2, <2>3 DEF Belongs, Between
<1>5. ASSUME NEW i \in 1..(N + 1), c < i
      PROVE  /\ Belongs(n, i, k) => Belongs(m, i + 1, k)
             /\ Between(n, i, k) => Between(m, i + 1, k)
  <2>1. c \in 1..N /\ ~(c < c)
    BY <1>1, <1>5
  <2>2. ASSUME Belongs(n, i, k), NEW j \in 1..(N + 1)
        PROVE  IF j < i + 1 THEN ~Less(k, m.keys[j]) ELSE Less(k, m.keys[j])
    <3>1. \A y \in 1..N : IF y < i THEN ~Less(k, n.keys[y]) ELSE Less(k, n.keys[y])
      BY <1>1, <2>2 DEF Belongs
    <3>2. ~Less(k, s)
      BY <1>1, <1>2, <1>5, <2>1, <3>1, KeyOrder
    <3>3. CASE j < c /\ j \in 1..N /\ m.keys[j] = n.keys[j]
      <4>1. j < i + 1 /\ j < i
        BY <1>1, <1>5, <3>3
      <4> QED BY <3>1, <3>3, <4>1
    <3>4. CASE j = c /\ m.keys[j] = s
      BY <1>1, <1>5, <3>2, <3>4
    <3>5. CASE c < j /\ j - 1 \in 1..N /\ ~(j - 1 < c) /\ m.keys[j] = n.keys[j - 1]
      <4>1. j < i + 1 <=> j - 1 < i
        BY <1>1
      <4> QED BY <3>1, <3>5, <4>1
    <3> QED BY <1>3, <3>3, <3>4, <3>5
  <2>3. ASSUME Between(n, i, k), NEW j \in 1..(N + 1)
        PROVE  IF j < i + 1 THEN ~Less(k, m.keys[j]) ELSE ~Less(m.keys[j], k)
    <3>1. \A y \in 1..N : IF y < i THEN ~Less(k, n.keys[y]) ELSE ~Less(n.keys[y], k)
      BY <1>1, <2>3 DEF Between
    <3>2. ~Less(k, s)
      BY <1>1, <1>2, <1>5, <2>1, <3>1, KeyOrder
    <3>3. CASE j < c /\ j \in 1..N /\ m.keys[j] = n.keys[j]
      <4>1. j < i + 1 /\ j < i
        BY <1>1, <1>5, <3>3
      <4> QED BY <3>1, <3>3, <4>1
    <3>4. CASE j = c /\ m.keys[j] = s
      BY <1>1, <1>5, <3>2, <3>4
    <3>5. CASE c < j /\ j - 1 \in 1..N /\ ~(j - 1 < c) /\ m.keys[j] = n.keys[j - 1]
      <4>1. j < i + 1 <=> j - 1 < i
        BY <1>1
      <4> QED BY <3>1, <3>5, <4>1
    <3> QED BY <1>3, <3>3, <3>4, <3>5
  <2> QED BY <1>1, <2>2, <2>3 DEF Belongs, Between
<1>6. ASSUME Belongs(n, c, k)
      PROVE  /\ Less(k, s) => Belongs(m, c, k)
             /\ ~Less(k, s) => Belongs(m, c + 1, k)
  <2>1. \A y \in 1..N : IF y < c THEN ~Less(k, n.keys[y]) ELSE Less(k, n.keys[y])
    BY <1>1, <1>6 DEF Belongs
  <2>2. ASSUME NEW j \in 1..(N + 1)
        PROVE  /\ j < c => ~Less(k, m.keys[j])
               /\ j = c => m.keys[j] = s
               /\ c < j => Less(k, m.keys[j])
    <3>1. CASE j < c /\ j \in 1..N /\ m.keys[j] = n.keys[j]
      BY <1>1, <2>1, <3>1
    <3>2. CASE j = c /\ m.keys[j] = s
      BY <1>1, <3>2
    <3>3. CASE c < j /\ j - 1 \in 1..N /\ ~(j - 1 < c) /\ m.keys[j] = n.keys[j - 1]
      BY <1>1, <2>1, <3>3
    <3> QED BY <1>3, <3>1, <3>2, <3>3
  <2>3. \A j \in 1..(N + 1) : /\ j < c \/ j = c \/ c < j
                              /\ j < c + 1 <=> j < c \/ j = c
    BY <1>1
  <2> QED BY <1>1, <2>2, <2>3 DEF Belongs
<1>7. ASSUME Between(n, c, k)
      PROVE  /\ ~Less(s, k) => Between(m, c, k)
             /\ ~Less(k, s) => Between(m, c + 1, k)
  <2>1. \A y \in 1..N : IF y < c THEN ~Less(k, n.keys[y]) ELSE ~Less(n.keys[y], k)
    BY <1>1, <1>7 DEF Between
  <2>2. ASSUME NEW j \in 1..(N + 1)
        PROVE  /\ j < c => ~Less(k, m.keys[j])
               /\ j = c => m.keys[j] = s
               /\ c < j => ~Less(m.keys[j], k)
    <3>1. CASE j < c /\ j \in 1..N /\ m.keys[j] = n.keys[j]
      BY <1>1, <2>1, <3>1
    <3>2. CASE j = c /\ m.keys[j] = s
      BY <1>1, <3>2
    <3>3. CASE c < j /\ j - 1 \in 1..N /\ ~(j - 1 < c) /\ m.keys[j] = n.keys[j - 1]
      BY <1>1, <2>1, <3>3
    <3> QED BY <1>3, <3>1, <3>2, <3>3
  <2>3. \A j \in 1..(N + 1) : /\ j < c \/ j = c \/ c < j
                              /\ j < c + 1 <=> j < c \/ j = c
    BY <1>1
  <2> QED BY <1>1, <2>2, <2>3 DEF Between
<1> QED BY <1>4, <1>5, <1>6, <1>7 DEF N

\* The separators of the node stay in order.
LEMMA SeparatorsStay ==
  ASSUME NEW n, n.keys \in Seq(TreeKeys), NEW m, NEW c, NEW s, IsSeparated(n, m, c, s),
         \A i, j \in 1..Len(n.keys) : i < j => ~Less(n.keys[j], n.keys[i])
  PROVE  \A i, j \in 1..Len(m.keys) : i < j => ~Less(m.keys[j], m.keys[i])
<1> DEFINE N == Len(n.keys)
<1>1. /\ N \in Nat /\ DOMAIN n.keys = 1..N
      /\ c \in 1..(N + 1) /\ Len(m.keys) = N + 1
      /\ \A j \in 1..(N + 1) :
           m.keys[j] = IF j < c THEN n.keys[j] ELSE IF j = c THEN s ELSE n.keys[j - 1]
  BY DEF IsSeparated
<1>2. \A j \in 1..N : IF j < c THEN ~Less(s, n.keys[j]) ELSE ~Less(n.keys[j], s)
  BY <1>1 DEF IsSeparated, Between
<1>3. \A i, j \in 1..N : i < j => ~Less(n.keys[j], n.keys[i])
  OBVIOUS
<1> HIDE DEF N
<1> SUFFICES ASSUME NEW i \in 1..(N + 1), NEW j \in 1..(N + 1), i < j
             PROVE  ~Less(m.keys[j], m.keys[i])
  BY <1>1
<1>4. CASE j < c
  <2>1. i \in 1..N /\ j \in 1..N /\ i < c
    BY <1>1, <1>4
  <2> QED BY <1>1, <1>3, <1>4, <2>1
<1>5. CASE j = c
  <2>1. i \in 1..N /\ i < c
    BY <1>1, <1>5
  <2> QED BY <1>1, <1>2, <1>5, <2>1
<1>6. CASE c < j
  <2>1. j - 1 \in 1..N /\ ~(j - 1 < c) /\ m.keys[j] = n.keys[j - 1]
    BY <1>1, <1>6
  <2>2. CASE i < c
    <3>1. i \in 1..N /\ i < j - 1
      BY <1>1, <1>6, <2>2
    <3> QED BY <1>1, <1>3, <2>1, <2>2, <3>1
  <2>3. CASE i = c
    BY <1>1, <1>2, <2>1, <2>3
  <2>4. CASE c < i
    <3>1. i - 1 \in 1..N /\ i - 1 < j - 1 /\ m.keys[i] = n.keys[i - 1]
      BY <1>1, <2>4
    <3> QED BY <1>3, <2>1, <3>1
  <2> QED BY <1>1, <2>2, <2>3, <2>4
<1> QED BY <1>1, <1>4, <1>5, <1>6

\* What a child written anew holds: its record with the key's value, in a page
\* or in two.
Renewed(file, p, u, w, g) ==
  /\ w.id \in 1..(p - 1) /\ file[w.id].kind # "overflow"
  /\ \/ w.right = InvalidPageID /\ g[w.id] = u
     \/ /\ w.right \in 1..(p - 1) /\ file[w.right].kind # "overflow"
        /\ w.sep \in u.marks /\ g[w.id] = Below(u, w.sep) /\ g[w.right] = Above(u, w.sep)

\* The record of the child that key belongs to, with the key's value, is a part
\* of the node's record with it; the other children keep their parts.
LEMMA PartsRenewed ==
  ASSUME NEW file, NEW p, NEW n, NEW h, NEW g, InternalHolds(file, p, n, h, g), IsRecord(h),
         NEW key \in TreeKeys, NEW v \in Values, NEW ci, ci = ChildIndex(n, key),
         NEW u, u = Updated(g[n.children[ci]], key, v), NEW r, r = Updated(h, key, v)
  PROVE  /\ ci \in 1..Len(n.children)
         /\ u.marks \subseteq r.marks /\ h.marks \subseteq r.marks
         /\ \A k \in u.marks : k \in TreeKeys /\ Between(n, ci, k)
         /\ \A k \in DOMAIN u.map :
              Belongs(n, ci, k) /\ k \in DOMAIN r.map /\ r.map[k] = u.map[k]
         /\ \A i \in 1..Len(n.children) : i # ci => ChildHolds(file, p, n, r, g, i)
         /\ \A k \in DOMAIN r.map : k \in DOMAIN u.map \/
              \E i \in 1..Len(n.children) : i # ci /\ k \in DOMAIN g[n.children[i]].map
<1> DEFINE d == g[n.children[ci]]
<1>1. /\ \A i \in 1..Len(n.children) : ChildHolds(file, p, n, h, g, i)
      /\ \A k \in DOMAIN h.map :
           \E i \in 1..Len(n.children) : k \in DOMAIN g[n.children[i]].map
      /\ DOMAIN n.keys = 1..Len(n.keys)
      /\ \A i \in 1..Len(n.keys) : n.keys[i] \in TreeKeys
  <2> HIDE DEF d
  <2>1. \A i \in 1..Len(n.children) : ChildHolds(file, p, n, h, g, i)
    BY InternalIs
  <2>2. \A k \in DOMAIN h.map :
          \E i \in 1..Len(n.children) : k \in DOMAIN g[n.children[i]].map
    BY InternalIs
  <2>3. DOMAIN n.keys = 1..Len(n.keys) /\ \A i \in 1..Len(n.keys) : n.keys[i] \in TreeKeys
    BY InternalIs
  <2> QED BY <2>1, <2>2, <2>3
<1>2. ci \in 1..Len(n.children) /\ Belongs(n, ci, key)
  BY ChildIndexIs
<1>3. /\ d.marks \subseteq h.marks
      /\ \A k \in d.marks : Between(n, ci, k)
      /\ \A k \in DOMAIN d.map :
           Belongs(n, ci, k) /\ k \in DOMAIN h.map /\ h.map[k] = d.map[k]
  BY <1>1, <1>2 DEF ChildHolds
<1>4. Between(n, ci, key)
  BY <1>1, <1>2, KeyOrder DEF Belongs, Between
<1>5. /\ u.marks = d.marks \cup {key} /\ r.marks = h.marks \cup {key}
      /\ DOMAIN u.map = DOMAIN d.map \cup {key}
      /\ \A k \in DOMAIN u.map : u.map[k] = IF k = key THEN v ELSE d.map[k]
      /\ DOMAIN r.map = DOMAIN h.map \cup {key}
      /\ \A k \in DOMAIN r.map : r.map[k] = IF k = key THEN v ELSE h.map[k]
  BY DEF Updated, With
<1> HIDE DEF d
<1>6. \A k \in u.marks : k \in TreeKeys /\ Between(n, ci, k)
  BY <1>3, <1>4, <1>5 DEF IsRecord
<1>7. \A k \in DOMAIN u.map :
        Belongs(n, ci, k) /\ k \in DOMAIN r.map /\ r.map[k] = u.map[k]
  BY <1>2, <1>3, <1>5
<1>8. ASSUME NEW i \in 1..Len(n.children), i # ci PROVE ChildHolds(file, p, n, r, g, i)
  <2> DEFINE b == g[n.children[i]]
  <2>1. ChildHolds(file, p, n, h, g, i)
    BY <1>1
  <2>2. /\ b.marks \subseteq h.marks
        /\ \A k \in DOMAIN b.map :
             Belongs(n, i, k) /\ k \in DOMAIN h.map /\ h.map[k] = b.map[k]
    BY <2>1 DEF ChildHolds
  <2>3. \A k \in DOMAIN b.map : k # key
    <3> SUFFICES ASSUME key \in DOMAIN b.map PROVE FALSE
      OBVIOUS
    <3>1. Belongs(n, i, key)
      BY <2>2
    <3> QED BY <1>2, <1>8, <3>1, BelongsToOne
  <2>4. \A k \in DOMAIN b.map :
          Belongs(n, i, k) /\ k \in DOMAIN r.map /\ r.map[k] = b.map[k]
    <3> HIDE DEF b
    <3> QED BY <1>5, <2>2, <2>3
  <2>5. b.marks \subseteq r.marks
    BY <1>5, <2>2
  <2> QED BY <2>1, <2>4, <2>5 DEF ChildHolds
<1>9. \A k \in DOMAIN r.map : k \in DOMAIN u.map \/
        \E i \in 1..Len(n.children) : i # ci /\ k \in DOMAIN g[n.children[i]].map
  <2> TAKE k \in DOMAIN r.map
  <2>1. CASE k = key
    BY <1>5, <2>1
  <2>2. CASE k # key
    <3>1. PICK i \in 1..Len(n.children) : k \in DOMAIN g[n.children[i]].map
      BY <1>1, <1>5, <2>2
    <3> QED BY <1>5, <3>1 DEF d
  <2> QED BY <2>1, <2>2
<1> QED BY <1>2, <1>3, <1>5, <1>6, <1>7, <1>8, <1>9

\* A node whose child was written anew holds its record with the key's value.
LEMMA WithChildHolds ==
  ASSUME NEW file, NEW p, NEW n, NEW h, NEW g, InternalHolds(file, p, n, h, g), IsRecord(h),
         NEW key \in TreeKeys, NEW v \in Values, NEW w,
         Renewed(file, p, Updated(g[n.children[ChildIndex(n, key)]], key, v), w, g),
         p \in Nat
  PROVE  InternalHolds(file, p, WithChild(n, key, w), Updated(h, key, v), g)
<1> DEFINE ci == ChildIndex(n, key)
           u == Updated(g[n.children[ci]], key, v)
           r == Updated(h, key, v)
           N == Len(n.keys)
           m == WithChild(n, key, w)
           cs == ReplaceAt(n.children, ci, w.id)
<1>1. /\ n.keys \in Seq(TreeKeys) /\ n.children \in Seq(Nat)
      /\ N \in Nat /\ Len(n.children) = N + 1
      /\ DOMAIN n.keys = 1..N /\ DOMAIN n.children = 1..(N + 1)
      /\ \A i \in 1..N : n.keys[i] \in TreeKeys /\ n.keys[i] \in h.marks
      /\ \A i, j \in 1..N : i < j => ~Less(n.keys[j], n.keys[i])
      /\ \A i \in 1..(N + 1) : ChildHolds(file, p, n, h, g, i)
  BY InternalIs
<1>2. /\ ci \in 1..(N + 1)
      /\ u.marks \subseteq r.marks /\ h.marks \subseteq r.marks
      /\ \A k \in u.marks : k \in TreeKeys /\ Between(n, ci, k)
      /\ \A k \in DOMAIN u.map :
           Belongs(n, ci, k) /\ k \in DOMAIN r.map /\ r.map[k] = u.map[k]
      /\ \A i \in 1..(N + 1) : i # ci => ChildHolds(file, p, n, r, g, i)
      /\ \A k \in DOMAIN r.map : k \in DOMAIN u.map \/
           \E i \in 1..(N + 1) : i # ci /\ k \in DOMAIN g[n.children[i]].map
  <2> HIDE DEF ci, u, r, N
  <2>1. Len(n.children) = N + 1
    BY <1>1
  <2> QED BY <2>1, PartsRenewed DEF ci, u, r
<1>3. /\ cs \in Seq(Nat) /\ Len(cs) = N + 1
      /\ \A i \in 1..(N + 1) : cs[i] = IF i = ci THEN w.id ELSE n.children[i]
  <2>1. w.id \in Nat
    BY DEF Renewed
  <2>2. cs = [n.children EXCEPT ![ci] = w.id]
    BY DEF ReplaceAt
  <2> HIDE DEF cs, ci, N
  <2> QED BY <1>1, <1>2, <2>1, <2>2
<1>4. w.id \in 1..(p - 1) /\ file[w.id].kind # "overflow"
  BY DEF Renewed
<1>5. CASE w.right = InvalidPageID /\ g[w.id] = u
  <2>1. m = [kind |-> "internal", keys |-> n.keys, children |-> cs]
    BY <1>5 DEF WithChild, Internal
  <2> HIDE DEF m, cs, ci, u, r, N
  <2>2. m \in InternalPages /\ m.keys = n.keys /\ m.children = cs
    BY <1>1, <1>3, <2>1 DEF InternalPages
  <2>3. ASSUME NEW i \in 1..(N + 1) PROVE ChildHolds(file, p, m, r, g, i)
    <3>1. /\ \A k : Belongs(m, i, k) <=> Belongs(n, i, k)
          /\ \A k : Between(m, i, k) <=> Between(n, i, k)
      BY <2>2 DEF Belongs, Between
    <3>2. CASE i = ci
      <4>1. m.children[i] = w.id
        BY <1>3, <2>2, <3>2
      <4> QED BY <1>2, <1>4, <1>5, <3>1, <3>2, <4>1 DEF ChildHolds
    <3>3. CASE i # ci
      <4>1. ChildHolds(file, p, n, r, g, i) /\ m.children[i] = n.children[i]
        BY <1>2, <1>3, <2>2, <3>3
      <4> QED BY <3>1, <4>1 DEF ChildHolds
    <3> QED BY <3>2, <3>3
  <2>4. \A k \in DOMAIN r.map : \E i \in 1..(N + 1) : k \in DOMAIN g[m.children[i]].map
    BY <1>2, <1>3, <1>5, <2>2
  <2>5. /\ DOMAIN m.keys = 1..N /\ DOMAIN m.children = 1..(N + 1)
        /\ Len(m.children) = Len(m.keys) + 1
    BY <1>1, <1>3, <2>2 DEF N
  <2>6. \A i \in 1..N : m.keys[i] \in r.marks
    BY <1>1, <1>2, <2>2
  <2> QED BY <1>1, <2>2, <2>3, <2>4, <2>5, <2>6 DEF InternalHolds, m, r
<1>6. CASE /\ w.right \in 1..(p - 1) /\ file[w.right].kind # "overflow"
           /\ w.sep \in u.marks /\ g[w.id] = Below(u, w.sep) /\ g[w.right] = Above(u, w.sep)
  <2> DEFINE s == w.sep
             ks == SubSeq(n.keys, 1, ci - 1) \o <<s>> \o SubSeq(n.keys, ci, N)
             ds == SubSeq(cs, 1, (ci + 1) - 1) \o <<w.right>> \o SubSeq(cs, ci + 1, Len(cs))
  <2>1. m = [kind |-> "internal", keys |-> ks, children |-> ds]
    <3>1. w.right # InvalidPageID
      BY <1>6 DEF InvalidPageID
    <3> QED BY <3>1 DEF WithChild, Internal, InsertAt
  <2>2. s \in TreeKeys /\ Between(n, ci, s) /\ s \in r.marks
    BY <1>2, <1>6
  <2>3. /\ ks \in Seq(TreeKeys) /\ Len(ks) = N + 1
        /\ \A j \in 1..(N + 1) :
             ks[j] = IF j < ci THEN n.keys[j] ELSE IF j = ci THEN s ELSE n.keys[j - 1]
    <3> DEFINE a == ci - 1
    <3>1. a \in Nat /\ a + 1 = ci /\ a <= a /\ a <= N
      BY <1>1, <1>2
    <3> HIDE DEF ks, ci, s, a
    <3>2. ks = SubSeq(n.keys, 1, a) \o <<s>> \o SubSeq(n.keys, a + 1, Len(n.keys))
      BY <3>1 DEF ks, a
    <3>3. IsSplice(TreeKeys, ks, n.keys, s, a, a)
      BY <1>1, <2>2, <3>1, <3>2, Splices
    <3>4. /\ ks \in Seq(TreeKeys) /\ Len(ks) = a + 1 + (N - a)
          /\ \A i \in 1..a : ks[i] = n.keys[i]
          /\ ks[a + 1] = s
          /\ \A j \in 1..(N - a) : ks[a + 1 + j] = n.keys[a + j]
      BY <3>3 DEF IsSplice
    <3> HIDE DEF N
    <3>5. ASSUME NEW j \in 1..(N + 1), ci < j PROVE ks[j] = n.keys[j - 1]
      <4>2. N \in Nat /\ a \in Nat /\ ci = a + 1
        BY <1>1, <3>1
      <4>1. j - ci \in 1..(N - a) /\ a + 1 + (j - ci) = j /\ a + (j - ci) = j - 1
        BY <3>5, <4>2
      <4> QED BY <3>4, <4>1
    <3>6. \A j \in 1..(N + 1) : j < ci => j \in 1..a
      BY <3>1
    <3>7. a + 1 + (N - a) = N + 1
      BY <1>1, <3>1
    <3>8. \A j \in 1..(N + 1) : j < ci \/ j = ci \/ ci < j
      BY <3>1
    <3> QED BY <3>1, <3>4, <3>5, <3>6, <3>7, <3>8
  <2>4. /\ ds \in Seq(Nat) /\ Len(ds) = N + 2
        /\ \A j \in 1..(N + 1) :
             /\ j < ci => ds[j] = n.children[j]
             /\ ci < j => ds[j + 1] = n.children[j]
        /\ ds[ci] = w.id /\ ds[ci + 1] = w.right
    <3>1. ci \in Nat /\ (ci + 1) - 1 = ci /\ ci <= ci /\ ci <= N + 1 /\ w.right \in Nat
      BY <1>1, <1>2, <1>6
    <3> HIDE DEF ds, ci, cs
    <3>2. ds = SubSeq(cs, 1, ci) \o <<w.right>> \o SubSeq(cs, ci + 1, Len(cs))
      BY <3>1 DEF ds
    <3>3. IsSplice(Nat, ds, cs, w.right, ci, ci)
      BY <1>3, <3>1, <3>2, Splices
    <3>4. /\ ds \in Seq(Nat) /\ Len(ds) = ci + 1 + ((N + 1) - ci)
          /\ \A i \in 1..ci : ds[i] = cs[i]
          /\ ds[ci + 1] = w.right
          /\ \A j \in 1..((N + 1) - ci) : ds[ci + 1 + j] = cs[ci + j]
      BY <1>3, <3>3 DEF IsSplice
    <3> HIDE DEF N
    <3>5. ASSUME NEW j \in 1..(N + 1), ci < j PROVE ds[j + 1] = n.children[j]
      <4>2. N \in Nat /\ ci \in Nat
        BY <1>1, <3>1
      <4>1. j - ci \in 1..((N + 1) - ci) /\ ci + 1 + (j - ci) = j + 1 /\ ci + (j - ci) = j /\ j # ci
        BY <3>5, <4>2
      <4> QED BY <1>3, <3>4, <4>1
    <3>6. \A j \in 1..(N + 1) : j < ci => j \in 1..ci /\ j # ci
      BY <3>1
    <3>7. ci + 1 + ((N + 1) - ci) = N + 2 /\ ci \in 1..ci /\ ci \in 1..(N + 1)
      BY <1>1, <1>2, <3>1
    <3> QED BY <1>3, <3>4, <3>5, <3>6, <3>7
  <2> HIDE DEF ks, ds, m, cs, ci, u, r, s
  <2>5. /\ m \in InternalPages /\ m.keys = ks /\ m.children = ds
        /\ DOMAIN m.keys = 1..(N + 1) /\ DOMAIN m.children = 1..(N + 2)
        /\ Len(m.keys) = N + 1 /\ Len(m.children) = N + 2
    BY <1>1, <2>1, <2>3, <2>4 DEF InternalPages
  <2>6. IsSeparated(n, m, ci, s)
    BY <1>2, <2>2, <2>3, <2>5 DEF IsSeparated
  <2>7. \A i, j \in 1..Len(m.keys) : i < j => ~Less(m.keys[j], m.keys[i])
    BY <1>1, <2>6, SeparatorsStay
  <2>8. \A i \in 1..(N + 1) : m.keys[i] \in r.marks
    <3> TAKE i \in 1..(N + 1)
    <3>1. CASE i < ci
      <4>1. i \in 1..N
        BY <1>1, <1>2, <3>1
      <4> QED BY <1>1, <1>2, <2>3, <2>5, <3>1, <4>1
    <3>2. CASE i = ci
      BY <1>2, <2>2, <2>3, <2>5, <3>2
    <3>3. CASE ci < i
      <4>1. i - 1 \in 1..N /\ ~(i < ci) /\ i # ci
        BY <1>1, <1>2, <3>3
      <4> QED BY <1>1, <1>2, <2>3, <2>5, <4>1
    <3> QED BY <1>1, <1>2, <3>1, <3>2, <3>3
  <2>9. /\ DOMAIN Below(u, s).map = {k \in DOMAIN u.map : Less(k, s)}
        /\ \A k \in DOMAIN Below(u, s).map : Below(u, s).map[k] = u.map[k]
        /\ Below(u, s).marks = {k \in u.marks : ~Less(s, k)}
        /\ DOMAIN Above(u, s).map = {k \in DOMAIN u.map : ~Less(k, s)}
        /\ \A k \in DOMAIN Above(u, s).map : Above(u, s).map[k] = u.map[k]
        /\ Above(u, s).marks = {k \in u.marks : ~Less(k, s)}
    BY DEF Below, Above, Restrict
  <2>10. g[w.id] = Below(u, s) /\ g[w.right] = Above(u, s)
    BY <1>6 DEF s
  <2>11. DOMAIN u.map \subseteq TreeKeys /\ h.marks \subseteq TreeKeys
    <3>1. IsRecord(h) /\ DOMAIN r.map \subseteq DOMAIN h.map \cup {key}
      BY DEF r, Updated, With
    <3> QED BY <1>2, <3>1 DEF IsRecord
  \* The halves of the child.
  <2>12. ChildHolds(file, p, m, r, g, ci)
    <3>1. m.children[ci] = w.id
      BY <2>4, <2>5
    <3>2. \A k \in g[w.id].marks : Between(m, ci, k)
      BY <1>1, <1>2, <2>6, <2>9, <2>10, Separates
    <3>3. \A k \in DOMAIN g[w.id].map :
            Belongs(m, ci, k) /\ k \in DOMAIN r.map /\ r.map[k] = g[w.id].map[k]
      <4> TAKE k \in DOMAIN g[w.id].map
      <4>1. k \in DOMAIN u.map /\ Less(k, s) /\ g[w.id].map[k] = u.map[k]
        BY <2>9, <2>10
      <4>2. Belongs(n, ci, k) /\ k \in TreeKeys
        BY <1>2, <2>11, <4>1
      <4> QED BY <1>1, <1>2, <2>6, <4>1, <4>2, Separates
    <3>4. g[w.id].marks \subseteq r.marks
      BY <1>2, <2>9, <2>10
    <3> QED BY <1>4, <3>1, <3>2, <3>3, <3>4 DEF ChildHolds
  <2>13. ChildHolds(file, p, m, r, g, ci + 1)
    <3>1. m.children[ci + 1] = w.right
      BY <2>4, <2>5
    <3>2. \A k \in g[w.right].marks : Between(m, ci + 1, k)
      BY <1>1, <1>2, <2>6, <2>9, <2>10, Separates
    <3>3. \A k \in DOMAIN g[w.right].map :
            Belongs(m, ci + 1, k) /\ k \in DOMAIN r.map /\ r.map[k] = g[w.right].map[k]
      <4> TAKE k \in DOMAIN g[w.right].map
      <4>1. k \in DOMAIN u.map /\ ~Less(k, s) /\ g[w.right].map[k] = u.map[k]
        BY <2>9, <2>10
      <4>2. Belongs(n, ci, k) /\ k \in TreeKeys
        BY <1>2, <2>11, <4>1
      <4> QED BY <1>1, <1>2, <2>6, <4>1, <4>2, Separates
    <3>4. g[w.right].marks \subseteq r.marks
      BY <1>2, <2>9, <2>10
    <3> QED BY <1>6, <3>1, <3>2, <3>3, <3>4 DEF ChildHolds
  \* The other children.
  <2>14. ASSUME NEW i \in 1..(N + 1), i # ci, NEW x,
                x = (IF i < ci THEN i ELSE i + 1)
         PROVE  ChildHolds(file, p, m, r, g, x) /\ m.children[x] = n.children[i]
    <3> DEFINE c == n.children[i]
    <3>1. ChildHolds(file, p, n, r, g, i)
      BY <1>2, <2>14
    <3>2. m.children[x] = c
      BY <1>2, <2>4, <2>5, <2>14
    <3>3. ChildHolds(file, p, n, h, g, i)
      BY <1>1
    <3>4. \A k \in TreeKeys : /\ Belongs(n, i, k) => Belongs(m, x, k)
                              /\ Between(n, i, k) => Between(m, x, k)
      <4>1. i < ci \/ ci < i
        BY <1>2, <2>14
      <4>2. ci < i => ~(i < ci)
        BY <1>2
      <4> QED BY <1>1, <2>6, <2>14, <4>1, <4>2, Separates
    <3>5. \A k \in g[c].marks : Between(m, x, k)
      BY <2>11, <3>3, <3>4 DEF ChildHolds
    <3>6. \A k \in DOMAIN g[c].map :
            Belongs(m, x, k) /\ k \in DOMAIN r.map /\ r.map[k] = g[c].map[k]
      <4> TAKE k \in DOMAIN g[c].map
      <4>1. Belongs(n, i, k) /\ k \in DOMAIN r.map /\ r.map[k] = g[c].map[k]
        BY <3>1 DEF ChildHolds
      <4>2. k \in DOMAIN h.map
        BY <3>3 DEF ChildHolds
      <4>3. k \in TreeKeys
        BY <4>2 DEF IsRecord
      <4> QED BY <3>4, <4>1, <4>3
    <3> QED BY <3>1, <3>2, <3>5, <3>6 DEF ChildHolds
  <2>15. ASSUME NEW x \in 1..(N + 2) PROVE ChildHolds(file, p, m, r, g, x)
    <3>1. CASE x < ci
      <4>1. x \in 1..(N + 1) /\ x # ci
        BY <1>1, <1>2, <3>1
      <4> QED BY <2>14, <3>1, <4>1
    <3>2. CASE ci + 1 < x
      <4>1. x - 1 \in 1..(N + 1) /\ x - 1 # ci /\ ~(x - 1 < ci) /\ (x - 1) + 1 = x
        BY <1>1, <1>2, <3>2
      <4> QED BY <2>14, <4>1
    <3>3. x < ci \/ x = ci \/ x = ci + 1 \/ ci + 1 < x
      BY <1>1, <1>2
    <3> QED BY <2>12, <2>13, <3>1, <3>2, <3>3
  <2>16. \A k \in DOMAIN r.map : \E x \in 1..(N + 2) : k \in DOMAIN g[m.children[x]].map
    <3> TAKE k \in DOMAIN r.map
    <3>1. CASE k \in DOMAIN u.map
      <4>1. ci \in 1..(N + 2) /\ ci + 1 \in 1..(N + 2)
        BY <1>1, <1>2
      <4>2. m.children[ci] = w.id /\ m.children[ci + 1] = w.right
        BY <2>4, <2>5
      <4>3. k \in DOMAIN g[w.id].map \/ k \in DOMAIN g[w.right].map
        BY <2>9, <2>10, <3>1
      <4> QED BY <4>1, <4>2, <4>3
    <3>2. CASE k \notin DOMAIN u.map
      <4>1. PICK i \in 1..(N + 1) : i # ci /\ k \in DOMAIN g[n.children[i]].map
        BY <1>2, <3>2
      <4> DEFINE x == IF i < ci THEN i ELSE i + 1
      <4>2. x \in 1..(N + 2)
        BY <1>1
      <4>3. m.children[x] = n.children[i]
        BY <2>14, <4>1
      <4> QED BY <4>1, <4>2, <4>3
    <3> QED BY <3>1, <3>2
  <2>17. Len(m.children) = Len(m.keys) + 1
    BY <1>1, <2>5
  <2> QED BY <2>5, <2>7, <2>8, <2>15, <2>16, <2>17 DEF InternalHolds, m, r
<1> QED BY <1>5, <1>6 DEF Renewed

-----------------------------------------------------------------------------
(***************************************************************************)
(* Paths                                                                   *)
(***************************************************************************)

\* What the pages of a file are, by their kinds.
LEMMA KindsAre ==
  ASSUME NEW file, NEW g, FileHolds(file, g), NEW p \in 1..Len(file)
  PROVE  /\ IsRecord(g[p]) /\ file[p] \in Page
         /\ file[p].kind = "leaf" => LeafHolds(file, p, file[p], g[p])
         /\ file[p].kind = "internal" =>
              /\ InternalHolds(file, p, file[p], g[p], g)
              /\ DOMAIN file[p].children = 1..Len(file[p].children)
              /\ \A i \in 1..Len(file[p].children) :
                   /\ file[p].children[i] \in 1..(p - 1)
                   /\ file[p].children[i] \in 1..Len(file)
                   /\ file[file[p].children[i]].kind # "overflow"
                   /\ ChildHolds(file, p, file[p], g[p], g, i)
         /\ file[p].kind \notin {"leaf", "internal", "overflow"} => file[p] = Damaged
<1>1. Len(file) \in Nat /\ file[p] \in Page
  BY DEF FileHolds
<1>2. /\ IsRecord(g[p])
      /\ file[p].kind = "leaf" => LeafHolds(file, p, file[p], g[p])
      /\ file[p].kind = "internal" => InternalHolds(file, p, file[p], g[p], g)
  BY DEF FileHolds
<1>3. ASSUME file[p].kind = "internal", NEW i \in 1..Len(file[p].children)
      PROVE  /\ file[p].children[i] \in 1..(p - 1)
             /\ file[p].children[i] \in 1..Len(file)
             /\ file[file[p].children[i]].kind # "overflow"
             /\ ChildHolds(file, p, file[p], g[p], g, i)
  <2>1. ChildHolds(file, p, file[p], g[p], g, i)
    BY <1>2, <1>3, InternalIs
  <2>2. file[p].children[i] \in 1..(p - 1) /\ file[file[p].children[i]].kind # "overflow"
    BY <2>1 DEF ChildHolds
  <2>3. file[p].children[i] \in 1..Len(file)
    BY <1>1, <2>2
  <2> QED BY <2>1, <2>2, <2>3
<1>4. file[p].kind = "internal" => DOMAIN file[p].children = 1..Len(file[p].children)
  BY <1>2, InternalIs
<1>5. file[p].kind \notin {"leaf", "internal", "overflow"} => file[p] = Damaged
  BY <1>1, PagesAre
<1> QED BY <1>1, <1>2, <1>3, <1>4, <1>5

\* f gives the pages from each page down.
Descends(file, key, f) ==
  \A p \in 1..Len(file) : f[p] = (LET n == file[p]
     IN  IF n.kind = "internal" THEN <<p>> \o f[n.children[ChildIndex(n, key)]] ELSE <<p>>)

\* A path is that of the child that covers the key, behind its page.
LEMMA PathOf ==
  ASSUME NEW file, NEW g, FileHolds(file, g), NEW key \in TreeKeys, NEW id
  PROVE  \E f : Descends(file, key, f) /\ Path(file, id, key) = f[id]
<1> DEFINE N == Len(file)
           Body(f, p) == (LET n == file[p]
     IN  IF n.kind = "internal" THEN <<p>> \o f[n.children[ChildIndex(n, key)]] ELSE <<p>>)
           Rec(f, k) == f = [p \in 1..k |-> Body(f, p)]
           Bad == {k \in 0..N : ~\E f : Rec(f, k)}
           all == CHOOSE f : Rec(f, N)
<1>0. N \in Nat /\ file \in Seq(Page) /\ DOMAIN file = 1..N
  BY DEF FileHolds
<1>1. Path(file, id, key) = all[id]
  BY <1>0 DEF Path
<1>2. ASSUME NEW p \in 1..N, NEW f, NEW e, \A q \in 1..(p - 1) : f[q] = e[q]
      PROVE  Body(f, p) = Body(e, p)
  <2>1. CASE file[p].kind = "internal"
    <3>1. InternalHolds(file, p, file[p], g[p], g) /\ IsRecord(g[p])
      BY <2>1, KindsAre
    <3>2. ChildIndex(file[p], key) \in 1..Len(file[p].children)
      BY <3>1, ChildIndexIs
    <3>3. file[p].children[ChildIndex(file[p], key)] \in 1..(p - 1)
      BY <2>1, <3>2, KindsAre
    <3> QED BY <1>2, <2>1, <3>3
  <2>2. CASE file[p].kind # "internal"
    BY <2>2
  <2> QED BY <2>1, <2>2
<1> HIDE DEF Body, N
<1>3. Bad = {}
  <2> SUFFICES ASSUME Bad # {} PROVE FALSE
    OBVIOUS
  <2>1. PICK k \in Bad : \A y \in Bad : k <= y
    <3>1. Bad \subseteq Nat
      OBVIOUS
    <3> HIDE DEF Bad
    <3> QED BY <3>1, Least
  <2>2. k \in 0..N /\ ~\E f : Rec(f, k)
    OBVIOUS
  <2>3. CASE k = 0
    <3> DEFINE f == [p \in 1..0 |-> p]
    <3>1. Rec(f, 0)
      OBVIOUS
    <3> QED BY <2>2, <2>3, <3>1
  <2>4. CASE k # 0
    <3>1. k - 1 \in 0..N /\ ~(k <= k - 1)
      BY <1>0, <2>2, <2>4
    <3>2. PICK f : Rec(f, k - 1)
      <4>1. k - 1 \notin Bad
        <5> HIDE DEF Bad
        <5> QED BY <2>1, <3>1
      <4> QED BY <3>1, <4>1
    <3> DEFINE e == [p \in 1..k |-> IF p = k THEN Body(f, k) ELSE f[p]]
    <3>3. ASSUME NEW p \in 1..k PROVE e[p] = Body(e, p)
      <4>1. p = k \/ p \in 1..(k - 1)
        BY <2>2
      <4>2. \A q \in 1..(p - 1) : q \in 1..k /\ q # k
        BY <2>2
      <4>3. \A q \in 1..(p - 1) : f[q] = e[q]
        BY <4>2
      <4>4. e[p] = IF p = k THEN Body(f, k) ELSE f[p]
        OBVIOUS
      <4>5. p \in 1..(k - 1) => f[p] = Body(f, p) /\ p # k
        BY <2>2, <3>2
      <4>6. p \in 1..N
        BY <1>0, <2>2
      <4> HIDE DEF e
      <4>7. Body(f, p) = Body(e, p)
        BY <1>2, <4>3, <4>6
      <4> QED BY <4>1, <4>4, <4>5, <4>7
    <3>4. Rec(e, k)
      <4>1. e = [p \in 1..k |-> e[p]]
        OBVIOUS
      <4> HIDE DEF e
      <4> QED BY <3>3, <4>1
    <3> HIDE DEF e
    <3> QED BY <2>2, <3>4
  <2> QED BY <2>3, <2>4
<1>4. \E f : Rec(f, N)
  BY <1>0, <1>3
<1>5. Rec(all, N)
  <2> HIDE DEF Rec
  <2> QED BY <1>4
<1>6. \A p \in 1..N : all[p] = Body(all, p)
  <2> HIDE DEF all
  <2> QED BY <1>5
<1> HIDE DEF all
<1>7. Descends(file, key, all)
  BY <1>6 DEF Descends, N, Body
<1> QED BY <1>1, <1>7

\* A path from id down to a leaf, or to what is left of one.
IsPath(file, id, key, path) ==
  /\ path \in Seq(1..Len(file)) /\ Len(path) >= 1 /\ path[1] = id
  /\ \A i \in 1..(Len(path) - 1) :
       /\ file[path[i]].kind = "internal"
       /\ path[i + 1] = file[path[i]].children[ChildIndex(file[path[i]], key)]
  /\ file[path[Len(path)]].kind \notin {"internal", "overflow"}

\* The path for a key is one.
LEMMA PathIs ==
  ASSUME NEW file, NEW g, FileHolds(file, g), NEW key \in TreeKeys, NEW id \in 1..Len(file),
         file[id].kind # "overflow"
  PROVE  IsPath(file, id, key, Path(file, id, key))
<1> DEFINE N == Len(file)
<1>1. PICK f : Descends(file, key, f) /\ Path(file, id, key) = f[id]
  BY PathOf
<1> DEFINE Bad == {p \in 1..N : file[p].kind # "overflow" /\ ~IsPath(file, p, key, f[p])}
<1>2. Bad = {}
  <2> SUFFICES ASSUME Bad # {} PROVE FALSE
    OBVIOUS
  <2>1. PICK p \in Bad : \A y \in Bad : p <= y
    <3>1. Bad \subseteq Nat
      OBVIOUS
    <3> HIDE DEF Bad
    <3> QED BY <3>1, Least
  <2>2. p \in 1..N /\ file[p].kind # "overflow" /\ ~IsPath(file, p, key, f[p])
    OBVIOUS
  <2>3. CASE file[p].kind = "internal"
    <3> DEFINE c == file[p].children[ChildIndex(file[p], key)]
               rest == f[c]
    <3>1. InternalHolds(file, p, file[p], g[p], g) /\ IsRecord(g[p])
      BY <2>2, <2>3, KindsAre
    <3>2. ChildIndex(file[p], key) \in 1..Len(file[p].children)
      BY <3>1, ChildIndexIs
    <3>3. c \in 1..(p - 1) /\ c \in 1..N /\ file[c].kind # "overflow"
      BY <2>2, <2>3, <3>2, KindsAre
    <3>4. IsPath(file, c, key, rest)
      <4>1. c \notin Bad
        <5>1. ~(p <= c)
          BY <2>2, <3>3
        <5> HIDE DEF Bad, c
        <5> QED BY <2>1, <5>1
      <4> QED BY <3>3, <4>1
    <3>5. f[p] = <<p>> \o rest
      BY <1>1, <2>2, <2>3 DEF Descends
    <3> HIDE DEF rest, N
    <3>6. /\ rest \in Seq(1..N) /\ Len(rest) \in Nat /\ Len(rest) >= 1 /\ rest[1] = c
          /\ \A i \in 1..(Len(rest) - 1) :
               /\ file[rest[i]].kind = "internal"
               /\ rest[i + 1] = file[rest[i]].children[ChildIndex(file[rest[i]], key)]
          /\ file[rest[Len(rest)]].kind \notin {"internal", "overflow"}
      BY <3>4 DEF IsPath, N
    <3>7. <<p>> \in Seq(1..N) /\ Len(<<p>>) = 1 /\ <<p>>[1] = p
      BY <2>2
    <3>8. /\ f[p] \in Seq(1..N) /\ Len(f[p]) = 1 + Len(rest) /\ f[p][1] = p
          /\ \A i \in 1..Len(rest) : f[p][1 + i] = rest[i]
      <4>1. /\ <<p>> \o rest \in Seq(1..N) /\ Len(<<p>> \o rest) = Len(<<p>>) + Len(rest)
            /\ \A i \in 1..Len(<<p>>) : (<<p>> \o rest)[i] = <<p>>[i]
            /\ \A i \in 1..Len(rest) : (<<p>> \o rest)[Len(<<p>>) + i] = rest[i]
        BY <3>6, <3>7, Joins
      <4> QED BY <3>5, <3>7, <4>1
    <3> DEFINE t == f[p]
    <3> HIDE DEF t
    <3>9. \A i \in 1..(Len(t) - 1) :
            /\ file[t[i]].kind = "internal"
            /\ t[i + 1] = file[t[i]].children[ChildIndex(file[t[i]], key)]
      <4> TAKE i \in 1..(Len(t) - 1)
      <4>1. CASE i = 1
        <5>1. 1 \in 1..Len(rest)
          BY <3>6
        <5>2. t[1] = p /\ t[1 + 1] = rest[1]
          BY <3>8, <5>1 DEF t
        <5> QED BY <2>3, <3>6, <4>1, <5>2 DEF c
      <4>2. CASE i # 1
        <5>1. i - 1 \in 1..(Len(rest) - 1) /\ i - 1 \in 1..Len(rest) /\ i \in 1..Len(rest)
              /\ 1 + (i - 1) = i /\ 1 + i = i + 1 /\ (i - 1) + 1 = i
          BY <3>6, <3>8, <4>2 DEF t
        <5>2. t[i] = rest[i - 1] /\ t[i + 1] = rest[i]
          BY <3>8, <5>1 DEF t
        <5> QED BY <3>6, <5>1, <5>2
      <4> QED BY <4>1, <4>2
    <3>10. t[Len(t)] = rest[Len(rest)] /\ Len(t) >= 1
      <4>1. Len(rest) \in 1..Len(rest) /\ Len(t) = 1 + Len(rest) /\ Len(t) >= 1
        BY <3>6, <3>8 DEF t
      <4> QED BY <3>8, <4>1 DEF t
    <3>11. IsPath(file, p, key, t)
      BY <3>6, <3>8, <3>9, <3>10 DEF IsPath, t, N
    <3> QED BY <2>2, <3>11 DEF t
  <2>4. CASE file[p].kind # "internal"
    <3>1. f[p] = <<p>>
      BY <1>1, <2>2, <2>4 DEF Descends
    <3>2. <<p>> \in Seq(1..N) /\ Len(<<p>>) = 1 /\ <<p>>[1] = p
      BY <2>2
    <3>3. \A i \in 1..(1 - 1) : FALSE
      OBVIOUS
    <3>4. IsPath(file, p, key, <<p>>)
      BY <2>2, <2>4, <3>2, <3>3 DEF IsPath
    <3> QED BY <2>2, <3>1, <3>4
  <2> QED BY <2>3, <2>4
<1> QED BY <1>1, <1>2

\* A node and the child that covers a key have the same of it.
LEMMA ChildKeeps ==
  ASSUME NEW file, NEW p, NEW n, NEW h, NEW g, InternalHolds(file, p, n, h, g), IsRecord(h),
         NEW key \in TreeKeys, NEW c, c = n.children[ChildIndex(n, key)]
  PROVE  /\ key \in DOMAIN h.map <=> key \in DOMAIN g[c].map
         /\ key \in DOMAIN h.map => h.map[key] = g[c].map[key]
<1>1. /\ \A i \in 1..Len(n.children) : ChildHolds(file, p, n, h, g, i)
      /\ \A k \in DOMAIN h.map :
           \E i \in 1..Len(n.children) : k \in DOMAIN g[n.children[i]].map
  BY InternalIs
<1>2. ChildIndex(n, key) \in 1..Len(n.children) /\ Belongs(n, ChildIndex(n, key), key)
  BY ChildIndexIs
<1>3. key \in DOMAIN g[c].map => key \in DOMAIN h.map /\ h.map[key] = g[c].map[key]
  BY <1>1, <1>2 DEF ChildHolds
<1>4. ASSUME key \in DOMAIN h.map PROVE key \in DOMAIN g[c].map
  <2>1. PICK i \in 1..Len(n.children) : key \in DOMAIN g[n.children[i]].map
    BY <1>1, <1>4
  <2>2. Belongs(n, i, key)
    BY <1>1, <2>1 DEF ChildHolds
  <2>3. i = ChildIndex(n, key)
    BY <1>2, <2>2, BelongsToOne
  <2> QED BY <2>1, <2>3
<1> QED BY <1>3, <1>4

\* Two records have the same of a key.
Alike(h, d, key) ==
  /\ key \in DOMAIN h.map <=> key \in DOMAIN d.map
  /\ key \in DOMAIN h.map => h.map[key] = d.map[key]

\* And so have all the nodes of its path.
LEMMA PathKeeps ==
  ASSUME NEW file, NEW g, FileHolds(file, g), NEW key \in TreeKeys, NEW id, NEW path,
         IsPath(file, id, key, path)
  PROVE  \A i \in 1..Len(path) : Alike(g[id], g[path[i]], key)
<1> DEFINE L == Len(path)
           Bad == {i \in 1..L : ~Alike(g[id], g[path[i]], key)}
<1>1. /\ L \in Nat /\ path[1] = id /\ \A i \in 1..L : path[i] \in 1..Len(file)
      /\ \A i \in 1..(L - 1) :
           /\ file[path[i]].kind = "internal"
           /\ path[i + 1] = file[path[i]].children[ChildIndex(file[path[i]], key)]
  BY DEF IsPath
<1>2. Bad = {}
  <2> SUFFICES ASSUME Bad # {} PROVE FALSE
    OBVIOUS
  <2>1. PICK i \in Bad : \A y \in Bad : i <= y
    <3>1. Bad \subseteq Nat
      OBVIOUS
    <3> HIDE DEF Bad
    <3> QED BY <3>1, Least
  <2>2. i \in 1..L /\ ~Alike(g[id], g[path[i]], key)
    OBVIOUS
  <2>3. i # 1
    BY <1>1, <2>2 DEF Alike
  <2>4. i - 1 \in 1..L /\ i - 1 \in 1..(L - 1) /\ ~(i <= i - 1) /\ (i - 1) + 1 = i
    BY <1>1, <2>2, <2>3
  <2>5. Alike(g[id], g[path[i - 1]], key)
    <3>1. i - 1 \notin Bad
      <4> HIDE DEF Bad
      <4> QED BY <2>1, <2>4
    <3> QED BY <2>4, <3>1
  <2> DEFINE p == path[i - 1]
  <2>6. p \in 1..Len(file) /\ file[p].kind = "internal"
        /\ path[i] = file[p].children[ChildIndex(file[p], key)]
    BY <1>1, <2>4
  <2> HIDE DEF p
  <2>7. InternalHolds(file, p, file[p], g[p], g) /\ IsRecord(g[p])
    BY <2>6, KindsAre
  <2>8. Alike(g[p], g[path[i]], key)
    BY <2>6, <2>7, ChildKeeps DEF Alike
  <2> QED BY <2>2, <2>5, <2>8 DEF Alike, p
<1> QED BY <1>2

\* A leaf has an entry of a key if, and only if, its record has the key; and the
\* search ends there.
LEMMA FoundIs ==
  ASSUME NEW file, NEW p, NEW n, NEW h, LeafHolds(file, p, n, h), IsRecord(h),
         NEW key \in TreeKeys
  PROVE  /\ Found(n.entries, key) <=> key \in DOMAIN h.map
         /\ Found(n.entries, key) =>
              /\ LeafSearch(n.entries, key) \in 1..Len(n.entries)
              /\ n.entries[LeafSearch(n.entries, key)].key = key
<1> DEFINE N == Len(n.entries)
           at == LeafSearch(n.entries, key)
<1>0. n.entries \in Seq(Entry)
  BY DEF LeafHolds, LeafPages
<1>1. /\ n.entries \in Seq(Entry) /\ N \in Nat /\ DOMAIN n.entries = 1..N
      /\ \A i \in 1..N : n.entries[i].key \in TreeKeys /\ n.entries[i].key \in DOMAIN h.map
      /\ \A i, j \in 1..N : i < j => Less(n.entries[i].key, n.entries[j].key)
      /\ \A x \in DOMAIN h.map : \E i \in 1..N : n.entries[i].key = x
  <2>1. N \in Nat /\ DOMAIN n.entries = 1..N
    BY <1>0
  <2> QED BY <1>0, <2>1 DEF LeafHolds, IsRecord
<1>2. /\ at \in 1..(N + 1)
      /\ \A j \in 1..N : j < at => Less(n.entries[j].key, key)
      /\ at <= N => ~Less(n.entries[at].key, key)
  BY <1>1, SearchIs
<1>3. Found(n.entries, key) <=> at <= N /\ n.entries[at].key = key
  BY DEF Found
<1> HIDE DEF at, N
<1>4. at <= N => at \in 1..N
  BY <1>1, <1>2
<1>5. ASSUME key \in DOMAIN h.map PROVE at <= N /\ n.entries[at].key = key
  <2>1. PICK i \in 1..N : n.entries[i].key = key
    BY <1>1, <1>5
  <2>2. ~(i < at)
    BY <1>2, <2>1, KeyOrder
  <2>3. at <= N /\ (i = at \/ at < i)
    BY <1>1, <1>2, <2>2
  <2>4. ~(at < i)
    BY <1>1, <1>2, <1>4, <2>1, <2>3
  <2> QED BY <2>1, <2>3, <2>4
<1> QED BY <1>1, <1>3, <1>4, <1>5 DEF at, N

-----------------------------------------------------------------------------
(***************************************************************************)
(* Delete                                                                  *)
(***************************************************************************)

\* A leaf without the entry of a key holds its record without the key.
LEMMA WithoutEntryHolds ==
  ASSUME NEW file, NEW p, NEW n, NEW h, LeafHolds(file, p, n, h), IsRecord(h),
         NEW key \in TreeKeys, Found(n.entries, key)
  PROVE  LeafHolds(file, p, Leaf(RemoveAt(n.entries, LeafSearch(n.entries, key))),
                   Emptied(h, key))
<1> DEFINE N == Len(n.entries)
           at == LeafSearch(n.entries, key)
           s == SubSeq(n.entries, 1, at - 1) \o SubSeq(n.entries, at + 1, N)
           r == Emptied(h, key)
<1>0. n.entries \in Seq(Entry)
  BY DEF LeafHolds, LeafPages
<1>1. /\ N \in Nat /\ DOMAIN n.entries = 1..N
      /\ \A i \in 1..N : n.entries[i].key \in TreeKeys /\ n.entries[i].key \in DOMAIN h.map
      /\ \A i, j \in 1..N : i < j => Less(n.entries[i].key, n.entries[j].key)
      /\ \A i \in 1..N : EntryHolds(file, p, n.entries[i], h.map[n.entries[i].key])
      /\ \A x \in DOMAIN h.map : \E i \in 1..N : n.entries[i].key = x
  <2>1. N \in Nat /\ DOMAIN n.entries = 1..N
    BY <1>0
  <2> QED BY <2>1 DEF LeafHolds, IsRecord
<1>2. at \in 1..N /\ n.entries[at].key = key
  BY FoundIs
<1> HIDE DEF at
<1>3. /\ s \in Seq(Entry) /\ Len(s) = N - 1
      /\ \A i \in 1..(N - 1) : s[i] = IF i < at THEN n.entries[i] ELSE n.entries[i + 1]
  <2> DEFINE a == at - 1
             front == SubSeq(n.entries, 1, a)
             back == SubSeq(n.entries, at + 1, N)
  <2>1. a \in Nat /\ a <= N /\ at \in Nat /\ at <= N /\ 0 \in Nat /\ 0 <= a /\ 0 + 1 = 1
        /\ a - 0 = a /\ \A i \in 1..a : 0 + i = i
    BY <1>1, <1>2
  <2>2. front \in Seq(Entry) /\ Len(front) = a /\ \A i \in 1..a : front[i] = n.entries[i]
    <3> HIDE DEF a
    <3>1. /\ SubSeq(n.entries, 0 + 1, a) \in Seq(Entry)
          /\ Len(SubSeq(n.entries, 0 + 1, a)) = a - 0
          /\ \A i \in 1..(a - 0) : SubSeq(n.entries, 0 + 1, a)[i] = n.entries[0 + i]
      BY <1>0, <2>1, RangeOf
    <3> QED BY <2>1, <3>1
  <2>3. /\ back \in Seq(Entry) /\ Len(back) = N - at
        /\ \A j \in 1..(N - at) : back[j] = n.entries[at + j]
    BY <1>0, <1>1, <2>1, RangeOf
  <2>4. s = front \o back
    OBVIOUS
  <2> HIDE DEF front, back, s
  <2>5. /\ front \o back \in Seq(Entry) /\ Len(front \o back) = Len(front) + Len(back)
        /\ \A i \in 1..Len(front) : (front \o back)[i] = front[i]
        /\ \A i \in 1..Len(back) : (front \o back)[Len(front) + i] = back[i]
    <3>1. front \in Seq(Entry) /\ back \in Seq(Entry)
      BY <2>2, <2>3
    <3> QED BY <3>1, Joins
  <2>6. Len(s) = N - 1
    <3>1. a + (N - at) = N - 1
      BY <1>1, <1>2
    <3> HIDE DEF a, N
    <3> QED BY <2>2, <2>3, <2>4, <2>5, <3>1
  <2>7. \A i \in 1..(N - 1) : s[i] = IF i < at THEN n.entries[i] ELSE n.entries[i + 1]
    <3> TAKE i \in 1..(N - 1)
    <3>1. CASE i < at
      <4>1. i \in 1..a
        BY <1>1, <1>2, <3>1
      <4> HIDE DEF a, N
      <4> QED BY <2>2, <2>4, <2>5, <3>1, <4>1
    <3>2. CASE ~(i < at)
      <4>1. i - a \in 1..(N - at) /\ a + (i - a) = i /\ at + (i - a) = i + 1
        BY <1>1, <1>2, <3>2
      <4> HIDE DEF a, N
      <4> QED BY <2>2, <2>3, <2>4, <2>5, <3>2, <4>1
    <3> QED BY <3>1, <3>2
  <2> QED BY <2>4, <2>5, <2>6, <2>7
<1>4. Leaf(RemoveAt(n.entries, at)) = [kind |-> "leaf", entries |-> s]
  BY DEF Leaf, RemoveAt
<1> HIDE DEF s
<1>5. DOMAIN s = 1..(N - 1)
  BY <1>1, <1>2, <1>3
\* Every entry left is another one.
<1> DEFINE o(i) == IF i < at THEN i ELSE i + 1
<1>6. ASSUME NEW i \in 1..(N - 1)
      PROVE  /\ o(i) \in 1..N /\ o(i) # at /\ s[i] = n.entries[o(i)]
             /\ n.entries[o(i)].key # key
  <2>1. o(i) \in 1..N /\ o(i) # at
    BY <1>1, <1>2
  <2>2. s[i] = n.entries[o(i)]
    BY <1>3
  <2>3. o(i) < at \/ at < o(i)
    BY <1>1, <1>2, <2>1
  <2>4. n.entries[o(i)].key # key
    <3> HIDE DEF o
    <3> QED BY <1>1, <1>2, <2>1, <2>3, KeyOrder
  <2> QED BY <2>1, <2>2, <2>4
<1>7. \A i, j \in 1..(N - 1) : i < j => o(i) < o(j)
  BY <1>1, <1>2
<1> HIDE DEF o
<1>8. /\ DOMAIN r.map = DOMAIN h.map \ {key}
      /\ \A x \in DOMAIN r.map : r.map[x] = h.map[x]
  BY DEF Emptied, Without, Restrict
<1> HIDE DEF r
<1>9. \A i, j \in DOMAIN s : i < j => Less(s[i].key, s[j].key)
  <2> TAKE i, j \in DOMAIN s
  <2>1. i < j => o(i) < o(j)
    BY <1>5, <1>7
  <2>2. o(i) \in 1..N /\ s[i] = n.entries[o(i)] /\ o(j) \in 1..N /\ s[j] = n.entries[o(j)]
    BY <1>5, <1>6
  <2> QED BY <1>1, <2>1, <2>2
<1>10. \A i \in DOMAIN s : /\ s[i].key \in DOMAIN r.map
                           /\ EntryHolds(file, p, s[i], r.map[s[i].key])
  <2> TAKE i \in DOMAIN s
  <2>1. o(i) \in 1..N /\ s[i] = n.entries[o(i)] /\ s[i].key # key
    BY <1>5, <1>6
  <2> QED BY <1>1, <1>8, <2>1
<1>11. \A x \in DOMAIN r.map : \E i \in DOMAIN s : s[i].key = x
  <2> TAKE x \in DOMAIN r.map
  <2>1. PICK j \in 1..N : n.entries[j].key = x
    BY <1>1, <1>8
  <2>2. j # at
    BY <1>2, <1>8, <2>1
  <2>3. CASE j < at
    <3>1. j \in 1..(N - 1)
      BY <1>1, <1>2, <2>3
    <3> QED BY <1>3, <1>5, <2>1, <2>3, <3>1
  <2>4. CASE at < j
    <3>1. j - 1 \in 1..(N - 1) /\ ~(j - 1 < at) /\ (j - 1) + 1 = j
      BY <1>1, <1>2, <2>4
    <3> QED BY <1>3, <1>5, <2>1, <3>1
  <2> QED BY <1>1, <1>2, <2>2, <2>3, <2>4
<1>12. [kind |-> "leaf", entries |-> s] \in LeafPages
  BY <1>3 DEF LeafPages
<1> QED BY <1>4, <1>9, <1>10, <1>11, <1>12 DEF LeafHolds, r, at

\* A node whose child lost a key holds its record without the key.
LEMMA WithChildEmptied ==
  ASSUME NEW file, NEW p, NEW n, NEW h, NEW g, InternalHolds(file, p, n, h, g), IsRecord(h),
         NEW key \in TreeKeys, NEW c \in 1..(p - 1), file[c].kind # "overflow",
         g[c] = Emptied(g[n.children[ChildIndex(n, key)]], key), p \in Nat
  PROVE  InternalHolds(file, p,
                       Internal(n.keys, ReplaceAt(n.children, ChildIndex(n, key), c)),
                       Emptied(h, key), g)
<1> DEFINE ci == ChildIndex(n, key)
           d == g[n.children[ci]]
           r == Emptied(h, key)
           N == Len(n.keys)
           cs == ReplaceAt(n.children, ci, c)
           m == Internal(n.keys, cs)
<1>1. /\ n.keys \in Seq(TreeKeys) /\ n.children \in Seq(Nat)
      /\ N \in Nat /\ Len(n.children) = N + 1
      /\ DOMAIN n.keys = 1..N /\ DOMAIN n.children = 1..(N + 1)
      /\ \A i \in 1..N : n.keys[i] \in TreeKeys /\ n.keys[i] \in h.marks
      /\ \A i, j \in 1..N : i < j => ~Less(n.keys[j], n.keys[i])
      /\ \A i \in 1..(N + 1) : ChildHolds(file, p, n, h, g, i)
      /\ \A k \in DOMAIN h.map : \E i \in 1..(N + 1) : k \in DOMAIN g[n.children[i]].map
  BY InternalIs
<1>2. ci \in 1..(N + 1) /\ Belongs(n, ci, key)
  <2>1. ci \in 1..Len(n.children) /\ Belongs(n, ci, key)
    BY ChildIndexIs
  <2> HIDE DEF ci
  <2> QED BY <1>1, <2>1
<1>3. /\ cs \in Seq(Nat) /\ Len(cs) = N + 1
      /\ \A i \in 1..(N + 1) : cs[i] = IF i = ci THEN c ELSE n.children[i]
  <2>1. cs = [n.children EXCEPT ![ci] = c]
    BY DEF ReplaceAt
  <2> HIDE DEF cs, ci, N
  <2> QED BY <1>1, <1>2, <2>1
<1>4. m \in InternalPages /\ m.keys = n.keys /\ m.children = cs
  <2> HIDE DEF cs
  <2> QED BY <1>1, <1>3 DEF Internal, InternalPages
<1>5. /\ r.marks = h.marks /\ DOMAIN r.map = DOMAIN h.map \ {key}
      /\ \A x \in DOMAIN r.map : r.map[x] = h.map[x]
      /\ g[c].marks = d.marks /\ DOMAIN g[c].map = DOMAIN d.map \ {key}
      /\ \A x \in DOMAIN g[c].map : g[c].map[x] = d.map[x]
  BY DEF Emptied, Without, Restrict
<1> HIDE DEF m, cs, r
<1>6. ASSUME NEW i \in 1..(N + 1) PROVE ChildHolds(file, p, m, r, g, i)
  <2>1. /\ \A k : Belongs(m, i, k) <=> Belongs(n, i, k)
        /\ \A k : Between(m, i, k) <=> Between(n, i, k)
    BY <1>4 DEF Belongs, Between
  <2>2. CASE i = ci
    <3>1. /\ d.marks \subseteq h.marks
          /\ \A k \in d.marks : Between(n, ci, k)
          /\ \A k \in DOMAIN d.map :
               Belongs(n, ci, k) /\ k \in DOMAIN h.map /\ h.map[k] = d.map[k]
      BY <1>1, <1>2 DEF ChildHolds
    <3>2. m.children[i] = c
      BY <1>3, <1>4, <2>2
    <3> HIDE DEF d, ci
    <3> QED BY <1>5, <2>1, <2>2, <3>1, <3>2 DEF ChildHolds
  <2>3. CASE i # ci
    <3> DEFINE b == g[n.children[i]]
    <3>1. ChildHolds(file, p, n, h, g, i) /\ m.children[i] = n.children[i]
      BY <1>1, <1>3, <1>4, <2>3
    <3>2. key \notin DOMAIN b.map
      <4> SUFFICES ASSUME key \in DOMAIN b.map PROVE FALSE
        OBVIOUS
      <4>1. Belongs(n, i, key)
        BY <3>1 DEF ChildHolds
      <4>2. i \in 1..Len(n.children) /\ ci \in 1..Len(n.children)
        BY <1>1, <1>2
      <4> QED BY <1>2, <2>3, <4>1, <4>2, BelongsToOne
    <3>3. \A k \in DOMAIN b.map :
            Belongs(m, i, k) /\ k \in DOMAIN r.map /\ r.map[k] = b.map[k]
      <4> TAKE k \in DOMAIN b.map
      <4>1. Belongs(n, i, k) /\ k \in DOMAIN h.map /\ h.map[k] = b.map[k] /\ k # key
        BY <3>1, <3>2 DEF ChildHolds
      <4> QED BY <1>5, <2>1, <4>1
    <3> QED BY <1>5, <2>1, <3>1, <3>3 DEF ChildHolds
  <2> QED BY <2>2, <2>3
<1>7. \A k \in DOMAIN r.map : \E i \in 1..(N + 1) : k \in DOMAIN g[m.children[i]].map
  <2> TAKE k \in DOMAIN r.map
  <2>1. PICK i \in 1..(N + 1) : k \in DOMAIN g[n.children[i]].map
    BY <1>1, <1>5
  <2>2. k # key
    BY <1>5
  <2>3. k \in DOMAIN g[m.children[i]].map
    <3>1. CASE i = ci
      <4>1. m.children[i] = c
        BY <1>3, <1>4, <3>1
      <4> QED BY <1>5, <2>1, <2>2, <3>1, <4>1 DEF d
    <3>2. CASE i # ci
      <4>1. m.children[i] = n.children[i]
        BY <1>3, <1>4, <3>2
      <4> QED BY <2>1, <4>1
    <3> QED BY <3>1, <3>2
  <2> QED BY <2>3
<1>8. /\ DOMAIN m.keys = 1..N /\ DOMAIN m.children = 1..(N + 1)
      /\ Len(m.children) = Len(m.keys) + 1
  BY <1>1, <1>3, <1>4
<1>9. \A i \in 1..N : m.keys[i] \in r.marks
  BY <1>1, <1>4, <1>5
<1>10. \A i, j \in 1..N : i < j => ~Less(m.keys[j], m.keys[i])
  BY <1>1, <1>4
<1> QED BY <1>4, <1>6, <1>7, <1>8, <1>9, <1>10 DEF InternalHolds, m, r, cs

\* An operation leaves the file's pages as they are, and a tree with this map.
Yields(file, g, done, map) ==
  \E l : /\ FileHolds(done.pages, l) /\ Extends(file, g, done.pages, l)
         /\ done.root \in 1..Len(done.pages)
         /\ done.pages[done.root].kind # "overflow"
         /\ l[done.root].map = map

\* The root of a tree that is there.
IsRoot(file, id) == id \in 1..Len(file) /\ file[id].kind # "overflow"

\* Where a path ends there is a leaf, if the key can be read.
LEMMA PathEnds ==
  ASSUME NEW file, NEW g, FileHolds(file, g), NEW key \in TreeKeys, NEW id,
         IsRoot(file, id), Readable(file, id, key), NEW path, path = Path(file, id, key)
  PROVE  /\ IsPath(file, id, key, path) /\ Len(path) \in Nat /\ Len(path) >= 1
         /\ \A i \in 1..Len(path) : path[i] \in 1..Len(file)
         /\ \A i \in 1..(Len(path) - 1) : file[path[i]].kind = "internal"
         /\ LeafOf(file, id, key) = file[path[Len(path)]]
         /\ LeafHolds(file, path[Len(path)], file[path[Len(path)]], g[path[Len(path)]])
<1> DEFINE L == Len(path)
<1>1. IsPath(file, id, key, path)
  BY PathIs DEF IsRoot
<1>2. /\ L \in Nat /\ L >= 1 /\ \A i \in 1..L : path[i] \in 1..Len(file)
      /\ \A i \in 1..(L - 1) : file[path[i]].kind = "internal"
      /\ file[path[L]].kind \notin {"internal", "overflow"}
  <2>1. path \in Seq(1..Len(file)) /\ L >= 1
    BY <1>1 DEF IsPath
  <2>2. L \in Nat /\ \A i \in 1..L : path[i] \in 1..Len(file)
    BY <2>1
  <2>3. /\ \A i \in 1..(L - 1) : file[path[i]].kind = "internal"
        /\ file[path[L]].kind \notin {"internal", "overflow"}
    BY <1>1, Zenon DEF IsPath
  <2> QED BY <2>1, <2>2, <2>3
<1>3. LeafOf(file, id, key) = file[path[L]]
  BY DEF LeafOf, Last
<1>4. file[path[L]] # Damaged
  <2>1. id # InvalidPageID
    BY DEF IsRoot, InvalidPageID
  <2> QED BY <1>3, <2>1 DEF Readable
<1>5. path[L] \in 1..Len(file)
  BY <1>2
<1> HIDE DEF L
<1>6. LeafHolds(file, path[L], file[path[L]], g[path[L]])
  BY <1>2, <1>4, <1>5, KindsAre
<1> QED BY <1>1, <1>2, <1>3, <1>6 DEF L

\* Deleting leaves a tree without the key, and the file as it is when the key is
\* not there.
LEMMA RemovedHolds ==
  ASSUME NEW file, NEW g, FileHolds(file, g), NEW key \in TreeKeys, NEW id,
         IsRoot(file, id), Readable(file, id, key)
  PROVE  IF key \in DOMAIN g[id].map
         THEN Yields(file, g, Removed(file, id, key), Without(g[id].map, key))
         ELSE Removed(file, id, key) = [pages |-> file, root |-> id]
<1> DEFINE path == Path(file, id, key)
           L == Len(path)
           N == Len(file)
           done == Removed(file, id, key)
           leaf == file[path[L]]
<1>0. id # InvalidPageID /\ id \in 1..N
  BY DEF IsRoot, InvalidPageID
<1>1. /\ IsPath(file, id, key, path) /\ L \in Nat /\ L >= 1
      /\ \A i \in 1..L : path[i] \in 1..N
      /\ \A i \in 1..(L - 1) : file[path[i]].kind = "internal"
      /\ LeafOf(file, id, key) = leaf
      /\ LeafHolds(file, path[L], leaf, g[path[L]])
  BY PathEnds
<1>2. N \in Nat /\ file \in Seq(Page)
  BY DEF FileHolds
<1>3. \A i \in 1..L : Alike(g[id], g[path[i]], key) /\ IsRecord(g[path[i]])
  BY <1>1, PathKeeps, KindsAre
<1>4. Found(leaf.entries, key) <=> key \in DOMAIN g[id].map
  <2>1. L \in 1..L
    BY <1>1
  <2>2. Alike(g[id], g[path[L]], key) /\ IsRecord(g[path[L]])
    BY <1>3, <2>1
  <2>3. Found(leaf.entries, key) <=> key \in DOMAIN g[path[L]].map
    BY <1>1, <2>2, FoundIs
  <2> QED BY <2>2, <2>3 DEF Alike
<1>5. CASE key \notin DOMAIN g[id].map
  BY <1>1, <1>4, <1>5 DEF Removed
<1>6. CASE key \in DOMAIN g[id].map
  <2> DEFINE q(i) == path[L + 1 - i]
             R(i) == IF i = 1
                     THEN Leaf(RemoveAt(leaf.entries, LeafSearch(leaf.entries, key)))
                     ELSE Internal(file[q(i)].keys,
                                   ReplaceAt(file[q(i)].children, ChildIndex(file[q(i)], key),
                                             N + i - 1))
             more == [i \in 1..L |-> R(i)]
             all == file \o more
             l == [p \in 1..(N + L) |-> IF p <= N THEN g[p] ELSE Emptied(g[q(p - N)], key)]
  <2>1. done = [pages |-> all, root |-> N + L]
    BY <1>0, <1>1, <1>4, <1>6 DEF Removed
  <2>2. /\ \A i \in 1..L : q(i) \in 1..N
        /\ \A i \in 2..L : file[q(i)].kind = "internal"
                           /\ q(i - 1) = file[q(i)].children[ChildIndex(file[q(i)], key)]
        /\ q(1) = path[L] /\ q(L) = id
    <3>1. \A i \in 1..L : L + 1 - i \in 1..L
      BY <1>1
    <3>2. \A i \in 2..L : L + 1 - i \in 1..(L - 1) /\ L + 1 - (i - 1) = (L + 1 - i) + 1
      BY <1>1
    <3>3. \A i \in 1..(L - 1) :
            path[i + 1] = file[path[i]].children[ChildIndex(file[path[i]], key)]
      BY <1>1 DEF IsPath
    <3>4. path[1] = id /\ L + 1 - 1 = L /\ L + 1 - L = 1
      BY <1>1 DEF IsPath
    <3> HIDE DEF path, L
    <3> QED BY <1>1, <3>1, <3>2, <3>3, <3>4
  <2> HIDE DEF q, path, N
  <2>3. Found(leaf.entries, key) /\ IsRecord(g[path[L]])
    <3>1. L \in 1..L
      BY <1>1
    <3> QED BY <1>3, <1>4, <1>6, <3>1
  <2>4. LeafHolds(file, path[L], R(1), Emptied(g[path[L]], key))
    BY <1>1, <2>3, WithoutEntryHolds
  <2>5. ASSUME NEW i \in 2..L
        PROVE  /\ InternalHolds(file, q(i), file[q(i)], g[q(i)], g)
               /\ IsRecord(g[q(i)]) /\ R(i) \in InternalPages
    <3>1. q(i) \in 1..N /\ file[q(i)].kind = "internal"
      BY <2>2
    <3>2. InternalHolds(file, q(i), file[q(i)], g[q(i)], g) /\ IsRecord(g[q(i)])
      BY <3>1, KindsAre DEF N
    <3>3. file[q(i)].keys \in Seq(TreeKeys) /\ file[q(i)].children \in Seq(Nat)
      BY <3>2, InternalIs
    <3>4. N + i - 1 \in Nat /\ i # 1
      BY <1>2
    <3>5. ReplaceAt(file[q(i)].children, ChildIndex(file[q(i)], key), N + i - 1) \in Seq(Nat)
      <4> DEFINE x == N + i - 1
                 d == file[q(i)].children
                 ci == ChildIndex(file[q(i)], key)
      <4>1. x \in Nat /\ d \in Seq(Nat)
        BY <3>3, <3>4
      <4> HIDE DEF x, d, ci
      <4>2. [d EXCEPT ![ci] = x] \in Seq(Nat)
        <5> DEFINE t == [j \in 1..Len(d) |-> IF j = ci THEN x ELSE d[j]]
        <5>1. Len(d) \in Nat /\ DOMAIN d = 1..Len(d) /\ \A j \in 1..Len(d) : d[j] \in Nat
          BY <4>1
        <5>2. [d EXCEPT ![ci] = x] = t
          BY <5>1
        <5>3. \A j \in 1..Len(d) : (IF j = ci THEN x ELSE d[j]) \in Nat
          BY <4>1, <5>1
        <5>4. t \in Seq(Nat)
          BY <5>1, <5>3
        <5> QED BY <5>2, <5>4
      <4> QED BY <4>2 DEF ReplaceAt, x, d, ci
    <3>6. R(i) = Internal(file[q(i)].keys,
                   ReplaceAt(file[q(i)].children, ChildIndex(file[q(i)], key), N + i - 1))
      BY <3>4
    <3> HIDE DEF R
    <3> QED BY <3>2, <3>3, <3>5, <3>6 DEF Internal, InternalPages
  <2>6. \A i \in 1..L : R(i) \in Page /\ R(i).kind # "overflow"
    <3> TAKE i \in 1..L
    <3>1. R(1) \in LeafPages
      BY <2>4 DEF LeafHolds
    <3>2. i = 1 \/ i \in 2..L
      BY <1>1
    <3> HIDE DEF R
    <3> QED BY <2>5, <3>1, <3>2 DEF Page, LeafPages, InternalPages
  <2> HIDE DEF R
  <2>7. more \in Seq(Page) /\ Len(more) = L /\ \A i \in 1..L : more[i] = R(i)
    <3> HIDE DEF L
    <3> QED BY <1>1, <2>6
  <2> HIDE DEF more
  <2>8. /\ all \in Seq(Page) /\ Len(all) = N + L
        /\ \A i \in 1..N : all[i] = file[i]
        /\ \A i \in 1..L : all[N + i] = R(i)
    <3>1. /\ all \in Seq(Page) /\ Len(all) = Len(file) + Len(more)
          /\ \A i \in 1..Len(file) : all[i] = file[i]
          /\ \A i \in 1..Len(more) : all[Len(file) + i] = more[i]
      <4>1. file \in Seq(Page) /\ more \in Seq(Page)
        BY <1>2, <2>7
      <4> QED BY <4>1, Joins
    <3> HIDE DEF all, L
    <3> QED BY <2>7, <3>1 DEF N
  <2> HIDE DEF all
  <2>9. /\ \A p \in 1..N : l[p] = g[p]
        /\ \A i \in 1..L : l[N + i] = Emptied(g[q(i)], key)
    <3>1. \A i \in 1..L : N + i \in 1..(N + L) /\ ~(N + i <= N) /\ (N + i) - N = i
      BY <1>1, <1>2
    <3>2. \A p \in 1..N : p \in 1..(N + L) /\ p <= N
      BY <1>1, <1>2
    <3> HIDE DEF L
    <3> QED BY <3>1, <3>2
  <2> HIDE DEF l
  <2>10. Extends(file, g, all, l)
    <3>1. N <= N + L
      BY <1>1, <1>2
    <3> QED BY <2>8, <2>9, <3>1 DEF Extends, N
  <2>11. ASSUME NEW i \in 1..L
         PROVE  /\ IsRecord(l[N + i])
                /\ all[N + i].kind = "leaf" => LeafHolds(all, N + i, all[N + i], l[N + i])
                /\ all[N + i].kind = "internal" =>
                     InternalHolds(all, N + i, all[N + i], l[N + i], l)
                /\ all[N + i].kind # "overflow"
    <3>1. q(i) \in 1..N /\ q(i) \in Nat /\ N + i \in Nat /\ q(i) <= N + i /\ q(i) <= N + 1
      BY <1>2, <2>2
    <3>2. IsRecord(l[N + i])
      <4>1. IsRecord(g[q(i)])
        BY <3>1, KindsAre DEF N
      <4> QED BY <2>9, <4>1, RecordsAre
    <3>3. all[N + i] = R(i) /\ all[N + i].kind # "overflow" /\ l[N + i] = Emptied(g[q(i)], key)
      BY <2>6, <2>8, <2>9
    <3>4. CASE i = 1
      <4>1. LeafHolds(file, q(i), R(i), Emptied(g[q(i)], key))
        BY <2>2, <2>4, <3>4
      <4>2. LeafHolds(all, N + i, R(i), Emptied(g[q(i)], key))
        BY <1>2, <2>10, <3>1, <4>1, NodeStays DEF N
      <4>3. R(i).kind = "leaf"
        BY <4>1 DEF LeafHolds, LeafPages
      <4> QED BY <3>2, <3>3, <4>2, <4>3
    <3>5. CASE i # 1
      <4> DEFINE n == file[q(i)]
                 c == N + i - 1
      <4>1. i \in 2..L
        BY <1>1, <3>5
      <4>2. InternalHolds(file, q(i), n, g[q(i)], g) /\ IsRecord(g[q(i)]) /\ R(i) \in InternalPages
        BY <2>5, <4>1
      <4>3. InternalHolds(all, N + i, n, g[q(i)], l)
        BY <1>2, <2>10, <3>1, <4>2, NodeStays DEF N
      <4>4. c \in 1..((N + i) - 1) /\ i - 1 \in 1..L /\ c = N + (i - 1)
        BY <1>1, <1>2, <4>1
      <4>5. all[c].kind # "overflow" /\ l[c] = Emptied(g[q(i - 1)], key)
        BY <2>6, <2>8, <2>9, <4>4
      <4>6. l[n.children[ChildIndex(n, key)]] = g[q(i - 1)]
        <5>1. q(i - 1) = n.children[ChildIndex(n, key)] /\ q(i - 1) \in 1..N
          BY <2>2, <4>1, <4>4
        <5> QED BY <2>9, <5>1
      <4>7. R(i) = Internal(n.keys, ReplaceAt(n.children, ChildIndex(n, key), c))
        BY <3>5 DEF R
      <4> HIDE DEF c, n
      <4>8. InternalHolds(all, N + i, R(i), Emptied(g[q(i)], key), l)
        BY <3>1, <4>2, <4>3, <4>4, <4>5, <4>6, <4>7, WithChildEmptied
      <4>9. R(i).kind = "internal"
        BY <4>2 DEF InternalPages
      <4> QED BY <3>2, <3>3, <4>8, <4>9
    <3> QED BY <3>4, <3>5
  <2>12. FileHolds(all, l)
    <3>1. ASSUME NEW p \in (Len(file) + 1)..Len(all)
          PROVE  /\ IsRecord(l[p])
                 /\ all[p].kind = "leaf" => LeafHolds(all, p, all[p], l[p])
                 /\ all[p].kind = "internal" => InternalHolds(all, p, all[p], l[p], l)
                 /\ all[p].kind = "overflow" => all[p].next \in 1..Len(all) \cup {InvalidPageID}
      <4>1. p - N \in 1..L /\ N + (p - N) = p
        <5>1. p \in (N + 1)..(N + L)
          BY <2>8 DEF N
        <5> QED BY <1>1, <1>2, <5>1
      <4> QED BY <2>11, <4>1
    <3> QED BY <2>10, <3>1, PagesHold
  <2>13. /\ done.root \in 1..Len(done.pages) /\ done.pages[done.root].kind # "overflow"
         /\ l[done.root].map = Without(g[id].map, key)
    <3>1. L \in 1..L /\ N + L \in 1..(N + L)
      BY <1>1, <1>2
    <3>2. done.root = N + L /\ done.pages = all /\ all[N + L].kind # "overflow"
          /\ l[N + L] = Emptied(g[id], key)
      BY <2>1, <2>2, <2>6, <2>8, <2>9, <3>1
    <3> QED BY <2>8, <3>1, <3>2 DEF Emptied
  <2> HIDE DEF L, done
  <2>14. Yields(file, g, done, Without(g[id].map, key))
    BY <2>1, <2>10, <2>12, <2>13 DEF Yields
  <2> QED BY <1>6, <2>14 DEF done
<1> QED BY <1>5, <1>6

-----------------------------------------------------------------------------
(***************************************************************************)
(* Insert: up the path                                                     *)
(***************************************************************************)
\* f gives what comes of the pages of a path, the leaf's first.
Climbs(file, path, made, f) ==
  /\ f[1] = WriteMaybeSplit(made.pages, WithEntry(file[path[Len(path) + 1 - 1]], made.entry))
  /\ \A n \in 2..Len(path) : f[n] = WriteMaybeSplit(f[n - 1].pages, WithChild(file[path[Len(path) + 1 - n]], made.entry.key, f[n - 1]))

\* The pages of a path are written anew from the leaf up.
LEMMA ClimbOf ==
  ASSUME NEW file, NEW path, NEW made, Len(path) \in Nat, Len(path) >= 1
  PROVE  \E f : Climbs(file, path, made, f) /\ InsertUp(file, path, made) = f[Len(path)]
<1> DEFINE First == WriteMaybeSplit(made.pages, WithEntry(file[path[Len(path) + 1 - 1]], made.entry))
           Step(x, n) == WriteMaybeSplit(x.pages, WithChild(file[path[Len(path) + 1 - n]], made.entry.key, x))
           Rec(f, k) == [n \in 1..k |-> IF n = 1 THEN First ELSE Step(f[n - 1], n)]
           Bad == {k \in 1..Len(path) : ~\E f : f = Rec(f, k)}
           all == CHOOSE f : f = Rec(f, Len(path))
<1>0. Len(path) \in Nat /\ Len(path) >= 1
  OBVIOUS
<1>1. InsertUp(file, path, made) = all[Len(path)]
  BY DEF InsertUp
<1> HIDE DEF First, Step
<1>2. Bad = {}
  <2> SUFFICES ASSUME Bad # {} PROVE FALSE
    OBVIOUS
  <2>1. PICK k \in Bad : \A y \in Bad : k <= y
    <3>1. Bad \subseteq Nat
      OBVIOUS
    <3> HIDE DEF Bad
    <3> QED BY <3>1, Least
  <2>2. k \in 1..Len(path) /\ ~\E f : f = Rec(f, k)
    OBVIOUS
  <2>3. CASE k = 1
    <3> DEFINE f == [n \in 1..1 |-> First]
    <3>1. f = Rec(f, 1)
      OBVIOUS
    <3> QED BY <2>2, <2>3, <3>1
  <2>4. CASE k # 1
    <3>1. k - 1 \in 1..Len(path) /\ ~(k <= k - 1)
      BY <1>0, <2>2, <2>4
    <3>2. PICK f : f = Rec(f, k - 1)
      <4>1. k - 1 \notin Bad
        <5> HIDE DEF Bad
        <5> QED BY <2>1, <3>1
      <4> QED BY <3>1, <4>1
    <3> DEFINE g == [n \in 1..k |-> IF n = k THEN Step(f[k - 1], k) ELSE f[n]]
    <3>3. ASSUME NEW n \in 1..k
          PROVE  g[n] = IF n = 1 THEN First ELSE Step(g[n - 1], n)
      <4>1. n = k \/ n \in 1..(k - 1)
        BY <2>2
      <4>2. n # 1 => n - 1 \in 1..(k - 1) /\ n - 1 \in 1..k /\ n - 1 # k
        BY <2>2
      <4>3. n # 1 => g[n - 1] = f[n - 1]
        BY <4>2
      <4>4. n \in 1..(k - 1) => f[n] = IF n = 1 THEN First ELSE Step(f[n - 1], n)
        BY <3>2
      <4>5. g[n] = IF n = k THEN Step(f[k - 1], k) ELSE f[n]
        OBVIOUS
      <4> HIDE DEF g
      <4> QED BY <2>4, <4>1, <4>3, <4>4, <4>5
    <3>4. g = Rec(g, k)
      BY <3>3
    <3> HIDE DEF g
    <3> QED BY <2>2, <3>4
  <2> QED BY <2>3, <2>4
<1>3. \E f : f = Rec(f, Len(path))
  BY <1>0, <1>2
<1>4. all = Rec(all, Len(path))
  <2> HIDE DEF Rec
  <2> QED BY <1>3
<1>5. all[1] = First
  <2> HIDE DEF all
  <2> QED BY <1>0, <1>4
<1>6. ASSUME NEW n \in 2..Len(path) PROVE all[n] = Step(all[n - 1], n)
  <2>1. n \in 1..Len(path) /\ n # 1
    BY <1>0
  <2> HIDE DEF all
  <2> QED BY <1>4, <2>1
<1> HIDE DEF all
<1>7. QED BY <1>1, <1>5, <1>6 DEF First, Step, Climbs


\* The state of an insert: the page q of the path was written anew, behind the
\* pages of the value, and holds its record with the key's value.
Climbed(first, l0, key, v, u, w, l) ==
  /\ FileHolds(w.pages, l) /\ Extends(first, l0, w.pages, l)
  /\ Renewed(w.pages, Len(w.pages) + 1, Updated(u, key, v), w, l)
  /\ \A p \in (Len(first) + 1)..Len(w.pages) : w.pages[p].kind # "overflow"

\* Writing a node makes it Climbed.
LEMMA ClimbsOn ==
  ASSUME NEW first, NEW l0, FileHolds(first, l0), NEW key, NEW v, NEW u,
         NEW file, NEW g, FileHolds(file, g), Extends(first, l0, file, g),
         \A p \in (Len(first) + 1)..Len(file) : file[p].kind # "overflow",
         NEW n, NodeHolds(file, Len(file) + 1, n, Updated(u, key, v), g),
         NEW w, w = WriteMaybeSplit(file, n)
  PROVE  \E l : Climbed(first, l0, key, v, u, w, l)
<1> DEFINE N == Len(file)
           h == Updated(u, key, v)
<1>1. N \in Nat /\ Len(first) \in Nat /\ first \in Seq(Page)
  BY DEF FileHolds
<1>2. PICK l : Written(file, N, h, w, l) /\ Extends(file, g, w.pages, l)
  BY WritesNode
<1>3. FileHolds(w.pages, l) /\ Extends(first, l0, w.pages, l)
  BY <1>1, <1>2, ExtendsFurther DEF Written
<1> HIDE DEF h, N
<1>4. /\ Len(w.pages) = N + 1 \/ Len(w.pages) = N + 2
      /\ w.pages[N + 1].kind # "overflow"
      /\ Len(w.pages) = N + 2 => w.pages[N + 2].kind # "overflow"
  BY <1>1, <1>2 DEF Written
<1>5. \A p \in (Len(first) + 1)..Len(w.pages) : w.pages[p].kind # "overflow"
  <2> TAKE p \in (Len(first) + 1)..Len(w.pages)
  <2>1. CASE p <= N
    <3>1. p \in (Len(first) + 1)..Len(file) /\ p \in 1..Len(file)
      BY <1>1, <2>1 DEF N
    <3> QED BY <1>2, <3>1 DEF Extends
  <2>2. CASE p > N
    <3>1. p = N + 1 \/ (p = N + 2 /\ Len(w.pages) = N + 2)
      BY <1>1, <1>4, <2>2
    <3> QED BY <1>4, <3>1
  <2> QED BY <1>1, <2>1, <2>2
<1>6. Renewed(w.pages, Len(w.pages) + 1, h, w, l)
  <2> DEFINE M == Len(w.pages)
  <2>1. M \in Nat /\ (M + 1) - 1 = M
    BY <1>1, <1>4
  <2>2. CASE /\ w.right = InvalidPageID /\ M = N + 1
             /\ l[N + 1] = h
    <3>1. w.id = N + 1 /\ w.id \in 1..M
      BY <1>1, <1>2, <2>2 DEF Written
    <3> HIDE DEF M
    <3> QED BY <1>4, <2>1, <2>2, <3>1 DEF Renewed, M
  <2>3. CASE /\ w.right = N + 2 /\ M = N + 2
             /\ w.pages[N + 2].kind # "overflow"
             /\ w.sep \in h.marks /\ l[N + 1] = Below(h, w.sep) /\ l[N + 2] = Above(h, w.sep)
    <3>1. w.id = N + 1 /\ w.id \in 1..M /\ w.right \in 1..M
      BY <1>1, <1>2, <2>3 DEF Written
    <3> HIDE DEF M
    <3> QED BY <1>4, <2>1, <2>3, <3>1 DEF Renewed, M
  <2> QED BY <1>2, <2>2, <2>3 DEF Written
<1>7. Climbed(first, l0, key, v, u, w, l)
  BY <1>3, <1>5, <1>6 DEF Climbed, h
<1> QED BY <1>7

\* Up to the root, every page of the path is written anew.
LEMMA ClimbsUp ==
  ASSUME NEW file, NEW g, FileHolds(file, g), NEW key \in TreeKeys, NEW v \in Values, NEW id,
         IsRoot(file, id), Readable(file, id, key),
         NEW made, NEW l0, FileHolds(made.pages, l0), Extends(file, g, made.pages, l0),
         made.entry.key = key,
         EntryHolds(made.pages, Len(made.pages) + 1, made.entry, v),
         NEW top, top = InsertUp(file, Path(file, id, key), made)
  PROVE  \E l : Climbed(made.pages, l0, key, v, g[id], top, l)
<1> DEFINE path == Path(file, id, key)
           L == Len(path)
           N == Len(file)
           first == made.pages
           q(i) == path[L + 1 - i]
<1>1. /\ IsPath(file, id, key, path) /\ L \in Nat /\ L >= 1
      /\ \A i \in 1..L : path[i] \in 1..N
      /\ \A i \in 1..(L - 1) : file[path[i]].kind = "internal"
      /\ LeafHolds(file, path[L], file[path[L]], g[path[L]])
  BY PathEnds
<1>2. /\ N \in Nat /\ file \in Seq(Page) /\ Len(first) \in Nat /\ N <= Len(first)
      /\ first \in Seq(Page)
  BY DEF FileHolds, Extends
<1>3. PICK up : Climbs(file, path, made, up) /\ top = up[L]
  BY <1>1, ClimbOf
<1>4. /\ \A i \in 1..L : q(i) \in 1..N
      /\ \A i \in 2..L : file[q(i)].kind = "internal"
                         /\ q(i - 1) = file[q(i)].children[ChildIndex(file[q(i)], key)]
      /\ q(1) = path[L] /\ q(L) = id
  <2>1. \A i \in 1..L : L + 1 - i \in 1..L
    BY <1>1
  <2>2. \A i \in 2..L : L + 1 - i \in 1..(L - 1) /\ L + 1 - (i - 1) = (L + 1 - i) + 1
    BY <1>1
  <2>3. \A i \in 1..(L - 1) :
          path[i + 1] = file[path[i]].children[ChildIndex(file[path[i]], key)]
    BY <1>1 DEF IsPath
  <2>4. path[1] = id /\ L + 1 - 1 = L /\ L + 1 - L = 1
    BY <1>1 DEF IsPath
  <2> HIDE DEF path, L
  <2> QED BY <1>1, <2>1, <2>2, <2>3, <2>4
<1>5. /\ up[1] = WriteMaybeSplit(first, WithEntry(file[q(1)], made.entry))
      /\ \A i \in 2..L :
           up[i] = WriteMaybeSplit(up[i - 1].pages, WithChild(file[q(i)], key, up[i - 1]))
  BY <1>3 DEF Climbs
<1> HIDE DEF path, q, first, N
<1> DEFINE Good(i) == \E l : Climbed(first, l0, key, v, g[q(i)], up[i], l)
           Bad == {i \in 1..L : ~Good(i)}
<1>6. FileHolds(first, l0) /\ Extends(file, g, first, l0)
  BY DEF first
<1>7. \A i \in 1..L : IsRecord(g[q(i)]) /\ IsRecord(Updated(g[q(i)], key, v))
  <2> TAKE i \in 1..L
  <2>1. q(i) \in 1..N
    BY <1>4
  <2>2. IsRecord(g[q(i)])
    BY <2>1, KindsAre DEF N
  <2> QED BY <2>2, RecordsAre
<1>8. Good(1)
  <2> DEFINE n == file[q(1)]
             m == WithEntry(n, made.entry)
  <2>1. q(1) \in 1..N /\ LeafHolds(file, q(1), n, g[q(1)])
    <3>1. 1 \in 1..L
      BY <1>1
    <3> QED BY <1>1, <1>4, <3>1 DEF q
  <2>2. LeafHolds(first, Len(first) + 1, n, g[q(1)])
    <3>1. /\ q(1) \in Nat /\ Len(first) + 1 \in Nat /\ q(1) <= Len(first) + 1
          /\ q(1) <= Len(file) + 1
      BY <1>2, <2>1 DEF N
    <3> HIDE DEF n
    <3> QED BY <1>2, <1>6, <2>1, <3>1, NodeStays
  <2>3. 1 \in 1..L
    BY <1>1
  <2> HIDE DEF n
  <2>4. LeafHolds(first, Len(first) + 1, m, Updated(g[q(1)], key, v))
    <3>1. IsRecord(g[q(1)]) /\ EntryHolds(first, Len(first) + 1, made.entry, v)
          /\ made.entry.key = key
      BY <1>7, <2>3 DEF first
    <3>2. LeafHolds(first, Len(first) + 1, m, Updated(g[q(1)], made.entry.key, v))
      BY <2>2, <3>1, WithEntryHolds
    <3> QED BY <3>1, <3>2
  <2> HIDE DEF m
  <2>5. NodeHolds(first, Len(first) + 1, m, Updated(g[q(1)], key, v), l0)
    BY <1>7, <2>3, <2>4 DEF NodeHolds
  <2>6. Extends(first, l0, first, l0) /\ \A p \in (Len(first) + 1)..Len(first) : FALSE
    BY <1>2 DEF Extends
  <2>7. up[1] = WriteMaybeSplit(first, m)
    BY <1>5 DEF m, n
  <2> QED BY <1>6, <2>5, <2>6, <2>7, ClimbsOn
<1>9. ASSUME NEW i \in 2..L, Good(i - 1) PROVE Good(i)
  <2> DEFINE n == file[q(i)]
             w == up[i - 1]
             now == w.pages
             m == WithChild(n, key, w)
             c == q(i - 1)
  <2>1. PICK l : Climbed(first, l0, key, v, g[c], w, l)
    BY <1>9
  <2>2. /\ FileHolds(now, l) /\ Extends(first, l0, now, l)
        /\ Renewed(now, Len(now) + 1, Updated(g[c], key, v), w, l)
        /\ \A p \in (Len(first) + 1)..Len(now) : now[p].kind # "overflow"
    BY <2>1 DEF Climbed
  <2>3. i \in 1..L /\ i - 1 \in 1..L
    BY <1>1
  <2>4. /\ q(i) \in 1..N /\ n.kind = "internal" /\ c = n.children[ChildIndex(n, key)]
        /\ c \in 1..N
    BY <1>4, <2>3
  <2> HIDE DEF w
  <2>5. Extends(file, g, now, l)
    BY <1>2, <1>6, <2>2, ExtendsFurther DEF N
  <2>6. l[c] = g[c] /\ Len(now) \in Nat /\ N <= Len(now)
    BY <2>4, <2>5 DEF Extends, N
  <2>7. InternalHolds(file, q(i), n, g[q(i)], g) /\ IsRecord(g[q(i)])
    BY <2>4, KindsAre DEF N
  <2> HIDE DEF now, n, c
  <2>8. InternalHolds(now, Len(now) + 1, n, g[q(i)], l)
    <3>1. /\ q(i) \in Nat /\ Len(now) + 1 \in Nat /\ q(i) <= Len(now) + 1
          /\ q(i) <= Len(file) + 1
      BY <1>2, <2>4, <2>6 DEF N
    <3> QED BY <1>2, <2>5, <2>7, <3>1, NodeStays
  <2>9. InternalHolds(now, Len(now) + 1, m, Updated(g[q(i)], key, v), l)
    <3>1. Len(now) + 1 \in Nat
      BY <2>6
    <3>2. Renewed(now, Len(now) + 1, Updated(l[n.children[ChildIndex(n, key)]], key, v), w, l)
      BY <2>2, <2>4, <2>6 DEF now
    <3> QED BY <2>7, <2>8, <3>1, <3>2, WithChildHolds
  <2> HIDE DEF m
  <2>10. NodeHolds(now, Len(now) + 1, m, Updated(g[q(i)], key, v), l)
    BY <1>7, <2>3, <2>9 DEF NodeHolds
  <2>11. up[i] = WriteMaybeSplit(now, m)
    BY <1>5 DEF now, m, n, w
  <2> QED BY <1>6, <2>2, <2>10, <2>11, ClimbsOn DEF now
<1>10. Bad = {}
  <2> SUFFICES ASSUME Bad # {} PROVE FALSE
    OBVIOUS
  <2>1. PICK i \in Bad : \A y \in Bad : i <= y
    <3>1. Bad \subseteq Nat
      OBVIOUS
    <3> HIDE DEF Bad
    <3> QED BY <3>1, Least
  <2>2. i \in 1..L /\ ~Good(i)
    OBVIOUS
  <2> HIDE DEF Good
  <2>3. i \in 2..L /\ i - 1 \in 1..L /\ ~(i <= i - 1)
    BY <1>1, <1>8, <2>2
  <2>4. Good(i - 1)
    <3>1. i - 1 \notin Bad
      <4> HIDE DEF Bad
      <4> QED BY <2>1, <2>3
    <3> QED BY <2>3, <3>1
  <2> QED BY <1>9, <2>2, <2>3, <2>4
<1>11. Good(L)
  <2>1. L \in 1..L
    BY <1>1
  <2> HIDE DEF Good
  <2> QED BY <1>10, <2>1
<1> QED BY <1>3, <1>4, <1>11 DEF first

\* A root above two pages that share a record holds it.
LEMMA RootHolds ==
  ASSUME NEW file, NEW p \in Nat, NEW u, IsRecord(u), NEW g, NEW s \in u.marks,
         NEW a \in 1..(p - 1), NEW b \in 1..(p - 1),
         file[a].kind # "overflow", file[b].kind # "overflow",
         g[a] = Below(u, s), g[b] = Above(u, s)
  PROVE  InternalHolds(file, p, Internal(<<s>>, <<a, b>>), u, g)
<1> DEFINE m == Internal(<<s>>, <<a, b>>)
<1>1. s \in TreeKeys /\ u.marks \subseteq TreeKeys /\ DOMAIN u.map \subseteq u.marks
  BY DEF IsRecord
<1>2. /\ m \in InternalPages /\ m.keys = <<s>> /\ m.children = <<a, b>>
  BY <1>1 DEF Internal, InternalPages
<1> HIDE DEF m
<1>3. /\ DOMAIN m.keys = 1..1 /\ DOMAIN m.children = 1..2 /\ Len(m.children) = Len(m.keys) + 1
      /\ m.keys[1] = s /\ m.children[1] = a /\ m.children[2] = b
  BY <1>2
<1>4. /\ DOMAIN g[a].map = {k \in DOMAIN u.map : Less(k, s)}
      /\ \A k \in DOMAIN g[a].map : g[a].map[k] = u.map[k]
      /\ g[a].marks = {k \in u.marks : ~Less(s, k)}
      /\ DOMAIN g[b].map = {k \in DOMAIN u.map : ~Less(k, s)}
      /\ \A k \in DOMAIN g[b].map : g[b].map[k] = u.map[k]
      /\ g[b].marks = {k \in u.marks : ~Less(k, s)}
  BY DEF Below, Above, Restrict
<1>5. /\ \A k : Belongs(m, 1, k) <=> Less(k, s)
      /\ \A k : Between(m, 1, k) <=> ~Less(s, k)
      /\ \A k : Belongs(m, 2, k) <=> ~Less(k, s)
      /\ \A k : Between(m, 2, k) <=> ~Less(k, s)
  <2>1. \A j \in 1..1 : j = 1 /\ ~(j < 1) /\ j < 2
    OBVIOUS
  <2>2. 1 \in 1..1
    OBVIOUS
  <2> QED BY <1>3, <2>1, <2>2 DEF Belongs, Between
<1>6. ChildHolds(file, p, m, u, g, 1)
  BY <1>3, <1>4, <1>5 DEF ChildHolds
<1>7. ChildHolds(file, p, m, u, g, 2)
  BY <1>3, <1>4, <1>5 DEF ChildHolds
<1>8. \A i \in 1..2 : i = 1 \/ i = 2
  OBVIOUS
<1>9. \A i \in 1..1 : m.keys[i] \in u.marks
  <2>1. \A i \in 1..1 : i = 1
    OBVIOUS
  <2> QED BY <1>3, <2>1
<1>10. \A i, j \in 1..1 : i < j => FALSE
  OBVIOUS
<1>11. \A k \in DOMAIN u.map : \E i \in 1..2 : k \in DOMAIN g[m.children[i]].map
  <2> TAKE k \in DOMAIN u.map
  <2>1. 1 \in 1..2 /\ 2 \in 1..2
    OBVIOUS
  <2>2. CASE Less(k, s)
    BY <1>3, <1>4, <2>1, <2>2
  <2>3. CASE ~Less(k, s)
    BY <1>3, <1>4, <2>1, <2>3
  <2> QED BY <2>2, <2>3
<1> QED BY <1>2, <1>3, <1>6, <1>7, <1>8, <1>9, <1>10, <1>11 DEF InternalHolds, m

\* An operation writes a value's chain, and behind it the pages of a tree with
\* this map.
Grows(file, g, chain, done, map) ==
  \E l0, l : /\ FileHolds(chain, l0) /\ Extends(file, g, chain, l0)
             /\ FileHolds(done.pages, l) /\ Extends(chain, l0, done.pages, l)
             /\ \A p \in (Len(chain) + 1)..Len(done.pages) : done.pages[p].kind # "overflow"
             /\ IsRoot(done.pages, done.root) /\ l[done.root].map = map

\* Inserting leaves a tree with the key's value.
LEMMA InsertedHolds ==
  ASSUME NEW file, NEW g, FileHolds(file, g), NEW key \in TreeKeys, NEW v \in Values, NEW id,
         NEW map, Readable(file, id, key),
         IF id = InvalidPageID THEN map = <<>> ELSE IsRoot(file, id) /\ map = g[id].map
  PROVE  Grows(file, g, MakeEntry(file, key, v).pages, Inserted(file, id, key, v),
               With(map, key, v))
<1> DEFINE made == MakeEntry(file, key, v)
           first == made.pages
           e == made.entry
           done == Inserted(file, id, key, v)
           top == InsertUp(file, Path(file, id, key), made)
<1>1. PICK l0 : /\ FileHolds(first, l0) /\ Extends(file, g, first, l0)
                /\ EntryHolds(first, Len(first) + 1, e, v)
  BY MakesEntry
<1>2. e.key = key
  BY MakesEntry
<1>3. first \in Seq(Page) /\ Len(first) \in Nat
  BY <1>1 DEF FileHolds
<1>4. CASE id = InvalidPageID
  <2> DEFINE n == Leaf(<<e>>)
             h0 == [map |-> [x \in {} |-> v], marks |-> {}]
             h == Updated(h0, key, v)
             l == Put(l0, Len(first), h)
  <2>1. done = [pages |-> Append(first, Stored(n)), root |-> Len(first) + 1]
    BY <1>4 DEF Inserted
  <2>2. IsRecord(h0)
    BY DEF IsRecord
  <2>3. IsRecord(h)
    BY <2>2, RecordsAre
  <2>4. /\ DOMAIN h.map = {key} /\ h.map[key] = v /\ h.map = With(<<>>, key, v)
    <3>1. DOMAIN h0.map = {} /\ DOMAIN <<>> = {}
      OBVIOUS
    <3>2. h.map = With(h0.map, key, v)
      BY DEF Updated
    <3> HIDE DEF h0, h
    <3> QED BY <3>1, <3>2 DEF With
  <2> HIDE DEF h, h0, made
  <2>5. LeafHolds(first, Len(first) + 1, n, h)
    <3>1. n.kind = "leaf" /\ n.entries = <<e>> /\ e \in Entry
      BY <1>1 DEF Leaf, EntryHolds
    <3>2. n \in LeafPages /\ DOMAIN n.entries = 1..1 /\ n.entries[1] = e
      BY <3>1 DEF Leaf, LeafPages
    <3> HIDE DEF n, e
    <3>3. \A i \in 1..1 : i = 1
      OBVIOUS
    <3>4. 1 \in 1..1 /\ ~(1 < 1)
      OBVIOUS
    <3>5. EntryHolds(first, Len(first) + 1, e, v)
      BY <1>1 DEF e
    <3>6. e.key = key
      BY <1>2 DEF e
    <3> HIDE DEF first
    <3> QED BY <2>4, <3>2, <3>3, <3>4, <3>5, <3>6 DEF LeafHolds
  <2> HIDE DEF n
  <2>6. NodeHolds(first, Len(first) + 1, n, h, l0)
    BY <2>3, <2>5 DEF NodeHolds
  <2> HIDE DEF first
  <2>7. /\ FileHolds(Append(first, Stored(n)), l) /\ Extends(first, l0, Append(first, Stored(n)), l)
        /\ Len(Append(first, Stored(n))) = Len(first) + 1 /\ l[Len(first) + 1] = h
        /\ Append(first, Stored(n))[Len(first) + 1] = Stored(n) /\ Stored(n).kind # "overflow"
    BY <1>1, <2>6, StoresNode DEF first
  <2> HIDE DEF l
  <2>8. \A p \in (Len(first) + 1)..Len(done.pages) : done.pages[p].kind # "overflow"
    <3>1. \A p \in (Len(first) + 1)..(Len(first) + 1) : p = Len(first) + 1
      BY <1>3
    <3> HIDE DEF done
    <3> QED BY <2>1, <2>7, <3>1
  <2>9. IsRoot(done.pages, done.root) /\ l[done.root].map = With(map, key, v)
    <3>1. Len(first) + 1 \in 1..(Len(first) + 1)
      BY <1>3
    <3>2. map = <<>>
      BY <1>4
    <3> HIDE DEF done
    <3> QED BY <2>1, <2>4, <2>7, <3>1, <3>2 DEF IsRoot
  <2>10. /\ FileHolds(first, l0) /\ Extends(file, g, first, l0)
         /\ FileHolds(done.pages, l) /\ Extends(first, l0, done.pages, l)
    <3> HIDE DEF done
    <3> QED BY <1>1, <2>1, <2>7 DEF first
  <2> HIDE DEF done
  <2> QED BY <2>8, <2>9, <2>10 DEF Grows, done, first, made
<1>5. CASE id # InvalidPageID
  <2> DEFINE u == Updated(g[id], key, v)
  <2>0. IsRoot(file, id) /\ map = g[id].map
    BY <1>5
  <2>1. PICK l : Climbed(first, l0, key, v, g[id], top, l)
    <3> DEFINE t == top
    <3>1. t = InsertUp(file, Path(file, id, key), made)
      OBVIOUS
    <3> HIDE DEF made, t
    <3>2. \E l : Climbed(made.pages, l0, key, v, g[id], t, l)
      BY <1>1, <1>2, <2>0, <3>1, ClimbsUp
    <3> QED BY <3>2 DEF t
  <2> HIDE DEF top, made
  <2>2. /\ FileHolds(top.pages, l) /\ Extends(first, l0, top.pages, l)
        /\ Renewed(top.pages, Len(top.pages) + 1, u, top, l)
        /\ \A p \in (Len(first) + 1)..Len(top.pages) : top.pages[p].kind # "overflow"
    BY <2>1 DEF Climbed
  <2>3. top.pages \in Seq(Page) /\ Len(top.pages) \in Nat /\ (Len(top.pages) + 1) - 1 = Len(top.pages)
        /\ Len(first) <= Len(top.pages)
    BY <2>2 DEF FileHolds, Extends
  <2>4. u.map = With(map, key, v)
    BY <2>0 DEF Updated
  <2>5. IsRecord(u)
    <3>1. IsRecord(g[id])
      BY <2>0, KindsAre DEF IsRoot
    <3> QED BY <3>1, RecordsAre
  <2> HIDE DEF u
  <2>6. CASE top.right = InvalidPageID
    <3>1. done = [pages |-> top.pages, root |-> top.id]
      BY <1>5, <2>6 DEF Inserted, top, made
    <3>2. l[top.id] = u /\ top.id \in 1..Len(top.pages) /\ top.pages[top.id].kind # "overflow"
      <4>1. InvalidPageID \notin 1..((Len(top.pages) + 1) - 1)
        BY <2>3 DEF InvalidPageID
      <4> QED BY <2>2, <2>3, <2>6, <4>1 DEF Renewed
    <3> HIDE DEF done, first
    <3>3. /\ FileHolds(first, l0) /\ Extends(file, g, first, l0)
          /\ FileHolds(done.pages, l) /\ Extends(first, l0, done.pages, l)
          /\ \A p \in (Len(first) + 1)..Len(done.pages) : done.pages[p].kind # "overflow"
          /\ IsRoot(done.pages, done.root) /\ l[done.root].map = With(map, key, v)
      BY <1>1, <2>2, <2>4, <3>1, <3>2 DEF IsRoot, first
    <3> QED BY <3>3 DEF Grows, done, first, made
  <2>7. CASE top.right # InvalidPageID
    <3> DEFINE n == Internal(<<top.sep>>, <<top.id, top.right>>)
               M == Len(top.pages)
               last == Append(top.pages, Stored(n))
               l2 == Put(l, M, u)
    <3>1. done = [pages |-> last, root |-> M + 1]
      BY <1>5, <2>7 DEF Inserted, top, made
    <3>2. /\ top.id \in 1..((M + 1) - 1) /\ top.pages[top.id].kind # "overflow"
          /\ top.right \in 1..((M + 1) - 1) /\ top.pages[top.right].kind # "overflow"
          /\ top.sep \in u.marks /\ l[top.id] = Below(u, top.sep) /\ l[top.right] = Above(u, top.sep)
      BY <2>2, <2>7 DEF Renewed
    <3>3. InternalHolds(top.pages, M + 1, n, u, l)
      <4>1. M + 1 \in Nat
        BY <2>3
      <4> HIDE DEF M
      <4> QED BY <2>5, <3>2, <4>1, RootHolds
    <3> HIDE DEF n
    <3>4. NodeHolds(top.pages, M + 1, n, u, l)
      BY <2>5, <3>3 DEF NodeHolds
    <3>5. /\ FileHolds(last, l2) /\ Extends(top.pages, l, last, l2)
          /\ Len(last) = M + 1 /\ l2[M + 1] = u
          /\ last[M + 1] = Stored(n) /\ Stored(n).kind # "overflow"
      <4>1. FileHolds(top.pages, l) /\ NodeHolds(top.pages, Len(top.pages) + 1, n, u, l)
        BY <2>2, <3>4
      <4>2. /\ FileHolds(Append(top.pages, Stored(n)), Put(l, Len(top.pages), u))
            /\ Extends(top.pages, l, Append(top.pages, Stored(n)), Put(l, Len(top.pages), u))
            /\ Len(Append(top.pages, Stored(n))) = Len(top.pages) + 1
            /\ Put(l, Len(top.pages), u)[Len(top.pages) + 1] = u
            /\ Append(top.pages, Stored(n))[Len(top.pages) + 1] = Stored(n) /\ Stored(n).kind # "overflow"
        BY <4>1, StoresNode, SMTT(30)
      <4> QED BY <4>2
    <3> HIDE DEF last, l2, first
    <3>6. Extends(first, l0, last, l2)
      BY <1>3, <2>2, <3>5, ExtendsFurther DEF first
    <3>7. \A p \in (Len(first) + 1)..Len(last) : last[p].kind # "overflow"
      <4> TAKE p \in (Len(first) + 1)..Len(last)
      <4>1. Len(first) \in Nat /\ M \in Nat
        BY <1>3, <2>3 DEF first
      <4>2. CASE p <= M
        <5>1. p \in 1..M /\ p \in (Len(first) + 1)..M
          BY <3>5, <4>1, <4>2
        <5>2. last[p] = top.pages[p]
          BY <3>5, <5>1 DEF Extends
        <5> QED BY <2>2, <5>1, <5>2 DEF first
      <4>3. CASE ~(p <= M)
        <5>1. p = M + 1
          BY <3>5, <4>1, <4>3
        <5> QED BY <3>5, <5>1
      <4> QED BY <4>2, <4>3
    <3>8. M + 1 \in 1..(M + 1)
      BY <2>3
    <3> HIDE DEF done, M
    <3>9. /\ FileHolds(first, l0) /\ Extends(file, g, first, l0)
          /\ FileHolds(done.pages, l2) /\ Extends(first, l0, done.pages, l2)
          /\ \A p \in (Len(first) + 1)..Len(done.pages) : done.pages[p].kind # "overflow"
          /\ IsRoot(done.pages, done.root) /\ l2[done.root].map = With(map, key, v)
      BY <1>1, <2>4, <3>1, <3>5, <3>6, <3>7, <3>8 DEF IsRoot, first
    <3> QED BY <3>9 DEF Grows, done, first, made
  <2> QED BY <2>6, <2>7
<1> QED BY <1>4, <1>5

-----------------------------------------------------------------------------
(***************************************************************************)
(* Values read back                                                        *)
(***************************************************************************)

\* The pages readOverflow comes to.
Follows(file, head, f) ==
  f = [n \in 0..Len(file) |->
         IF n = 0 THEN head
         ELSE IF f[n - 1] = InvalidPageID THEN InvalidPageID
         ELSE file[f[n - 1]].next]

\* The chain of an entry of page p is that of the value v.
IsChain(file, p, e, v) ==
  /\ Chain(file, e.head) = [n \in 1..Parts(v) |-> e.head + n - 1]
  /\ \A n \in 1..Parts(v) :
       /\ e.head + n - 1 \in 1..(p - 1)
       /\ file[e.head + n - 1].kind = "overflow"
       /\ file[e.head + n - 1].chunk = <<v, n>>

\* The chain of a value's entry is the one it was given.
LEMMA ChainIs ==
  ASSUME NEW file \in Seq(Page), NEW p \in 1..Len(file), NEW e, NEW v,
         EntryHolds(file, p, e, v), e.head # InvalidPageID
  PROVE  IsChain(file, p, e, v)
<1> DEFINE N == Len(file)
           head == e.head
           P == Parts(v)
           want == [n \in 0..N |-> IF n < P THEN head + n ELSE InvalidPageID]
           at == CHOOSE f : Follows(file, head, f)
           End(n) == at[n] = InvalidPageID /\ \A m \in 0..(n - 1) : at[m] # InvalidPageID
           end == CHOOSE n \in 0..N : End(n)
<1>1. v \in Values /\ P \in Nat /\ P >= 1 /\ N \in Nat /\ p \in Nat /\ p <= N
  BY PartsAre DEF EntryHolds
<1>2. /\ head \in Nat /\ head >= 1 /\ head + P <= p
      /\ \A i \in 1..P : file[head + i - 1] = Overflow(v, head)[i]
  <2>1. head \in 1..(p - 1) /\ head + P <= p
        /\ \A i \in 1..P : file[head + i - 1] = Overflow(v, head)[i]
    BY DEF EntryHolds
  <2> QED BY <1>1, <2>1
<1>3. \A i \in 1..P : /\ file[head + i - 1].kind = "overflow"
                      /\ file[head + i - 1].chunk = <<v, i>>
                      /\ file[head + i - 1].next = IF i < P THEN head + i ELSE InvalidPageID
  <2> TAKE i \in 1..P
  <2>1. file[head + i - 1] = [kind |-> "overflow", chunk |-> <<v, i>>,
                              next |-> IF i < P THEN head + i ELSE InvalidPageID]
    BY <1>2 DEF Overflow
  <2> QED BY <2>1
<1>4. Chain(file, head) = [n \in 1..end |-> at[n - 1]]
  BY DEF Chain, Follows
<1> HIDE DEF head, P
<1>5. Follows(file, head, want)
  <2>1. ASSUME NEW n \in 0..N
        PROVE  want[n] = IF n = 0 THEN head
                         ELSE IF want[n - 1] = InvalidPageID THEN InvalidPageID
                         ELSE file[want[n - 1]].next
    <3>1. CASE n = 0
      <4>1. 0 < P /\ head + 0 = head /\ 0 \in 0..N
        BY <1>1, <1>2
      <4>2. want[0] = head
        BY <4>1
      <4> QED BY <3>1, <4>2
    <3>2. CASE n # 0
      <4>1. n - 1 \in 0..N /\ (n < P => n - 1 < P /\ n \in 1..P)
            /\ (n - 1 < P => n \in 1..P /\ head + n - 1 = head + (n - 1))
        BY <1>1, <1>2, <3>2
      <4>2. want[n - 1] = IF n - 1 < P THEN head + (n - 1) ELSE InvalidPageID
        BY <4>1
      <4>3. want[n] = IF n < P THEN head + n ELSE InvalidPageID
        OBVIOUS
      <4>4. n - 1 < P => head + (n - 1) # InvalidPageID
        BY <1>1, <1>2, <3>2 DEF InvalidPageID
      <4>5. n - 1 < P => file[head + (n - 1)].next = IF n < P THEN head + n ELSE InvalidPageID
        BY <1>3, <4>1
      <4> HIDE DEF want
      <4> QED BY <3>2, <4>1, <4>2, <4>3, <4>4, <4>5
    <3> QED BY <3>1, <3>2
  <2>2. want = [n \in 0..N |-> want[n]]
    OBVIOUS
  <2> HIDE DEF want
  <2> QED BY <2>1, <2>2 DEF Follows
<1>6. Follows(file, head, at)
  <2> HIDE DEF want
  <2> QED BY <1>5
<1>7. \A n \in 0..N : at[n] = want[n]
  <2> DEFINE Bad == {n \in 0..N : at[n] # want[n]}
  <2> SUFFICES ASSUME Bad # {} PROVE FALSE
    OBVIOUS
  <2> HIDE DEF at, want
  <2>1. PICK n \in Bad : \A y \in Bad : n <= y
    <3>1. Bad \subseteq Nat
      OBVIOUS
    <3> HIDE DEF Bad
    <3> QED BY <3>1, Least
  <2>2. n \in 0..N /\ at[n] # want[n]
    OBVIOUS
  <2>3. n # 0 => at[n - 1] = want[n - 1]
    <3>1. n # 0 => n - 1 \in 0..N /\ ~(n <= n - 1)
      BY <2>2
    <3>2. n # 0 => n - 1 \notin Bad
      <4> HIDE DEF Bad
      <4> QED BY <2>1, <3>1
    <3> QED BY <3>1, <3>2
  <2> HIDE DEF Bad
  <2>4. /\ at[n] = IF n = 0 THEN head
                   ELSE IF at[n - 1] = InvalidPageID THEN InvalidPageID ELSE file[at[n - 1]].next
        /\ want[n] = IF n = 0 THEN head
                     ELSE IF want[n - 1] = InvalidPageID THEN InvalidPageID
                     ELSE file[want[n - 1]].next
    BY <1>5, <1>6, <2>2 DEF Follows
  <2> QED BY <2>2, <2>3, <2>4
<1>8. \A n \in 0..N : at[n] = IF n < P THEN head + n ELSE InvalidPageID
  BY <1>7
<1> HIDE DEF at
<1>9. \A n \in 0..N : End(n) <=> n = P
  <2> TAKE n \in 0..N
  <2>1. P \in 0..N /\ ~(P < P)
    BY <1>1, <1>2
  <2>2. \A m \in 0..(P - 1) : m \in 0..N /\ m < P /\ head + m # InvalidPageID
    BY <1>1, <1>2 DEF InvalidPageID
  <2>3. End(P)
    BY <1>8, <2>1, <2>2
  <2>4. CASE n < P
    <3>1. head + n # InvalidPageID
      BY <1>1, <1>2 DEF InvalidPageID
    <3> QED BY <1>1, <1>8, <2>4, <3>1
  <2>5. CASE ~(n < P)
    <3>1. n # P => P \in 0..(n - 1)
      BY <1>1, <2>1, <2>5
    <3> QED BY <1>8, <2>1, <2>3, <3>1
  <2> QED BY <2>4, <2>5
<1>10. end = P
  <2>1. P \in 0..N
    BY <1>1, <1>2
  <2> HIDE DEF End
  <2> QED BY <1>9, <2>1
<1> HIDE DEF End, end
<1>11. Chain(file, head) = [n \in 1..P |-> head + n - 1]
  <2>1. \A n \in 1..P : at[n - 1] = head + n - 1
    <3> TAKE n \in 1..P
    <3>1. n - 1 \in 0..N /\ n - 1 < P /\ head + (n - 1) = head + n - 1
      BY <1>1, <1>2
    <3> QED BY <1>8, <3>1
  <2> QED BY <1>4, <1>10, <2>1
<1>12. \A n \in 1..P : head + n - 1 \in 1..(p - 1)
  BY <1>1, <1>2
<1> QED BY <1>3, <1>11, <1>12 DEF head, P, IsChain

\* An entry's value is read back, from its leaf or from its chain.
LEMMA ValueReadBack ==
  ASSUME NEW file \in Seq(Page), NEW p \in 1..Len(file), NEW e, NEW v,
         EntryHolds(file, p, e, v)
  PROVE  Materialize(file, e) = v
<1>1. CASE e.head = InvalidPageID
  <2>1. p \in Nat
    OBVIOUS
  <2>2. e.head \notin 1..(p - 1)
    BY <1>1, <2>1 DEF InvalidPageID
  <2> QED BY <1>1, <2>2 DEF EntryHolds, Materialize
<1>2. CASE e.head # InvalidPageID
  <2> DEFINE chain == Chain(file, e.head)
             P == Parts(v)
  <2>1. /\ chain = [n \in 1..P |-> e.head + n - 1]
        /\ \A n \in 1..P : file[e.head + n - 1].chunk = <<v, n>>
    <3>1. IsChain(file, p, e, v)
      BY <1>2, ChainIs
    <3> QED BY <3>1 DEF IsChain
  <2>2. P \in Nat /\ P >= 1
    BY PartsAre DEF EntryHolds
  <2> HIDE DEF P
  <2>3. DOMAIN chain = 1..P /\ \A n \in 1..P : file[chain[n]].chunk = <<v, n>>
    BY <2>1
  <2>4. 1 \in 1..P
    BY <2>2
  <2> HIDE DEF chain
  <2>5. file[chain[1]].chunk[1] = v
    BY <2>3, <2>4
  <2>6. [i \in DOMAIN chain |-> file[chain[i]].chunk] = [i \in 1..P |-> <<v, i>>]
    BY <2>3
  <2> QED BY <1>2, <2>5, <2>6 DEF Materialize, chain, P
<1> QED BY <1>1, <1>2

-----------------------------------------------------------------------------
(***************************************************************************)
(* Scans                                                                   *)
(***************************************************************************)
Pair == [key : TreeKeys, val : Values]

\* s has the given keys in order, each with its value of map.
Shows(s, map, keys) ==
  /\ s \in Seq(Pair)
  /\ \A i, j \in 1..Len(s) : i < j => Less(s[i].key, s[j].key)
  /\ \A i \in 1..Len(s) : s[i].key \in keys /\ s[i].val = map[s[i].key]
  /\ \A k \in keys : \E i \in 1..Len(s) : s[i].key = k

\* Nothing shows no keys.
LEMMA ShowsNothing ==
  ASSUME NEW map
  PROVE  Shows(<<>>, map, {})
<1>1. Len(<<>>) = 0 /\ <<>> \in Seq(Pair)
  OBVIOUS
<1> QED BY <1>1 DEF Shows

\* One pair shows its key.
LEMMA ShowsOne ==
  ASSUME NEW map, NEW k \in TreeKeys, NEW v \in Values, v = map[k]
  PROVE  Shows(<<[key |-> k, val |-> v]>>, map, {k})
<1> DEFINE x == [key |-> k, val |-> v]
<1>1. x \in Pair /\ x.key = k /\ x.val = v
  BY DEF Pair
<1> HIDE DEF x
<1>2. <<x>> \in Seq(Pair) /\ Len(<<x>>) = 1 /\ <<x>>[1] = x
  BY <1>1
<1>3. \A i \in 1..1 : i = 1
  OBVIOUS
<1>4. 1 \in 1..1 /\ ~(1 < 1)
  OBVIOUS
<1> QED BY <1>1, <1>2, <1>3, <1>4 DEF Shows, x

\* Two sequences, the second one behind.
LEMMA ShowsBoth ==
  ASSUME NEW map, NEW s, NEW t, NEW a, NEW b, Shows(s, map, a), Shows(t, map, b),
         \A k \in a, l \in b : Less(k, l)
  PROVE  Shows(s \o t, map, a \cup b)
<1> DEFINE N == Len(s)
           M == Len(t)
           u == s \o t
<1>1. s \in Seq(Pair) /\ t \in Seq(Pair) /\ N \in Nat /\ M \in Nat
  BY DEF Shows
<1>2. /\ u \in Seq(Pair) /\ Len(u) = N + M
      /\ \A i \in 1..N : u[i] = s[i]
      /\ \A i \in 1..M : u[N + i] = t[i]
  BY <1>1, Joins
<1>3. /\ \A i, j \in 1..N : i < j => Less(s[i].key, s[j].key)
      /\ \A i \in 1..N : s[i].key \in a /\ s[i].val = map[s[i].key]
      /\ \A k \in a : \E i \in 1..N : s[i].key = k
      /\ \A i, j \in 1..M : i < j => Less(t[i].key, t[j].key)
      /\ \A i \in 1..M : t[i].key \in b /\ t[i].val = map[t[i].key]
      /\ \A k \in b : \E i \in 1..M : t[i].key = k
  BY DEF Shows
<1> HIDE DEF u, N, M
<1>4. ASSUME NEW i \in 1..(N + M), ~(i <= N)
      PROVE  i - N \in 1..M /\ N + (i - N) = i /\ u[i] = t[i - N]
  <2>1. i - N \in 1..M /\ N + (i - N) = i
    BY <1>1, <1>4
  <2> QED BY <1>2, <2>1
<1>5. ASSUME NEW i \in 1..(N + M), NEW j \in 1..(N + M), i < j
      PROVE  Less(u[i].key, u[j].key)
  <2>1. CASE j <= N
    <3>1. i \in 1..N /\ j \in 1..N
      BY <1>1, <1>5, <2>1
    <3> QED BY <1>2, <1>3, <1>5, <3>1
  <2>2. CASE i <= N /\ ~(j <= N)
    <3>1. i \in 1..N
      BY <1>1, <2>2
    <3>2. u[i].key \in a /\ u[j].key \in b
      BY <1>2, <1>3, <1>4, <2>2, <3>1
    <3> QED BY <3>2
  <2>3. CASE ~(i <= N)
    <3>1. ~(j <= N) /\ i - N < j - N
      BY <1>1, <1>5, <2>3
    <3> QED BY <1>3, <1>4, <2>3, <3>1
  <2> QED BY <2>1, <2>2, <2>3
<1>6. ASSUME NEW i \in 1..(N + M)
      PROVE  u[i].key \in a \cup b /\ u[i].val = map[u[i].key]
  <2>1. CASE i <= N
    <3>1. i \in 1..N
      BY <1>1, <2>1
    <3> QED BY <1>2, <1>3, <3>1
  <2>2. CASE ~(i <= N)
    BY <1>3, <1>4, <2>2
  <2> QED BY <2>1, <2>2
<1>7. ASSUME NEW k \in a \cup b PROVE \E i \in 1..(N + M) : u[i].key = k
  <2>1. CASE k \in a
    <3>1. PICK i \in 1..N : s[i].key = k
      BY <1>3, <2>1
    <3>2. i \in 1..(N + M)
      BY <1>1
    <3> QED BY <1>2, <3>1, <3>2
  <2>2. CASE k \in b
    <3>1. PICK i \in 1..M : t[i].key = k
      BY <1>3, <2>2
    <3>2. N + i \in 1..(N + M)
      BY <1>1
    <3> QED BY <1>2, <3>1, <3>2
  <2> QED BY <2>1, <2>2
<1> QED BY <1>2, <1>5, <1>6, <1>7 DEF Shows, u

\* What is joined of the first sequences.
Flattens(seqs, f) ==
  /\ f[1] = seqs[1]
  /\ \A n \in 2..Len(seqs) : f[n] = f[n - 1] \o seqs[n]

\* Sequences are joined from the first one on.
LEMMA FlattenOf ==
  ASSUME NEW seqs, Len(seqs) \in Nat, Len(seqs) >= 1
  PROVE  \E f : Flattens(seqs, f) /\ FlattenSeq(seqs) = f[Len(seqs)]
<1> DEFINE Step(x, n) == x \o seqs[n]
           Rec(f, k) == [n \in 1..k |-> IF n = 1 THEN seqs[n] ELSE Step(f[n - 1], n)]
           Bad == {k \in 1..Len(seqs) : ~\E f : f = Rec(f, k)}
           all == CHOOSE f : f = Rec(f, Len(seqs))
<1>0. Len(seqs) \in Nat /\ Len(seqs) >= 1
  OBVIOUS
<1>1. FlattenSeq(seqs) = all[Len(seqs)]
  BY DEF FlattenSeq
<1> HIDE DEF Step
<1>2. Bad = {}
  <2> SUFFICES ASSUME Bad # {} PROVE FALSE
    OBVIOUS
  <2>1. PICK k \in Bad : \A y \in Bad : k <= y
    <3>1. Bad \subseteq Nat
      OBVIOUS
    <3> HIDE DEF Bad
    <3> QED BY <3>1, Least
  <2>2. k \in 1..Len(seqs) /\ ~\E f : f = Rec(f, k)
    OBVIOUS
  <2>3. CASE k = 1
    <3> DEFINE f == [n \in 1..1 |-> seqs[n]]
    <3>1. f = Rec(f, 1)
      OBVIOUS
    <3> QED BY <2>2, <2>3, <3>1
  <2>4. CASE k # 1
    <3>1. k - 1 \in 1..Len(seqs) /\ ~(k <= k - 1)
      BY <1>0, <2>2, <2>4
    <3>2. PICK f : f = Rec(f, k - 1)
      <4>1. k - 1 \notin Bad
        <5> HIDE DEF Bad
        <5> QED BY <2>1, <3>1
      <4> QED BY <3>1, <4>1
    <3> DEFINE g == [n \in 1..k |-> IF n = k THEN Step(f[k - 1], k) ELSE f[n]]
    <3>3. ASSUME NEW n \in 1..k
          PROVE  g[n] = IF n = 1 THEN seqs[n] ELSE Step(g[n - 1], n)
      <4>1. n = k \/ n \in 1..(k - 1)
        BY <2>2
      <4>2. n # 1 => n - 1 \in 1..(k - 1) /\ n - 1 \in 1..k /\ n - 1 # k
        BY <2>2
      <4>3. n # 1 => g[n - 1] = f[n - 1]
        BY <4>2
      <4>4. n \in 1..(k - 1) => f[n] = IF n = 1 THEN seqs[n] ELSE Step(f[n - 1], n)
        BY <3>2
      <4>5. g[n] = IF n = k THEN Step(f[k - 1], k) ELSE f[n]
        OBVIOUS
      <4> HIDE DEF g
      <4> QED BY <2>4, <4>1, <4>3, <4>4, <4>5
    <3>4. g = Rec(g, k)
      BY <3>3
    <3> HIDE DEF g
    <3> QED BY <2>2, <3>4
  <2> QED BY <2>3, <2>4
<1>3. \E f : f = Rec(f, Len(seqs))
  BY <1>0, <1>2
<1>4. all = Rec(all, Len(seqs))
  <2> HIDE DEF Rec
  <2> QED BY <1>3
<1>5. all[1] = seqs[1]
  <2> HIDE DEF all
  <2> QED BY <1>0, <1>4
<1>6. ASSUME NEW n \in 2..Len(seqs) PROVE all[n] = Step(all[n - 1], n)
  <2>1. n \in 1..Len(seqs) /\ n # 1
    BY <1>0
  <2> HIDE DEF all
  <2> QED BY <1>4, <2>1
<1> HIDE DEF all
<1>7. QED BY <1>1, <1>5, <1>6 DEF Step, Flattens

\* Sequences show each its part, one behind the other.
InTurn(seqs, map, part) ==
  /\ seqs \in Seq(Seq(Pair))
  /\ \A i \in 1..Len(seqs) : Shows(seqs[i], map, part[i])
  /\ \A i, j \in 1..Len(seqs) : i < j => \A k \in part[i], l \in part[j] : Less(k, l)

\* Joined, they show all of them.
LEMMA FlattenShows ==
  ASSUME NEW map, NEW seqs, NEW part, InTurn(seqs, map, part)
  PROVE  Shows(FlattenSeq(seqs), map, UNION {part[i] : i \in 1..Len(seqs)})
<1> DEFINE N == Len(seqs)
           Upto(n) == UNION {part[i] : i \in 1..n}
<1>0. /\ seqs \in Seq(Seq(Pair))
      /\ \A i \in 1..N : Shows(seqs[i], map, part[i])
      /\ \A i, j \in 1..N : i < j => \A k \in part[i], l \in part[j] : Less(k, l)
  BY DEF InTurn
<1>1. N \in Nat
  BY <1>0
<1>2. CASE N = 0
  <2>1. seqs = <<>> /\ FlattenSeq(seqs) = <<>>
    BY <1>0, <1>2 DEF FlattenSeq
  <2>2. Upto(N) = {}
    BY <1>2
  <2> QED BY <2>1, <2>2, ShowsNothing
<1>3. CASE N # 0
  <2>1. Len(seqs) \in Nat /\ Len(seqs) >= 1
    BY <1>1, <1>3
  <2>2. PICK f : Flattens(seqs, f) /\ FlattenSeq(seqs) = f[Len(seqs)]
    BY <2>1, FlattenOf
  <2>3. f[1] = seqs[1] /\ \A n \in 2..N : f[n] = f[n - 1] \o seqs[n]
    BY <2>2 DEF Flattens
  <2> DEFINE Bad == {n \in 1..N : ~Shows(f[n], map, Upto(n))}
  <2>4. Bad = {}
    <3> SUFFICES ASSUME Bad # {} PROVE FALSE
      OBVIOUS
    <3>1. PICK n \in Bad : \A y \in Bad : n <= y
      <4>1. Bad \subseteq Nat
        OBVIOUS
      <4> HIDE DEF Bad
      <4> QED BY <4>1, Least
    <3>2. n \in 1..N /\ ~Shows(f[n], map, Upto(n))
      OBVIOUS
    <3>3. CASE n = 1
      <4>1. 1 \in 1..N /\ 1..1 = {1}
        BY <2>1
      <4>2. Upto(1) = part[1]
        BY <4>1
      <4> HIDE DEF Upto
      <4> QED BY <1>0, <2>3, <3>2, <3>3, <4>1, <4>2
    <3>4. CASE n # 1
      <4>1. n - 1 \in 1..N /\ n \in 2..N /\ ~(n <= n - 1) /\ 1..n = 1..(n - 1) \cup {n}
            /\ \A i \in 1..(n - 1) : i \in 1..N /\ i < n
        BY <2>1, <3>2, <3>4
      <4>2. Shows(f[n - 1], map, Upto(n - 1))
        <5>1. n - 1 \notin Bad
          <6> HIDE DEF Bad
          <6> QED BY <3>1, <4>1
        <5> QED BY <4>1, <5>1
      <4>3. \A k \in Upto(n - 1), l \in part[n] : Less(k, l)
        BY <1>0, <3>2, <4>1
      <4>4. Upto(n) = Upto(n - 1) \cup part[n]
        BY <4>1
      <4> HIDE DEF Upto
      <4>5. Shows(seqs[n], map, part[n]) /\ f[n] = f[n - 1] \o seqs[n]
        BY <1>0, <2>3, <3>2, <4>1
      <4>6. Shows(f[n - 1] \o seqs[n], map, Upto(n - 1) \cup part[n])
        BY <4>2, <4>3, <4>5, ShowsBoth
      <4> QED BY <3>2, <4>4, <4>5, <4>6
    <3> QED BY <3>3, <3>4
  <2>5. N \in 1..N
    BY <2>1
  <2>6. Shows(f[N], map, Upto(N))
    BY <2>4, <2>5
  <2> QED BY <2>2, <2>6
<1> QED BY <1>2, <1>3

\* f gives what a walk yields from each page.
Walks(file, lo, hi, f) ==
  \A p \in 1..Len(file) : f[p] = (LET n == file[p]
     IN  IF n.kind = "internal"
         THEN FlattenSeq([i \in DOMAIN n.children |->
                IF Meets(n, i, lo, hi) THEN f[n.children[i]] ELSE <<>>])
         ELSE IF n.kind = "leaf" THEN Hits(file, n, lo, hi) ELSE <<>>)

\* What a walk yields is that of its children, in order.
LEMMA WalkOf ==
  ASSUME NEW file, NEW g, FileHolds(file, g), NEW lo, NEW hi, NEW id
  PROVE  \E f : Walks(file, lo, hi, f) /\ Walk(file, id, lo, hi) = f[id]
<1> DEFINE N == Len(file)
           Body(f, p) == (LET n == file[p]
     IN  IF n.kind = "internal"
         THEN FlattenSeq([i \in DOMAIN n.children |->
                IF Meets(n, i, lo, hi) THEN f[n.children[i]] ELSE <<>>])
         ELSE IF n.kind = "leaf" THEN Hits(file, n, lo, hi) ELSE <<>>)
           Rec(f, k) == f = [p \in 1..k |-> Body(f, p)]
           Bad == {k \in 0..N : ~\E f : Rec(f, k)}
           all == CHOOSE f : Rec(f, N)
<1>0. N \in Nat /\ file \in Seq(Page) /\ DOMAIN file = 1..N
  BY DEF FileHolds
<1>1. Walk(file, id, lo, hi) = all[id]
  BY <1>0 DEF Walk
<1>2. ASSUME NEW p \in 1..N, NEW f, NEW e, \A q \in 1..(p - 1) : f[q] = e[q]
      PROVE  Body(f, p) = Body(e, p)
  <2> DEFINE n == file[p]
  <2>1. CASE n.kind = "leaf"
    <3> QED BY <2>1
  <2>2. CASE n.kind = "internal"
    <3>1. \A i \in DOMAIN n.children : n.children[i] \in 1..(p - 1)
      BY <2>2, KindsAre
    <3> DEFINE S(c) == [i \in DOMAIN n.children |->
                          IF Meets(n, i, lo, hi) THEN c[n.children[i]] ELSE <<>>]
    <3>2. S(f) = S(e)
      BY <1>2, <3>1
    <3>3. Body(f, p) = FlattenSeq(S(f)) /\ Body(e, p) = FlattenSeq(S(e))
      BY <2>2
    <3> HIDE DEF S, Body
    <3> QED BY <3>2, <3>3
  <2>3. CASE n.kind \notin {"leaf", "internal"}
    BY <2>3
  <2> QED BY <2>1, <2>2, <2>3
<1> HIDE DEF Body, N
<1>3. Bad = {}
  <2> SUFFICES ASSUME Bad # {} PROVE FALSE
    OBVIOUS
  <2>1. PICK k \in Bad : \A y \in Bad : k <= y
    <3>1. Bad \subseteq Nat
      OBVIOUS
    <3> HIDE DEF Bad
    <3> QED BY <3>1, Least
  <2>2. k \in 0..N /\ ~\E f : Rec(f, k)
    OBVIOUS
  <2>3. CASE k = 0
    <3> DEFINE f == [p \in 1..0 |-> p]
    <3>1. Rec(f, 0)
      OBVIOUS
    <3> QED BY <2>2, <2>3, <3>1
  <2>4. CASE k # 0
    <3>1. k - 1 \in 0..N /\ ~(k <= k - 1)
      BY <1>0, <2>2, <2>4
    <3>2. PICK f : Rec(f, k - 1)
      <4>1. k - 1 \notin Bad
        <5> HIDE DEF Bad
        <5> QED BY <2>1, <3>1
      <4> QED BY <3>1, <4>1
    <3> DEFINE e == [p \in 1..k |-> IF p = k THEN Body(f, k) ELSE f[p]]
    <3>3. ASSUME NEW p \in 1..k PROVE e[p] = Body(e, p)
      <4>1. p = k \/ p \in 1..(k - 1)
        BY <2>2
      <4>2. \A q \in 1..(p - 1) : q \in 1..k /\ q # k
        BY <2>2
      <4>3. \A q \in 1..(p - 1) : f[q] = e[q]
        BY <4>2
      <4>4. e[p] = IF p = k THEN Body(f, k) ELSE f[p]
        OBVIOUS
      <4>5. p \in 1..(k - 1) => f[p] = Body(f, p) /\ p # k
        BY <2>2, <3>2
      <4>6. p \in 1..N
        BY <1>0, <2>2
      <4> HIDE DEF e
      <4>7. Body(f, p) = Body(e, p)
        BY <1>2, <4>3, <4>6
      <4> QED BY <4>1, <4>4, <4>5, <4>7
    <3>4. Rec(e, k)
      <4>1. e = [p \in 1..k |-> e[p]]
        OBVIOUS
      <4> HIDE DEF e
      <4> QED BY <3>3, <4>1
    <3> HIDE DEF e
    <3> QED BY <2>2, <3>4
  <2> QED BY <2>3, <2>4
<1>4. \E f : Rec(f, N)
  BY <1>0, <1>3
<1>5. Rec(all, N)
  <2> HIDE DEF Rec
  <2> QED BY <1>4
<1>6. \A p \in 1..N : all[p] = Body(all, p)
  <2> HIDE DEF all
  <2> QED BY <1>5
<1> HIDE DEF all
<1>7. Walks(file, lo, hi, all)
  BY <1>6 DEF Walks, N, Body
<1> QED BY <1>1, <1>7

\* f gives the nodes that each page reaches.
Reaches(file, f) ==
  \A p \in 1..Len(file) : f[p] = ({p} \cup (IF file[p].kind = "internal"
     THEN UNION {f[c] : c \in ToSet(file[p].children)} ELSE {}))

\* The nodes of a page are its own and those of its children.
LEMMA NodesOf ==
  ASSUME NEW file, NEW g, FileHolds(file, g), NEW id
  PROVE  \E f : Reaches(file, f) /\ Nodes(file, id) = f[id]
<1> DEFINE N == Len(file)
           Body(f, p) == ({p} \cup (IF file[p].kind = "internal"
     THEN UNION {f[c] : c \in ToSet(file[p].children)} ELSE {}))
           Rec(f, k) == f = [p \in 1..k |-> Body(f, p)]
           Bad == {k \in 0..N : ~\E f : Rec(f, k)}
           all == CHOOSE f : Rec(f, N)
<1>0. N \in Nat /\ file \in Seq(Page) /\ DOMAIN file = 1..N
  BY DEF FileHolds
<1>1. Nodes(file, id) = all[id]
  BY <1>0 DEF Nodes
<1>2. ASSUME NEW p \in 1..N, NEW f, NEW e, \A q \in 1..(p - 1) : f[q] = e[q]
      PROVE  Body(f, p) = Body(e, p)
  <2>1. CASE file[p].kind = "internal"
    <3>1. DOMAIN file[p].children = 1..Len(file[p].children)
          /\ \A i \in 1..Len(file[p].children) : file[p].children[i] \in 1..(p - 1)
      BY <2>1, KindsAre
    <3>2. \A c \in ToSet(file[p].children) : c \in 1..(p - 1)
      BY <3>1 DEF ToSet
    <3>3. \A c \in ToSet(file[p].children) : f[c] = e[c]
      BY <1>2, <3>2
    <3>4. {f[c] : c \in ToSet(file[p].children)} = {e[c] : c \in ToSet(file[p].children)}
      BY <3>3
    <3> QED BY <2>1, <3>4
  <2>2. CASE file[p].kind # "internal"
    BY <2>2
  <2> QED BY <2>1, <2>2
<1> HIDE DEF Body, N
<1>3. Bad = {}
  <2> SUFFICES ASSUME Bad # {} PROVE FALSE
    OBVIOUS
  <2>1. PICK k \in Bad : \A y \in Bad : k <= y
    <3>1. Bad \subseteq Nat
      OBVIOUS
    <3> HIDE DEF Bad
    <3> QED BY <3>1, Least
  <2>2. k \in 0..N /\ ~\E f : Rec(f, k)
    OBVIOUS
  <2>3. CASE k = 0
    <3> DEFINE f == [p \in 1..0 |-> p]
    <3>1. Rec(f, 0)
      OBVIOUS
    <3> QED BY <2>2, <2>3, <3>1
  <2>4. CASE k # 0
    <3>1. k - 1 \in 0..N /\ ~(k <= k - 1)
      BY <1>0, <2>2, <2>4
    <3>2. PICK f : Rec(f, k - 1)
      <4>1. k - 1 \notin Bad
        <5> HIDE DEF Bad
        <5> QED BY <2>1, <3>1
      <4> QED BY <3>1, <4>1
    <3> DEFINE e == [p \in 1..k |-> IF p = k THEN Body(f, k) ELSE f[p]]
    <3>3. ASSUME NEW p \in 1..k PROVE e[p] = Body(e, p)
      <4>1. p = k \/ p \in 1..(k - 1)
        BY <2>2
      <4>2. \A q \in 1..(p - 1) : q \in 1..k /\ q # k
        BY <2>2
      <4>3. \A q \in 1..(p - 1) : f[q] = e[q]
        BY <4>2
      <4>4. e[p] = IF p = k THEN Body(f, k) ELSE f[p]
        OBVIOUS
      <4>5. p \in 1..(k - 1) => f[p] = Body(f, p) /\ p # k
        BY <2>2, <3>2
      <4>6. p \in 1..N
        BY <1>0, <2>2
      <4> HIDE DEF e
      <4>7. Body(f, p) = Body(e, p)
        BY <1>2, <4>3, <4>6
      <4> QED BY <4>1, <4>4, <4>5, <4>7
    <3>4. Rec(e, k)
      <4>1. e = [p \in 1..k |-> e[p]]
        OBVIOUS
      <4> HIDE DEF e
      <4> QED BY <3>3, <4>1
    <3> HIDE DEF e
    <3> QED BY <2>2, <3>4
  <2> QED BY <2>3, <2>4
<1>4. \E f : Rec(f, N)
  BY <1>0, <1>3
<1>5. Rec(all, N)
  <2> HIDE DEF Rec
  <2> QED BY <1>4
<1>6. \A p \in 1..N : all[p] = Body(all, p)
  <2> HIDE DEF all
  <2> QED BY <1>5
<1> HIDE DEF all
<1>7. Reaches(file, all)
  BY <1>6 DEF Reaches, N, Body
<1> QED BY <1>1, <1>7

InBounds(map, lo, hi) == {k \in DOMAIN map : Within(k, lo, hi)}

\* A leaf yields its pairs within the bounds.
LEMMA HitsShow ==
  ASSUME NEW file \in Seq(Page), NEW p \in 1..Len(file), NEW n, NEW h,
         LeafHolds(file, p, n, h), IsRecord(h), NEW lo, NEW hi
  PROVE  Shows(Hits(file, n, lo, hi), h.map, InBounds(h.map, lo, hi))
<1> DEFINE N == Len(n.entries)
           piece(e) == IF Within(e.key, lo, hi)
                       THEN <<[key |-> e.key, val |-> Materialize(file, e)]>>
                       ELSE <<>>
           seqs == [i \in DOMAIN n.entries |-> piece(n.entries[i])]
           part == [i \in 1..N |-> IF Within(n.entries[i].key, lo, hi)
                                   THEN {n.entries[i].key} ELSE {}]
<1>0. n.entries \in Seq(Entry)
  BY DEF LeafHolds, LeafPages
<1>1. /\ N \in Nat /\ DOMAIN n.entries = 1..N
      /\ \A i \in 1..N : /\ n.entries[i].key \in TreeKeys /\ n.entries[i].key \in DOMAIN h.map
                         /\ EntryHolds(file, p, n.entries[i], h.map[n.entries[i].key])
      /\ \A i, j \in 1..N : i < j => Less(n.entries[i].key, n.entries[j].key)
      /\ \A k \in DOMAIN h.map : \E i \in 1..N : n.entries[i].key = k
  <2>1. N \in Nat /\ DOMAIN n.entries = 1..N
    BY <1>0
  <2> QED BY <2>1 DEF LeafHolds, IsRecord
<1>2. Hits(file, n, lo, hi) = FlattenSeq(seqs)
  BY DEF Hits
<1> HIDE DEF N
<1>3. ASSUME NEW i \in 1..N
      PROVE  piece(n.entries[i]) \in Seq(Pair) /\ Shows(piece(n.entries[i]), h.map, part[i])
  <2> DEFINE e == n.entries[i]
             k == e.key
             v == h.map[k]
  <2>1. k \in TreeKeys /\ k \in DOMAIN h.map /\ v \in Values /\ EntryHolds(file, p, e, v)
    BY <1>1 DEF EntryHolds
  <2>2. Materialize(file, e) = v
    BY <2>1, ValueReadBack
  <2> HIDE DEF v
  <2>3. Shows(<<[key |-> k, val |-> v]>>, h.map, {k})
    BY <2>1, ShowsOne DEF v
  <2>4. Shows(<<>>, h.map, {})
    BY ShowsNothing
  <2>5. /\ piece(e) = IF Within(k, lo, hi) THEN <<[key |-> k, val |-> v]>> ELSE <<>>
        /\ part[i] = IF Within(k, lo, hi) THEN {k} ELSE {}
    BY <2>2
  <2> HIDE DEF piece, part, k
  <2>6. Shows(piece(e), h.map, part[i])
    BY <2>3, <2>4, <2>5
  <2>7. piece(e) \in Seq(Pair)
    BY <2>6 DEF Shows
  <2> HIDE DEF e
  <2> QED BY <2>6, <2>7 DEF e
<1>4. seqs \in Seq(Seq(Pair)) /\ Len(seqs) = N /\ \A i \in 1..N : seqs[i] = piece(n.entries[i])
  <2>1. seqs = [i \in 1..N |-> piece(n.entries[i])] /\ N \in Nat
    BY <1>1
  <2> HIDE DEF piece
  <2>2. \A i \in 1..N : piece(n.entries[i]) \in Seq(Pair)
    BY <1>3
  <2> DEFINE s == [i \in 1..N |-> piece(n.entries[i])]
  <2>3. s \in [1..N -> Seq(Pair)]
    BY <2>2
  <2>4. s \in Seq(Seq(Pair)) /\ Len(s) = N
    BY <2>1, <2>3
  <2> QED BY <2>1, <2>4
<1>5. \A i, j \in 1..N : i < j => \A k \in part[i], l \in part[j] : Less(k, l)
  BY <1>1
<1>6. InBounds(h.map, lo, hi) = UNION {part[i] : i \in 1..N}
  <2>1. ASSUME NEW k \in InBounds(h.map, lo, hi) PROVE \E i \in 1..N : k \in part[i]
    <3>1. PICK i \in 1..N : n.entries[i].key = k
      BY <1>1 DEF InBounds
    <3> QED BY <3>1 DEF InBounds
  <2>2. ASSUME NEW i \in 1..N, NEW k \in part[i] PROVE k \in InBounds(h.map, lo, hi)
    BY <1>1 DEF InBounds
  <2> HIDE DEF part
  <2> QED BY <2>1, <2>2
<1> HIDE DEF piece, seqs, part
<1>7. InTurn(seqs, h.map, part)
  BY <1>3, <1>4, <1>5 DEF InTurn
<1>8. Shows(FlattenSeq(seqs), h.map, UNION {part[i] : i \in 1..Len(seqs)})
  BY <1>7, FlattenShows
<1> QED BY <1>2, <1>4, <1>6, <1>8

\* A child that a scan leaves out has no key within its bounds.
LEMMA MeetsWhatIsWithin ==
  ASSUME NEW file, NEW p, NEW n, NEW h, NEW g, InternalHolds(file, p, n, h, g), IsRecord(h),
         NEW i \in 1..Len(n.children), NEW lo \in Bytes, NEW hi \in Bytes,
         ~Meets(n, i, lo, hi), NEW k \in TreeKeys, Belongs(n, i, k)
  PROVE  ~Within(k, lo, hi)
<1>1. /\ Len(n.keys) \in Nat /\ Len(n.children) = Len(n.keys) + 1
      /\ DOMAIN n.keys = 1..Len(n.keys)
      /\ \A j \in 1..Len(n.keys) : n.keys[j] \in TreeKeys
  BY InternalIs
<1>2. k \in Bytes /\ \A j \in 1..Len(n.keys) : n.keys[j] \in Bytes
  BY <1>1, TreeKeysAre
<1>3. CASE i <= Len(n.keys) /\ lo # <<>> /\ ~Less(lo, n.keys[i])
  <2>1. i \in 1..Len(n.keys) /\ ~(i < i)
    BY <1>1, <1>3
  <2>2. Less(k, n.keys[i])
    BY <1>1, <2>1 DEF Belongs
  <2>3. Less(k, lo)
    BY <1>2, <1>3, <2>1, <2>2, LessOrders
  <2> QED BY <2>3 DEF Within
<1>4. CASE i > 1 /\ hi # <<>> /\ ~Less(n.keys[i - 1], hi)
  <2>1. i - 1 \in 1..Len(n.keys) /\ i - 1 < i
    BY <1>1, <1>4
  <2>2. ~Less(k, n.keys[i - 1])
    BY <1>1, <2>1 DEF Belongs
  <2>3. ~Less(k, hi)
    BY <1>2, <1>4, <2>1, <2>2, LessOrders
  <2> QED BY <1>4, <2>3 DEF Within
<1> QED BY <1>3, <1>4 DEF Meets

\* The children of a node, in turn.
LEMMA ChildrenInTurn ==
  ASSUME NEW file, NEW p, NEW n, NEW h, NEW g, InternalHolds(file, p, n, h, g), IsRecord(h),
         NEW lo \in Bytes, NEW hi \in Bytes, NEW f,
         \A i \in 1..Len(n.children) :
           Shows(f[n.children[i]], g[n.children[i]].map, InBounds(g[n.children[i]].map, lo, hi))
  PROVE  Shows(FlattenSeq([i \in DOMAIN n.children |->
                 IF Meets(n, i, lo, hi) THEN f[n.children[i]] ELSE <<>>]),
               h.map, InBounds(h.map, lo, hi))
<1> DEFINE N == Len(n.children)
           piece(i) == IF Meets(n, i, lo, hi) THEN f[n.children[i]] ELSE <<>>
           seqs == [i \in DOMAIN n.children |-> piece(i)]
           map(i) == g[n.children[i]].map
           part == [i \in 1..N |-> InBounds(map(i), lo, hi)]
<1>1. /\ N \in Nat /\ N = Len(n.keys) + 1 /\ Len(n.keys) \in Nat
      /\ DOMAIN n.keys = 1..Len(n.keys) /\ DOMAIN n.children = 1..N
      /\ \A i \in 1..Len(n.keys) : n.keys[i] \in TreeKeys
      /\ \A k \in DOMAIN h.map : \E i \in 1..N : k \in DOMAIN map(i)
  BY InternalIs
<1>2. \A i \in 1..N : \A k \in DOMAIN map(i) :
        Belongs(n, i, k) /\ k \in DOMAIN h.map /\ h.map[k] = map(i)[k] /\ k \in TreeKeys
  BY InternalIs DEF ChildHolds, IsRecord
<1>3. ASSUME NEW i \in 1..N
      PROVE  Shows(piece(i), h.map, part[i])
  <2>1. Shows(f[n.children[i]], map(i), part[i])
    OBVIOUS
  <2>2. \A k \in part[i] : k \in DOMAIN map(i) /\ Within(k, lo, hi)
    BY DEF InBounds
  <2>3. ~Meets(n, i, lo, hi) => part[i] = {}
    BY <1>2, <2>2, MeetsWhatIsWithin
  <2> DEFINE s == f[n.children[i]]
             m == map(i)
             q == part[i]
  <2>4. \A k \in q : h.map[k] = m[k]
    BY <1>2, <2>2
  <2>5. Shows(s, m, q)
    BY <2>1
  <2>6. piece(i) = IF Meets(n, i, lo, hi) THEN s ELSE <<>>
    OBVIOUS
  <2> HIDE DEF s, m, q, piece, part, map
  <2>7. Shows(s, h.map, q)
    BY <2>4, <2>5 DEF Shows
  <2>8. Shows(<<>>, h.map, {})
    BY ShowsNothing
  <2> QED BY <2>3, <2>6, <2>7, <2>8 DEF q
<1>4. seqs \in Seq(Seq(Pair)) /\ Len(seqs) = N /\ \A i \in 1..N : seqs[i] = piece(i)
  <2>1. \A i \in 1..N : piece(i) \in Seq(Pair)
    <3> HIDE DEF piece
    <3> QED BY <1>3 DEF Shows
  <2> DEFINE s == [i \in 1..N |-> piece(i)]
  <2>2. seqs = s /\ N \in Nat
    BY <1>1
  <2> HIDE DEF piece, seqs, N
  <2>3. s \in [1..N -> Seq(Pair)]
    BY <2>1
  <2>4. s \in Seq(Seq(Pair)) /\ Len(s) = N
    BY <2>2, <2>3
  <2> QED BY <2>2, <2>4
<1>5. ASSUME NEW i \in 1..N, NEW j \in 1..N, i < j, NEW k \in part[i], NEW l \in part[j]
      PROVE  Less(k, l)
  <2>1. k \in DOMAIN map(i) /\ l \in DOMAIN map(j)
    BY DEF InBounds
  <2>2. i \in 1..Len(n.keys) /\ ~(i < i)
    BY <1>1, <1>5
  <2>3. Less(k, n.keys[i]) /\ ~Less(l, n.keys[i]) /\ k \in TreeKeys /\ l \in TreeKeys
    BY <1>1, <1>2, <1>5, <2>1, <2>2 DEF Belongs
  <2> QED BY <1>1, <2>2, <2>3, KeyOrder
<1>6. InBounds(h.map, lo, hi) = UNION {part[i] : i \in 1..N}
  <2>1. ASSUME NEW k \in InBounds(h.map, lo, hi) PROVE \E i \in 1..N : k \in part[i]
    BY <1>1 DEF InBounds
  <2>2. ASSUME NEW i \in 1..N, NEW k \in part[i] PROVE k \in InBounds(h.map, lo, hi)
    BY <1>2 DEF InBounds
  <2> HIDE DEF part
  <2> QED BY <2>1, <2>2
<1> HIDE DEF piece, seqs, part, map, N
<1>7. InTurn(seqs, h.map, part)
  BY <1>3, <1>4, <1>5 DEF InTurn
<1>8. Shows(FlattenSeq(seqs), h.map, UNION {part[i] : i \in 1..Len(seqs)})
  BY <1>7, FlattenShows
<1> QED BY <1>4, <1>6, <1>8 DEF seqs, piece

\* A walk through a tree without a damaged page yields what its record has
\* within the bounds.
LEMMA WalkShows ==
  ASSUME NEW file, NEW g, FileHolds(file, g), NEW lo \in Bytes, NEW hi \in Bytes, NEW id,
         IsRoot(file, id), \A q \in Nodes(file, id) : file[q] # Damaged
  PROVE  Shows(Walk(file, id, lo, hi), g[id].map, InBounds(g[id].map, lo, hi))
<1>1. PICK f : Walks(file, lo, hi, f) /\ Walk(file, id, lo, hi) = f[id]
  BY WalkOf
<1>2. PICK r : Reaches(file, r) /\ Nodes(file, id) = r[id]
  BY NodesOf
<1> DEFINE N == Len(file)
           Sound(p) == file[p].kind # "overflow" /\ \A q \in r[p] : file[q] # Damaged
           Good(p) == Sound(p) => Shows(f[p], g[p].map, InBounds(g[p].map, lo, hi))
           Bad == {p \in 1..N : ~Good(p)}
<1>3. N \in Nat /\ file \in Seq(Page)
  BY DEF FileHolds
<1>4. Bad = {}
  <2> SUFFICES ASSUME Bad # {} PROVE FALSE
    OBVIOUS
  <2>1. PICK p \in Bad : \A y \in Bad : p <= y
    <3>1. Bad \subseteq Nat
      OBVIOUS
    <3> HIDE DEF Bad
    <3> QED BY <3>1, Least
  <2>2. p \in 1..N /\ Sound(p) /\ ~Shows(f[p], g[p].map, InBounds(g[p].map, lo, hi))
    OBVIOUS
  <2>3. \A q \in 1..(p - 1) : q \in 1..N /\ ~(p <= q)
    BY <1>3, <2>2
  <2>4. \A q \in 1..(p - 1) : Good(q)
    <3>1. \A q \in 1..N : ~Good(q) => q \in Bad
      OBVIOUS
    <3> HIDE DEF Bad, Good
    <3> QED BY <2>1, <2>3, <3>1
  <2> HIDE DEF Bad
  <2> DEFINE n == file[p]
             h == g[p]
  <2>5. IsRecord(h) /\ file[p] # Damaged
    <3>1. p \in r[p]
      BY <1>2, <2>2 DEF Reaches
    <3> QED BY <2>2, <3>1, KindsAre
  <2>6. CASE n.kind = "internal"
    <3>1. InternalHolds(file, p, n, h, g)
      BY <2>2, <2>6, KindsAre
    <3>2. ASSUME NEW i \in 1..Len(n.children)
          PROVE  Shows(f[n.children[i]], g[n.children[i]].map,
                       InBounds(g[n.children[i]].map, lo, hi))
      <4> DEFINE c == n.children[i]
      <4>1. c \in 1..(p - 1) /\ file[c].kind # "overflow"
            /\ DOMAIN n.children = 1..Len(n.children)
        BY <2>2, <2>6, KindsAre
      <4>2. r[c] \subseteq r[p]
        <5>1. r[p] = {p} \cup UNION {r[x] : x \in ToSet(n.children)}
          BY <1>2, <2>2, <2>6 DEF Reaches
        <5>2. c \in ToSet(n.children)
          BY <4>1 DEF ToSet
        <5> HIDE DEF c, n
        <5> QED BY <5>1, <5>2
      <4>3. Sound(c)
        BY <2>2, <4>1, <4>2
      <4> HIDE DEF c
      <4>4. Good(c)
        BY <2>4, <4>1
      <4> QED BY <4>3, <4>4 DEF c
    <3>3. f[p] = FlattenSeq([i \in DOMAIN n.children |->
                   IF Meets(n, i, lo, hi) THEN f[n.children[i]] ELSE <<>>])
      BY <1>1, <2>2, <2>6 DEF Walks
    <3> HIDE DEF n, h
    <3>4. Shows(FlattenSeq([i \in DOMAIN n.children |->
                   IF Meets(n, i, lo, hi) THEN f[n.children[i]] ELSE <<>>]),
                h.map, InBounds(h.map, lo, hi))
      BY <2>5, <3>1, <3>2, ChildrenInTurn
    <3> QED BY <2>2, <3>3, <3>4 DEF h
  <2>7. CASE n.kind = "leaf"
    <3>1. LeafHolds(file, p, n, h)
      BY <2>2, <2>7, KindsAre
    <3>2. f[p] = Hits(file, n, lo, hi)
      BY <1>1, <2>2, <2>7 DEF Walks
    <3>3. Shows(Hits(file, n, lo, hi), h.map, InBounds(h.map, lo, hi))
      <4> HIDE DEF n, h
      <4> QED BY <1>3, <2>2, <2>5, <3>1, HitsShow
    <3> QED BY <2>2, <3>2, <3>3
  <2>8. CASE n.kind \notin {"leaf", "internal"}
    <3>1. n = Damaged
      BY <2>2, <2>8, KindsAre
    <3> QED BY <2>5, <3>1
  <2> QED BY <2>6, <2>7, <2>8
<1>5. id \in 1..N /\ Sound(id)
  BY <1>2 DEF IsRoot
<1>6. Good(id)
  BY <1>4, <1>5
<1> QED BY <1>1, <1>5, <1>6

\* What is shown is what the map lists.
LEMMA ListsWhatIsShown ==
  ASSUME NEW s, NEW map, NEW keys, Shows(s, map, keys), NEW m,
         DOMAIN m = keys, \A k \in keys : m[k] = map[k]
  PROVE  Lists(s, m)
<1>1. /\ s \in Seq(Pair) /\ Len(s) \in Nat /\ DOMAIN s = 1..Len(s)
      /\ \A i, j \in 1..Len(s) : i < j => Less(s[i].key, s[j].key)
      /\ \A i \in 1..Len(s) : s[i].key \in keys /\ s[i].val = map[s[i].key]
      /\ \A k \in keys : \E i \in 1..Len(s) : s[i].key = k
  BY DEF Shows
<1>2. Ascending(s)
  <2>1. \A i \in 1..(Len(s) - 1) : i \in 1..Len(s) /\ i + 1 \in 1..Len(s) /\ i < i + 1
    BY <1>1
  <2> QED BY <1>1, <2>1 DEF Ascending
<1>3. \A i \in 1..Len(s) : s[i] = [key |-> s[i].key, val |-> m[s[i].key]]
  <2> TAKE i \in 1..Len(s)
  <2>1. s[i] \in Pair /\ s[i].key \in keys /\ s[i].val = map[s[i].key]
    BY <1>1
  <2>2. s[i] = [key |-> s[i].key, val |-> s[i].val]
    BY <2>1 DEF Pair
  <2>3. s[i].val = m[s[i].key]
    BY <2>1
  <2> QED BY <2>2, <2>3
<1>4. ToSet(s) = {[key |-> k, val |-> m[k]] : k \in keys}
  <2>1. ASSUME NEW x \in ToSet(s) PROVE \E k \in keys : x = [key |-> k, val |-> m[k]]
    <3>1. PICK i \in 1..Len(s) : s[i] = x
      BY <1>1 DEF ToSet
    <3> QED BY <1>1, <1>3, <3>1
  <2>2. ASSUME NEW k \in keys PROVE [key |-> k, val |-> m[k]] \in ToSet(s)
    <3>1. PICK i \in 1..Len(s) : s[i].key = k
      BY <1>1
    <3>2. s[i] \in ToSet(s)
      BY <1>1 DEF ToSet
    <3> QED BY <1>3, <3>1, <3>2
  <2> QED BY <2>1, <2>2
<1> QED BY <1>2, <1>4 DEF Lists

\* What a map has of a prefix.
WithPrefix(map, p) == {k \in DOMAIN map : IsPrefix(p, k)}

\* A scan shows the keys that have its prefix.
LEMMA ScanShows ==
  ASSUME NEW file, NEW g, FileHolds(file, g), NEW id, IsRoot(file, id), Whole(file, id),
         NEW p \in Bytes
  PROVE  Shows(Scan(file, id, p), g[id].map, WithPrefix(g[id].map, p))
<1> DEFINE u == PrefixUpper(p)
<1>1. id # InvalidPageID
  BY DEF IsRoot, InvalidPageID
<1>2. \A q \in Nodes(file, id) : file[q] # Damaged
  BY <1>1 DEF Whole, Reachable
<1>3. u \in Bytes
  <2>1. <<>> \in Bytes
    BY DEF Bytes
  <2> QED BY <2>1, PrefixUpperIs
<1>4. Shows(Walk(file, id, p, u), g[id].map, InBounds(g[id].map, p, u))
  <2> HIDE DEF u
  <2> QED BY <1>2, <1>3, WalkShows
<1>5. DOMAIN g[id].map \subseteq Bytes
  BY TreeKeysAre, KindsAre DEF IsRoot, IsRecord
<1>6. InBounds(g[id].map, p, u) = WithPrefix(g[id].map, p)
  <2>1. \A k \in Bytes : (~Less(k, p) /\ (PrefixUpper(p) = <<>> \/ Less(k, PrefixUpper(p))))
           <=> IsPrefix(p, k)
    BY PrefixRange
  <2> QED BY <1>5, <2>1 DEF InBounds, WithPrefix, Within
<1> QED BY <1>1, <1>4, <1>6 DEF Scan

\* Every key has the empty prefix.
LEMMA AllHaveNoPrefix ==
  ASSUME NEW map, DOMAIN map \subseteq TreeKeys
  PROVE  WithPrefix(map, <<>>) = DOMAIN map /\ <<>> \in Bytes
<1>1. <<>> \in Bytes /\ Len(<<>>) = 0
  BY DEF Bytes
<1>2. \A k \in DOMAIN map : IsPrefix(<<>>, k)
  <2> TAKE k \in DOMAIN map
  <2>1. k \in Bytes /\ Len(k) \in Nat
    BY TreeKeysAre, BytesAre
  <2>2. Len(<<>>) <= Len(k) /\ \A i \in 1..Len(<<>>) : <<>>[i] = k[i]
    BY <1>1, <2>1
  <2> QED BY <1>1, <2>1, <2>2, PrefixIs
<1> QED BY <1>1, <1>2 DEF WithPrefix

\* The nodes of a path are among those of its first page.
LEMMA PathInNodes ==
  ASSUME NEW file, NEW g, FileHolds(file, g), NEW key, NEW id, NEW path,
         IsPath(file, id, key, path), key \in TreeKeys
  PROVE  \A i \in 1..Len(path) : path[i] \in Nodes(file, id)
<1>1. PICK r : Reaches(file, r) /\ Nodes(file, id) = r[id]
  BY NodesOf
<1> DEFINE L == Len(path)
           Bad == {i \in 1..L : ~(r[path[i]] \subseteq r[id])}
<1>2. /\ L \in Nat /\ path[1] = id /\ \A i \in 1..L : path[i] \in 1..Len(file)
      /\ \A i \in 1..(L - 1) :
           /\ file[path[i]].kind = "internal"
           /\ path[i + 1] = file[path[i]].children[ChildIndex(file[path[i]], key)]
  BY DEF IsPath
<1>3. Bad = {}
  <2> SUFFICES ASSUME Bad # {} PROVE FALSE
    OBVIOUS
  <2>1. PICK i \in Bad : \A y \in Bad : i <= y
    <3>1. Bad \subseteq Nat
      OBVIOUS
    <3> HIDE DEF Bad
    <3> QED BY <3>1, Least
  <2>2. i \in 1..L /\ ~(r[path[i]] \subseteq r[id])
    OBVIOUS
  <2>3. i # 1
    BY <1>2, <2>2
  <2>4. i - 1 \in 1..L /\ i - 1 \in 1..(L - 1) /\ ~(i <= i - 1) /\ (i - 1) + 1 = i
    BY <1>2, <2>2, <2>3
  <2>5. r[path[i - 1]] \subseteq r[id]
    <3>1. i - 1 \notin Bad
      <4> HIDE DEF Bad
      <4> QED BY <2>1, <2>4
    <3> QED BY <2>4, <3>1
  <2> DEFINE p == path[i - 1]
             n == file[p]
             ci == ChildIndex(n, key)
  <2>6. p \in 1..Len(file) /\ n.kind = "internal" /\ path[i] = n.children[ci]
    BY <1>2, <2>4
  <2> HIDE DEF p, Bad
  <2>7. InternalHolds(file, p, n, g[p], g) /\ IsRecord(g[p])
        /\ DOMAIN n.children = 1..Len(n.children)
    BY <2>6, KindsAre
  <2>8. ci \in 1..Len(n.children)
    BY <2>7, ChildIndexIs
  <2>9. path[i] \in ToSet(n.children)
    BY <2>6, <2>7, <2>8 DEF ToSet
  <2>10. r[p] = {p} \cup UNION {r[x] : x \in ToSet(n.children)}
    BY <1>1, <2>6 DEF Reaches
  <2>11. r[path[i]] \subseteq r[p]
    <3> HIDE DEF n
    <3> QED BY <2>9, <2>10
  <2> QED BY <2>2, <2>5, <2>11 DEF p
<1>4. ASSUME NEW i \in 1..L PROVE path[i] \in r[path[i]]
  BY <1>1, <1>2 DEF Reaches
<1> QED BY <1>1, <1>3, <1>4

\* A lookup finds what the record has.
LEMMA GetIs ==
  ASSUME NEW file, NEW g, FileHolds(file, g), NEW id, IsRoot(file, id), Whole(file, id),
         NEW key \in TreeKeys
  PROVE  Get(file, id, key) = IF key \in DOMAIN g[id].map THEN g[id].map[key] ELSE NoValue
<1> DEFINE path == Path(file, id, key)
           p == path[Len(path)]
           n == file[p]
           h == g[p]
<1>1. id # InvalidPageID
  BY DEF IsRoot, InvalidPageID
<1>2. IsPath(file, id, key, path)
  BY PathIs DEF IsRoot
<1>3. Len(path) \in 1..Len(path)
  BY <1>2 DEF IsPath
<1>4. n = LeafOf(file, id, key) /\ n # Damaged
  <2>1. p \in Nodes(file, id)
    BY <1>2, <1>3, PathInNodes
  <2>2. n = LeafOf(file, id, key)
    BY DEF LeafOf, Last
  <2> HIDE DEF p
  <2> QED BY <1>1, <2>1, <2>2 DEF Whole, Reachable
<1>5. Readable(file, id, key)
  BY <1>4 DEF Readable
<1>6. p \in 1..Len(file) /\ LeafHolds(file, p, n, h)
  BY <1>3, <1>5, PathEnds
<1>7. Alike(g[id], h, key)
  BY <1>2, <1>3, PathKeeps
<1>8. IsRecord(h) /\ file \in Seq(Page)
  BY <1>6, KindsAre DEF FileHolds
<1> HIDE DEF path, p
<1> DEFINE at == LeafSearch(n.entries, key)
<1>9. /\ Found(n.entries, key) <=> key \in DOMAIN h.map
      /\ Found(n.entries, key) => at \in 1..Len(n.entries) /\ n.entries[at].key = key
  BY <1>6, <1>8, FoundIs
<1>10. CASE key \in DOMAIN h.map
  <2>1. at \in DOMAIN n.entries /\ n.entries[at].key = key
    <3>1. DOMAIN n.entries = 1..Len(n.entries)
      BY <1>6 DEF LeafHolds, LeafPages
    <3> QED BY <1>9, <1>10, <3>1
  <2>2. EntryHolds(file, p, n.entries[at], h.map[key])
    BY <1>6, <2>1 DEF LeafHolds
  <2>3. Materialize(file, n.entries[at]) = h.map[key]
    BY <1>6, <1>8, <2>2, ValueReadBack
  <2> QED BY <1>1, <1>4, <1>7, <1>9, <1>10, <2>3 DEF Get, Alike
<1>11. CASE key \notin DOMAIN h.map
  BY <1>1, <1>4, <1>7, <1>9, <1>11 DEF Get, Alike
<1> QED BY <1>10, <1>11

-----------------------------------------------------------------------------
(***************************************************************************)
(* The merge                                                               *)
(***************************************************************************)

\* f gives what the merge has come to after so many steps.
Merges(base, deltas, f) ==
  /\ f[0] = [out |-> <<>>, left |-> DOMAIN deltas, next |-> 1]
  /\ \A n \in 1..(Len(base) + Cardinality(DOMAIN deltas)) : f[n] = MergeStep(base, deltas, f[n - 1])

\* The merge goes on step by step.
LEMMA MergedOf ==
  ASSUME NEW base, NEW deltas, Len(base) \in Nat, Cardinality(DOMAIN deltas) \in Nat
  PROVE  \E f : Merges(base, deltas, f) /\ Merged(base, deltas) = f[Len(base) + Cardinality(DOMAIN deltas)].out
<1> DEFINE First == [out |-> <<>>, left |-> DOMAIN deltas, next |-> 1]
           Step(x, n) == MergeStep(base, deltas, x)
           Rec(f, k) == [n \in 0..k |-> IF n = 0 THEN First ELSE Step(f[n - 1], n)]
           Bad == {k \in 0..(Len(base) + Cardinality(DOMAIN deltas)) : ~\E f : f = Rec(f, k)}
           all == CHOOSE f : f = Rec(f, (Len(base) + Cardinality(DOMAIN deltas)))
<1>0. (Len(base) + Cardinality(DOMAIN deltas)) \in Nat
  OBVIOUS
<1>1. Merged(base, deltas) = all[Len(base) + Cardinality(DOMAIN deltas)].out
  BY DEF Merged
<1> HIDE DEF First, Step
<1>2. Bad = {}
  <2> SUFFICES ASSUME Bad # {} PROVE FALSE
    OBVIOUS
  <2>1. PICK k \in Bad : \A y \in Bad : k <= y
    <3>1. Bad \subseteq Nat
      OBVIOUS
    <3> HIDE DEF Bad
    <3> QED BY <3>1, Least
  <2>2. k \in 0..(Len(base) + Cardinality(DOMAIN deltas)) /\ ~\E f : f = Rec(f, k)
    OBVIOUS
  <2>3. CASE k = 0
    <3> DEFINE f == [n \in 0..0 |-> First]
    <3>1. f = Rec(f, 0)
      OBVIOUS
    <3> QED BY <2>2, <2>3, <3>1
  <2>4. CASE k # 0
    <3>1. k - 1 \in 0..(Len(base) + Cardinality(DOMAIN deltas)) /\ ~(k <= k - 1)
      BY <1>0, <2>2, <2>4
    <3>2. PICK f : f = Rec(f, k - 1)
      <4>1. k - 1 \notin Bad
        <5> HIDE DEF Bad
        <5> QED BY <2>1, <3>1
      <4> QED BY <3>1, <4>1
    <3> DEFINE g == [n \in 0..k |-> IF n = k THEN Step(f[k - 1], k) ELSE f[n]]
    <3>3. ASSUME NEW n \in 0..k
          PROVE  g[n] = IF n = 0 THEN First ELSE Step(g[n - 1], n)
      <4>1. n = k \/ n \in 0..(k - 1)
        BY <2>2
      <4>2. n # 0 => n - 1 \in 0..(k - 1) /\ n - 1 \in 0..k /\ n - 1 # k
        BY <2>2
      <4>3. n # 0 => g[n - 1] = f[n - 1]
        BY <4>2
      <4>4. n \in 0..(k - 1) => f[n] = IF n = 0 THEN First ELSE Step(f[n - 1], n)
        BY <3>2
      <4>5. g[n] = IF n = k THEN Step(f[k - 1], k) ELSE f[n]
        OBVIOUS
      <4> HIDE DEF g
      <4> QED BY <2>4, <4>1, <4>3, <4>4, <4>5
    <3>4. g = Rec(g, k)
      BY <3>3
    <3> HIDE DEF g
    <3> QED BY <2>2, <3>4
  <2> QED BY <2>3, <2>4
<1>3. \E f : f = Rec(f, (Len(base) + Cardinality(DOMAIN deltas)))
  BY <1>0, <1>2
<1>4. all = Rec(all, (Len(base) + Cardinality(DOMAIN deltas)))
  <2> HIDE DEF Rec
  <2> QED BY <1>3
<1>5. all[0] = First
  <2> HIDE DEF all
  <2> QED BY <1>0, <1>4
<1>6. ASSUME NEW n \in 1..(Len(base) + Cardinality(DOMAIN deltas)) PROVE all[n] = Step(all[n - 1], n)
  <2>1. n \in 0..(Len(base) + Cardinality(DOMAIN deltas)) /\ n # 0
    BY <1>0
  <2> HIDE DEF all
  <2> QED BY <1>4, <2>1
<1> HIDE DEF all
<1>7. QED BY <1>1, <1>5, <1>6 DEF First, Step, Merges

\* The keys that a merge is done with, and those to come.
Taken(base, deltas, m) ==
  (DOMAIN deltas \ m.left) \cup {base[i].key : i \in 1..(m.next - 1)}
Open(base, m) == m.left \cup {base[i].key : i \in m.next..Len(base)}

\* A merge has added what the map has of the keys it is done with, and those to
\* come are above them.
MergesTo(base, deltas, map, m) ==
  /\ m.left \subseteq DOMAIN deltas /\ m.next \in 1..(Len(base) + 1)
  /\ \A k \in Taken(base, deltas, m), l \in Open(base, m) : Less(k, l)
  /\ Shows(m.out, map, DOMAIN map \cap Taken(base, deltas, m))

\* The step from m to n takes the key x, and adds what the map has of it.
Takes(base, deltas, map, m, n, x, piece) ==
  /\ n.out = m.out \o piece
  /\ n.left \subseteq DOMAIN deltas /\ n.next \in 1..(Len(base) + 1)
  /\ Open(base, m) = Open(base, n) \cup {x}
  /\ Taken(base, deltas, n) = Taken(base, deltas, m) \cup {x}
  /\ \A l \in Open(base, n) : Less(x, l)
  /\ Shows(piece, map, DOMAIN map \cap {x})

\* Such a step keeps the merge right.
LEMMA TakesHolds ==
  ASSUME NEW base, NEW deltas, NEW map, NEW m, NEW n, NEW x, NEW piece,
         MergesTo(base, deltas, map, m), Takes(base, deltas, map, m, n, x, piece)
  PROVE  MergesTo(base, deltas, map, n)
<1> DEFINE T == Taken(base, deltas, m)
           U == Taken(base, deltas, n)
           D == DOMAIN map
<1>1. /\ \A k \in T, l \in Open(base, m) : Less(k, l)
      /\ Shows(m.out, map, D \cap T)
  BY DEF MergesTo
<1>2. /\ n.out = m.out \o piece /\ Open(base, m) = Open(base, n) \cup {x} /\ U = T \cup {x}
      /\ \A l \in Open(base, n) : Less(x, l)
      /\ Shows(piece, map, D \cap {x})
      /\ n.left \subseteq DOMAIN deltas /\ n.next \in 1..(Len(base) + 1)
  BY DEF Takes
<1> HIDE DEF T, U, D
<1>3. \A k \in U, l \in Open(base, n) : Less(k, l)
  BY <1>1, <1>2
<1>4. Shows(n.out, map, D \cap U)
  <2>1. \A k \in D \cap T, l \in D \cap {x} : Less(k, l)
    BY <1>1, <1>2
  <2>2. Shows(m.out \o piece, map, (D \cap T) \cup (D \cap {x}))
    BY <1>1, <1>2, <2>1, ShowsBoth
  <2>3. D \cap U = (D \cap T) \cup (D \cap {x})
    BY <1>2
  <2> QED BY <1>2, <2>2, <2>3
<1> QED BY <1>2, <1>3, <1>4 DEF MergesTo, T, U, D

\* A batch of changes to the tree's keys.
IsBatch(deltas) ==
  /\ DOMAIN deltas \subseteq TreeKeys /\ IsFiniteSet(DOMAIN deltas)
  /\ \A k \in DOMAIN deltas : deltas[k] \in Values \cup {Deleted}

\* The base, which shows a map, and what it becomes by the changes.
LEMMA OverriddenIs ==
  ASSUME NEW map, NEW deltas, IsBatch(deltas), NEW x,
         DOMAIN map \subseteq TreeKeys, \A k \in DOMAIN map : map[k] \in Values
  PROVE  LET over == Overridden(map, deltas)
         IN  /\ x \in DOMAIN deltas =>
                  /\ x \in DOMAIN over <=> deltas[x] # Deleted
                  /\ x \in DOMAIN over => over[x] = deltas[x] /\ over[x] \in Values
             /\ x \in DOMAIN map \ DOMAIN deltas =>
                  x \in DOMAIN over /\ over[x] = map[x] /\ over[x] \in Values
             /\ DOMAIN over \subseteq DOMAIN map \cup DOMAIN deltas
BY DEF IsBatch, Overridden

\* A step of the merge that has something to take.
LEMMA StepTakes ==
  ASSUME NEW base, NEW map, Shows(base, map, DOMAIN map), DOMAIN map \subseteq TreeKeys,
         \A k \in DOMAIN map : map[k] \in Values,
         NEW deltas, IsBatch(deltas), NEW m,
         MergesTo(base, deltas, Overridden(map, deltas), m), Open(base, m) # {},
         NEW n, n = MergeStep(base, deltas, m)
  PROVE  /\ \E x, piece : Takes(base, deltas, Overridden(map, deltas), m, n, x, piece)
         /\ \/ n.next = m.next + 1 /\ n.left \subseteq m.left
            \/ n.next = m.next /\ \E x \in m.left : n.left = m.left \ {x}
<1> DEFINE N == Len(base)
           over == Overridden(map, deltas)
           change == Lowest(m.left)
           pair == base[m.next]
           fromLog == m.left # {} /\ (m.next > N \/ ~Less(pair.key, change))
           fromBase == m.next <= N /\ (m.left = {} \/ ~Less(change, pair.key))
           piece == IF fromLog THEN Kept(deltas, change)
                    ELSE IF fromBase THEN <<pair>> ELSE <<>>
<1>1. n = [out |-> m.out \o piece,
           left |-> IF fromLog THEN m.left \ {change} ELSE m.left,
           next |-> IF fromBase THEN m.next + 1 ELSE m.next]
  BY DEF MergeStep
<1>2. /\ base \in Seq(Pair) /\ N \in Nat
      /\ \A i, j \in 1..N : i < j => Less(base[i].key, base[j].key)
      /\ \A i \in 1..N : /\ base[i].key \in DOMAIN map /\ base[i].val = map[base[i].key]
                         /\ base[i] = [key |-> base[i].key, val |-> base[i].val]
  <2>1. \A i \in 1..Len(base) : base[i] \in Pair
    BY DEF Shows
  <2> QED BY <2>1 DEF Shows, Pair
<1>3. /\ m.left \subseteq DOMAIN deltas /\ m.next \in 1..(N + 1) /\ m.next \in Nat
      /\ \A k \in Taken(base, deltas, m), l \in Open(base, m) : Less(k, l)
  BY <1>2 DEF MergesTo
<1>4. DOMAIN deltas \subseteq TreeKeys /\ IsFiniteSet(DOMAIN deltas)
      /\ \A k \in DOMAIN deltas : deltas[k] \in Values \cup {Deleted}
  BY DEF IsBatch
<1>5. m.left # {} =>
        change \in m.left /\ \A j \in m.left : j = change \/ Less(change, j)
  <2>1. m.left \in SUBSET Bytes /\ IsFiniteSet(m.left)
    BY <1>3, <1>4, TreeKeysAre, FS_Subset
  <2>2. m.left # {} => \E k \in m.left : \A j \in m.left : j = k \/ Less(k, j)
    BY <2>1, LowestExists
  <2> QED BY <2>2 DEF Lowest
<1> HIDE DEF change
<1>6. ASSUME NEW j \in m.next..N
      PROVE  j \in 1..N /\ (j = m.next \/ (m.next < j /\ j \in (m.next + 1)..N))
  <2>1. N \in Nat /\ m.next \in Nat /\ m.next >= 1
    BY <1>2, <1>3
  <2> HIDE DEF N
  <2>2. j \in Int /\ m.next <= j /\ j <= N
    BY <2>1
  <2> QED BY <2>1, <2>2
<1>7. m.next <= N => /\ m.next \in 1..N /\ pair.key \in DOMAIN map /\ pair.val = map[pair.key]
                     /\ pair = [key |-> pair.key, val |-> pair.val] /\ pair.key \in TreeKeys
                     /\ \A j \in (m.next + 1)..N : Less(pair.key, base[j].key)
  BY <1>2, <1>3, <1>6
<1> DEFINE Rest(a) == {base[i].key : i \in a..N}
           Past(a) == {base[i].key : i \in 1..(a - 1)}
<1>8. m.next <= N => /\ Rest(m.next) = Rest(m.next + 1) \cup {pair.key}
                     /\ Past(m.next + 1) = Past(m.next) \cup {pair.key}
                     /\ \A l \in Rest(m.next + 1) : Less(pair.key, l)
  <2> SUFFICES ASSUME m.next <= N
               PROVE  /\ Rest(m.next) = Rest(m.next + 1) \cup {pair.key}
                      /\ Past(m.next + 1) = Past(m.next) \cup {pair.key}
                      /\ \A l \in Rest(m.next + 1) : Less(pair.key, l)
    OBVIOUS
  <2>1. /\ m.next..N = (m.next + 1)..N \cup {m.next}
        /\ 1..((m.next + 1) - 1) = 1..(m.next - 1) \cup {m.next}
    BY <1>2, <1>3
  <2> QED BY <1>7, <2>1
<1>9. m.next > N => Rest(m.next) = {}
  BY <1>2, <1>3
<1>10. /\ Open(base, m) = m.left \cup Rest(m.next) /\ Open(base, n) = n.left \cup Rest(n.next)
       /\ Taken(base, deltas, m) = (DOMAIN deltas \ m.left) \cup Past(m.next)
       /\ Taken(base, deltas, n) = (DOMAIN deltas \ n.left) \cup Past(n.next)
  BY DEF Open, Taken
<1>11. Rest(m.next) \subseteq DOMAIN map
  BY <1>2, <1>6
<1>12. m.next <= N => pair.key \in Rest(m.next)
  BY <1>8
<1> HIDE DEF Rest, Past, pair, over, N
<1>13. fromLog \/ fromBase
  <2>1. m.left # {} \/ m.next <= N
    BY <1>2, <1>3, <1>9, <1>10
  <2>2. m.left # {} /\ m.next <= N => ~Less(pair.key, change) \/ ~Less(change, pair.key)
    <3>1. m.left # {} => change \in TreeKeys
      BY <1>3, <1>4, <1>5
    <3> QED BY <1>7, <3>1, KeyOrder
  <2> QED BY <1>2, <1>3, <2>1, <2>2
<1>14. CASE fromLog
  <2> DEFINE x == change
  <2>1. /\ n.out = m.out \o piece /\ n.left = m.left \ {x} /\ x \in m.left /\ x \in TreeKeys
        /\ x \in DOMAIN deltas /\ piece = Kept(deltas, x)
    <3>1. x \in m.left /\ x \in TreeKeys /\ x \in DOMAIN deltas
      BY <1>3, <1>4, <1>5, <1>14
    <3>2. piece = Kept(deltas, x)
      BY <1>14
    <3>3. n.left = m.left \ {x}
      BY <1>1, <1>14
    <3> HIDE DEF piece
    <3>4. n.out = m.out \o piece
      BY <1>1
    <3> QED BY <3>1, <3>2, <3>3, <3>4
  <2>2. \A j \in n.left : Less(x, j)
    BY <1>5, <2>1
  <2>3. Shows(piece, over, DOMAIN over \cap {x})
    <3>1. /\ x \in DOMAIN over <=> deltas[x] # Deleted
          /\ x \in DOMAIN over => over[x] = deltas[x] /\ over[x] \in Values
      BY <2>1, OverriddenIs DEF over
    <3>2. CASE deltas[x] = Deleted
      <4>1. DOMAIN over \cap {x} = {} /\ piece = <<>>
        BY <2>1, <3>1, <3>2 DEF Kept
      <4> QED BY <4>1, ShowsNothing
    <3>3. CASE deltas[x] # Deleted
      <4>1. DOMAIN over \cap {x} = {x} /\ piece = <<[key |-> x, val |-> deltas[x]]>>
        BY <2>1, <3>1, <3>3 DEF Kept
      <4>2. Shows(<<[key |-> x, val |-> deltas[x]]>>, over, {x})
        BY <2>1, <3>1, <3>3, ShowsOne
      <4> QED BY <4>1, <4>2
    <3> QED BY <3>2, <3>3
  <2>4. CASE fromBase
    <3>1. n.next = m.next + 1 /\ m.next <= N /\ n.left \subseteq m.left
      BY <1>1, <1>14, <2>4
    <3>2. pair.key = x
      BY <1>2, <1>3, <1>7, <1>14, <2>1, <2>4, <3>1, KeyOrder
    <3>3. Takes(base, deltas, over, m, n, x, piece)
      <4>1. Open(base, m) = Open(base, n) \cup {x}
        BY <1>8, <1>10, <2>1, <3>1, <3>2
      <4>2. Taken(base, deltas, n) = Taken(base, deltas, m) \cup {x}
        BY <1>8, <1>10, <2>1, <3>1, <3>2
      <4>3. \A l \in Open(base, n) : Less(x, l)
        BY <1>8, <1>10, <2>2, <3>1, <3>2
      <4>4. n.left \subseteq DOMAIN deltas /\ n.next \in 1..(N + 1)
        BY <1>2, <1>3, <2>1, <3>1
      <4> HIDE DEF piece, x
      <4> QED BY <2>1, <2>3, <4>1, <4>2, <4>3, <4>4 DEF Takes, N
    <3> QED BY <3>1, <3>3 DEF over
  <2>5. CASE ~fromBase
    <3>1. n.next = m.next
      BY <1>1, <1>14, <2>5
    <3>2. m.next <= N => Less(x, pair.key)
      BY <1>14, <2>1, <2>5
    <3>3. \A l \in Rest(m.next) : Less(x, l)
      <4>1. CASE m.next <= N
        <5>1. \A l \in Rest(m.next + 1) : l \in TreeKeys /\ Less(pair.key, l)
          <6>1. Rest(m.next + 1) \subseteq DOMAIN map
            BY <1>8, <1>11, <4>1
          <6> QED BY <1>8, <4>1, <6>1
        <5> QED BY <1>7, <1>8, <2>1, <3>2, <4>1, <5>1, KeyOrder
      <4>2. CASE ~(m.next <= N)
        BY <1>2, <1>3, <1>9, <4>2
      <4> QED BY <4>1, <4>2
    <3>4. Takes(base, deltas, over, m, n, x, piece)
      <4>1. Open(base, m) = Open(base, n) \cup {x}
        BY <1>10, <2>1, <3>1
      <4>2. Taken(base, deltas, n) = Taken(base, deltas, m) \cup {x}
        BY <1>10, <2>1, <3>1
      <4>3. \A l \in Open(base, n) : Less(x, l)
        BY <1>10, <2>2, <3>1, <3>3
      <4>4. n.left \subseteq DOMAIN deltas /\ n.next \in 1..(N + 1)
        BY <1>2, <1>3, <2>1, <3>1
      <4> HIDE DEF piece, x
      <4> QED BY <2>1, <2>3, <4>1, <4>2, <4>3, <4>4 DEF Takes, N
    <3> QED BY <2>1, <3>1, <3>4 DEF over
  <2> QED BY <2>4, <2>5
<1>15. CASE ~fromLog /\ fromBase
  <2> DEFINE x == pair.key
  <2>1. /\ n.out = m.out \o piece /\ n.left = m.left /\ n.next = m.next + 1 /\ m.next <= N
        /\ piece = <<pair>>
    <3>1. piece = <<pair>> /\ m.next <= N
      BY <1>15
    <3>2. n.left = m.left
      BY <1>1, <1>15
    <3>3. n.next = m.next + 1
      BY <1>1, <1>15
    <3> HIDE DEF piece
    <3>4. n.out = m.out \o piece
      BY <1>1
    <3> QED BY <3>1, <3>2, <3>3, <3>4
  <2>2. x \in TreeKeys /\ x \in Open(base, m) /\ x \in DOMAIN map /\ pair.val = map[x]
        /\ pair = [key |-> x, val |-> map[x]]
    BY <1>7, <1>10, <1>12, <2>1
  <2>3. \A j \in m.left : Less(x, j)
    <3>1. m.left # {} => Less(x, change)
      BY <1>15, <2>1
    <3>2. \A j \in m.left : j \in TreeKeys /\ change \in TreeKeys
      BY <1>3, <1>4, <1>5
    <3> QED BY <1>5, <2>2, <3>1, <3>2, KeyOrder
  <2>4. x \notin DOMAIN deltas
    <3>1. x \notin m.left
      BY <2>2, <2>3, KeyOrder
    <3>2. x \notin Taken(base, deltas, m)
      BY <1>3, <2>2, KeyOrder
    <3> QED BY <1>10, <3>1, <3>2
  <2>5. Shows(piece, over, DOMAIN over \cap {x})
    <3>1. x \in DOMAIN over /\ over[x] = map[x] /\ over[x] \in Values
      BY <2>2, <2>4, OverriddenIs DEF over
    <3>2. Shows(<<[key |-> x, val |-> map[x]]>>, over, {x})
      BY <2>2, <3>1, ShowsOne
    <3>3. DOMAIN over \cap {x} = {x}
      BY <3>1
    <3> HIDE DEF piece, x
    <3> QED BY <2>1, <2>2, <3>2, <3>3
  <2>6. Takes(base, deltas, over, m, n, x, piece)
    <3>1. Open(base, m) = Open(base, n) \cup {x}
      BY <1>8, <1>10, <2>1
    <3>2. Taken(base, deltas, n) = Taken(base, deltas, m) \cup {x}
      BY <1>8, <1>10, <2>1
    <3>3. \A l \in Open(base, n) : Less(x, l)
      BY <1>8, <1>10, <2>1, <2>3
    <3>4. n.left \subseteq DOMAIN deltas /\ n.next \in 1..(N + 1)
      BY <1>2, <1>3, <2>1
    <3> HIDE DEF piece, x
    <3> QED BY <2>1, <2>5, <3>1, <3>2, <3>3, <3>4 DEF Takes, N
  <2> QED BY <2>1, <2>6 DEF over
<1> QED BY <1>13, <1>14, <1>15

\* How much a merge has to do yet.
Ahead(base, m) == Cardinality(m.left) + (Len(base) + 1 - m.next)

\* A merge that has come to an end stays as it is.
LEMMA StepRests ==
  ASSUME NEW base, NEW deltas, NEW map, NEW m, MergesTo(base, deltas, map, m), Open(base, m) = {},
         Len(base) \in Nat, NEW n, n = MergeStep(base, deltas, m)
  PROVE  /\ MergesTo(base, deltas, map, n)
         /\ n.left = {} /\ n.next = Len(base) + 1
<1>1. m.left \subseteq DOMAIN deltas /\ m.next \in 1..(Len(base) + 1)
  BY DEF MergesTo
<1>2. m.left = {} /\ {base[i].key : i \in m.next..Len(base)} = {}
  BY DEF Open
<1>3. ~(m.next <= Len(base))
  <2> SUFFICES ASSUME m.next <= Len(base) PROVE FALSE
    OBVIOUS
  <2>1. m.next \in m.next..Len(base)
    BY <1>1
  <2> QED BY <1>2, <2>1
<1>4. m.out \in Seq(Pair)
  <2>1. Shows(m.out, map, DOMAIN map \cap Taken(base, deltas, m))
    BY DEF MergesTo
  <2> QED BY <2>1 DEF Shows
<1>5. n.out = m.out \o <<>> /\ n.left = m.left /\ n.next = m.next
  BY <1>2, <1>3 DEF MergeStep
<1>6. n.out = m.out
  BY <1>4, <1>5
<1>7. Taken(base, deltas, n) = Taken(base, deltas, m) /\ Open(base, n) = Open(base, m)
  BY <1>5 DEF Taken, Open
<1>8. m.next = Len(base) + 1
  BY <1>1, <1>3
<1>9. MergesTo(base, deltas, map, n)
  BY <1>5, <1>6, <1>7 DEF MergesTo
<1> QED BY <1>2, <1>5, <1>8, <1>9

\* The merge shows the base with the changes.
LEMMA MergeShows ==
  ASSUME NEW base, NEW map, Shows(base, map, DOMAIN map), DOMAIN map \subseteq TreeKeys,
         \A k \in DOMAIN map : map[k] \in Values,
         NEW deltas, IsBatch(deltas)
  PROVE  LET over == Overridden(map, deltas) IN Shows(Merged(base, deltas), over, DOMAIN over)
<1> DEFINE N == Len(base)
           C == Cardinality(DOMAIN deltas)
           over == Overridden(map, deltas)
           Right(m, k) == MergesTo(base, deltas, over, m) /\ Ahead(base, m) <= N + C - k
<1>1. N \in Nat /\ DOMAIN base = 1..N /\ \A i \in 1..N : base[i].key \in DOMAIN map
  BY DEF Shows
<1>2. IsFiniteSet(DOMAIN deltas) /\ C \in Nat
  BY FS_CardinalityType DEF IsBatch
<1>3. PICK f : Merges(base, deltas, f) /\ Merged(base, deltas) = f[N + C].out
  BY <1>1, <1>2, MergedOf
<1>4. f[0].out = <<>> /\ f[0].left = DOMAIN deltas /\ f[0].next = 1
  BY <1>3 DEF Merges
<1>5. \A k \in 1..(N + C) : f[k] = MergeStep(base, deltas, f[k - 1])
  BY <1>3 DEF Merges
<1>6. \A k : MergesTo(base, deltas, over, f[k]) =>
        /\ IsFiniteSet(f[k].left) /\ Cardinality(f[k].left) \in Nat
        /\ f[k].next \in 1..(N + 1)
        /\ Cardinality(f[k].left) = 0 <=> f[k].left = {}
  <2> SUFFICES ASSUME NEW k, MergesTo(base, deltas, over, f[k])
               PROVE  /\ IsFiniteSet(f[k].left) /\ Cardinality(f[k].left) \in Nat
                      /\ f[k].next \in 1..(N + 1)
                      /\ Cardinality(f[k].left) = 0 <=> f[k].left = {}
    OBVIOUS
  <2>1. f[k].left \subseteq DOMAIN deltas /\ f[k].next \in 1..(N + 1)
    BY DEF MergesTo
  <2>2. IsFiniteSet(f[k].left)
    BY <1>2, <2>1, FS_Subset
  <2> QED BY <2>1, <2>2, FS_CardinalityType, FS_EmptySet
<1>7. Right(f[0], 0)
  <2>1. Taken(base, deltas, f[0]) = {}
    BY <1>4 DEF Taken
  <2>2. Shows(<<>>, over, {})
    BY ShowsNothing
  <2>3. MergesTo(base, deltas, over, f[0])
    BY <1>1, <1>4, <2>1, <2>2 DEF MergesTo
  <2>4. Ahead(base, f[0]) = C + (N + 1 - 1)
    BY <1>4 DEF Ahead
  <2> QED BY <1>1, <1>2, <2>3, <2>4
<1>8. ASSUME NEW k \in 1..(N + C), Right(f[k - 1], k - 1) PROVE Right(f[k], k)
  <2> DEFINE m == f[k - 1]
             n == f[k]
  <2>1. n = MergeStep(base, deltas, m)
    BY <1>5
  <2>2. MergesTo(base, deltas, over, m) /\ Ahead(base, m) <= N + C - (k - 1)
    BY <1>8
  <2>3. CASE Open(base, m) = {}
    <3>1. MergesTo(base, deltas, over, n) /\ n.left = {} /\ n.next = N + 1
      <4>1. /\ MergesTo(base, deltas, over, m) /\ Open(base, m) = {} /\ Len(base) \in Nat
            /\ n = MergeStep(base, deltas, m)
        BY <1>1, <2>1, <2>2, <2>3
      <4> HIDE DEF m, n, over
      <4> QED BY <4>1, StepRests
    <3>2. Ahead(base, n) = 0 + (N + 1 - (N + 1))
      BY <3>1, FS_EmptySet DEF Ahead
    <3>3. 0 + (N + 1 - (N + 1)) <= N + C - k
      BY <1>1, <1>2
    <3> QED BY <3>1, <3>2, <3>3
  <2>4. CASE Open(base, m) # {}
    <3>1. /\ \E x, piece : Takes(base, deltas, over, m, n, x, piece)
          /\ \/ n.next = m.next + 1 /\ n.left \subseteq m.left
             \/ n.next = m.next /\ \E x \in m.left : n.left = m.left \ {x}
      BY <2>1, <2>2, <2>4, StepTakes
    <3>2. MergesTo(base, deltas, over, n)
      BY <2>2, <3>1, TakesHolds
    <3>3. /\ IsFiniteSet(m.left) /\ Cardinality(m.left) \in Nat /\ m.next \in 1..(N + 1)
          /\ Cardinality(n.left) \in Nat /\ n.next \in 1..(N + 1)
      BY <1>6, <2>2, <3>2
    <3>4. \/ n.next = m.next + 1 /\ Cardinality(n.left) <= Cardinality(m.left)
          \/ n.next = m.next /\ Cardinality(n.left) = Cardinality(m.left) - 1
      <4>1. n.left \subseteq m.left => Cardinality(n.left) <= Cardinality(m.left)
        BY <3>3, FS_Subset
      <4>2. \A x \in m.left : n.left = m.left \ {x} => Cardinality(n.left) = Cardinality(m.left) - 1
        BY <3>3, FS_RemoveElement
      <4> HIDE DEF m, n
      <4> QED BY <3>1, <4>1, <4>2
    <3>5. Ahead(base, n) <= N + C - k
      <4>1. /\ Ahead(base, m) = Cardinality(m.left) + (N + 1 - m.next)
            /\ Ahead(base, n) = Cardinality(n.left) + (N + 1 - n.next)
        BY DEF Ahead
      <4> HIDE DEF m, n, N, C
      <4>2. k \in Int
        BY <1>1, <1>2
      <4> DEFINE c == Cardinality(m.left)
                 d == Cardinality(n.left)
                 i == m.next
                 j == n.next
      <4>3. c \in Nat /\ d \in Nat /\ i \in Int /\ j \in Int /\ N \in Int /\ C \in Int
        BY <1>1, <1>2, <3>3
      <4>4. c + (N + 1 - i) <= N + C - (k - 1)
        BY <2>2, <4>1
      <4>5. (j = i + 1 /\ d <= c) \/ (j = i /\ d = c - 1)
        BY <3>4
      <4> HIDE DEF c, d, i, j
      <4>6. d + (N + 1 - j) <= N + C - k
        BY <4>2, <4>3, <4>4, <4>5
      <4> QED BY <4>1, <4>6 DEF d, j
    <3> QED BY <3>2, <3>5
  <2> QED BY <2>3, <2>4
<1>9. \A k \in 0..(N + C) : Right(f[k], k)
  <2> DEFINE Bad == {k \in 0..(N + C) : ~Right(f[k], k)}
  <2> SUFFICES ASSUME Bad # {} PROVE FALSE
    OBVIOUS
  <2>1. PICK k \in Bad : \A y \in Bad : k <= y
    <3>1. Bad \subseteq Nat
      OBVIOUS
    <3> HIDE DEF Bad
    <3> QED BY <3>1, Least
  <2>2. k \in 0..(N + C) /\ ~Right(f[k], k)
    OBVIOUS
  <2> HIDE DEF Right
  <2>3. k # 0
    BY <1>7, <2>2
  <2>4. k \in 1..(N + C) /\ k - 1 \in 0..(N + C) /\ ~(k <= k - 1)
    BY <1>1, <1>2, <2>2, <2>3
  <2>5. Right(f[k - 1], k - 1)
    BY <2>1, <2>4
  <2> QED BY <1>8, <2>2, <2>4, <2>5
<1> DEFINE z == f[N + C]
<1>10. MergesTo(base, deltas, over, z) /\ Ahead(base, z) <= 0
  <2>1. N + C \in 0..(N + C) /\ N + C - (N + C) = 0
    BY <1>1, <1>2
  <2> QED BY <1>9, <2>1
<1>11. z.left = {} /\ z.next = N + 1
  <2>1. /\ Cardinality(z.left) \in Nat /\ z.next \in 1..(N + 1)
        /\ Cardinality(z.left) = 0 <=> z.left = {}
    BY <1>6, <1>10
  <2>2. Cardinality(z.left) + (N + 1 - z.next) <= 0
    BY <1>10 DEF Ahead
  <2> DEFINE c == Cardinality(z.left)
             i == z.next
  <2>3. c \in Nat /\ i \in 1..(N + 1) /\ N \in Nat /\ c + (N + 1 - i) <= 0
    BY <1>1, <2>1, <2>2
  <2> HIDE DEF z, N, c, i
  <2>4. c = 0 /\ i = N + 1
    BY <2>3
  <2> QED BY <2>1, <2>4 DEF c, i
<1> HIDE DEF z
<1>12. DOMAIN over \subseteq Taken(base, deltas, z)
  <2>1. DOMAIN over \subseteq DOMAIN map \cup DOMAIN deltas
    BY DEF Overridden
  <2>2. \A k \in DOMAIN map : \E i \in 1..N : base[i].key = k
    BY DEF Shows
  <2>3. 1..(z.next - 1) = 1..N
    BY <1>1, <1>11
  <2> HIDE DEF over, N
  <2> QED BY <1>11, <2>1, <2>2, <2>3 DEF Taken
<1>13. Shows(z.out, over, DOMAIN over)
  <2>1. Shows(z.out, over, DOMAIN over \cap Taken(base, deltas, z))
    BY <1>10 DEF MergesTo
  <2>2. DOMAIN over \cap Taken(base, deltas, z) = DOMAIN over
    BY <1>12
  <2> QED BY <2>1, <2>2
<1> QED BY <1>3, <1>13 DEF z

-----------------------------------------------------------------------------
(***************************************************************************)
(* The builder: rows of nodes                                              *)
(***************************************************************************)
Child == [first : TreeKeys, page : Nat]

Members(s) == {s[i] : i \in 1..Len(s)}

\* No page of a file is damaged.
Sound(file) == \A p \in 1..Len(file) : file[p] # Damaged

\* A node of a new file, whose record is a part of the map, and its lowest key.
ChildOf(file, g, map, c) ==
  /\ c \in Child /\ c.page \in 1..Len(file) /\ file[c.page].kind # "overflow"
  /\ c.first \in g[c.page].marks
  /\ \A k \in g[c.page].marks : ~Less(k, c.first)
  /\ \A k \in DOMAIN g[c.page].map : k \in DOMAIN map /\ g[c.page].map[k] = map[k]

\* All that occurs in c is below d.
Lower(g, c, d) == \A k \in g[c.page].marks : Less(k, d.first)
AllLower(g, C, d) == \A c \in C : Lower(g, c, d)
Precede(g, C, D) == \A d \in D : AllLower(g, C, d)

\* Nodes one behind the other.
IsRow(file, g, map, s) ==
  /\ s \in Seq(Child)
  /\ \A i \in 1..Len(s) : ChildOf(file, g, map, s[i])
  /\ \A i, j \in 1..Len(s) : i < j => Lower(g, s[i], s[j])

\* Keys that occur in the maps of nodes.
Holding(g, C) == UNION {DOMAIN g[c.page].map : c \in C}

\* A later file leaves the nodes as they are.
LEMMA ChildStays ==
  ASSUME NEW file, NEW g, NEW later, NEW l, Extends(file, g, later, l),
         NEW map, NEW c, Len(file) \in Nat, ChildOf(file, g, map, c)
  PROVE  ChildOf(later, l, map, c) /\ l[c.page] = g[c.page]
<1>1. c.page \in 1..Len(file) /\ c.page \in 1..Len(later)
  BY DEF Extends, ChildOf
<1>2. later[c.page] = file[c.page] /\ l[c.page] = g[c.page]
  BY <1>1 DEF Extends
<1> QED BY <1>1, <1>2 DEF ChildOf

LEMMA RowStays ==
  ASSUME NEW file, NEW g, NEW later, NEW l, Extends(file, g, later, l),
         NEW map, NEW s, Len(file) \in Nat, IsRow(file, g, map, s)
  PROVE  IsRow(later, l, map, s) /\ \A c \in Members(s) : l[c.page] = g[c.page]
<1>1. \A i \in 1..Len(s) : ChildOf(later, l, map, s[i]) /\ l[s[i].page] = g[s[i].page]
  BY ChildStays DEF IsRow
<1>2. \A i, j \in 1..Len(s) : i < j => Lower(l, s[i], s[j])
  BY <1>1 DEF IsRow, Lower
<1> QED BY <1>1, <1>2 DEF IsRow, Members

\* No nodes are a row, and a node behind a row makes it longer.
LEMMA NoRow ==
  ASSUME NEW file, NEW g, NEW map
  PROVE  IsRow(file, g, map, <<>>) /\ Members(<<>>) = {}
<1>1. Len(<<>>) = 0 /\ <<>> \in Seq(Child)
  OBVIOUS
<1> QED BY <1>1 DEF IsRow, Members

Grown(file, g, map, s, c, t) ==
  /\ IsRow(file, g, map, t) /\ Members(t) = Members(s) \cup {c}
  /\ Len(t) = Len(s) + 1

LEMMA RowGrows ==
  ASSUME NEW file, NEW g, NEW map, NEW s, NEW c, IsRow(file, g, map, s),
         ChildOf(file, g, map, c), AllLower(g, Members(s), c), NEW t, t = Append(s, c)
  PROVE  Grown(file, g, map, s, c, t)
<1> DEFINE N == Len(s)
<1>1. s \in Seq(Child) /\ c \in Child /\ N \in Nat
  BY DEF IsRow, ChildOf
<1>2. t \in Seq(Child) /\ Len(t) = N + 1 /\ t[N + 1] = c /\ \A i \in 1..N : t[i] = s[i]
  BY <1>1, AppendProperties
<1> HIDE DEF N
<1>3. \A i \in 1..(N + 1) : i = N + 1 \/ i \in 1..N
  BY <1>1
<1>4. \A i \in 1..N : i \in 1..(N + 1) /\ s[i] \in Members(s) /\ i < N + 1
  BY <1>1 DEF Members, N
<1>5. N + 1 \in 1..(N + 1) /\ ~(N + 1 < N + 1) /\ \A i \in 1..N : ~(N + 1 < i)
  BY <1>1
<1>6. \A i \in 1..(N + 1) : ChildOf(file, g, map, t[i])
  BY <1>2, <1>3 DEF IsRow, N
<1>7. ASSUME NEW i \in 1..(N + 1), NEW j \in 1..(N + 1), i < j PROVE Lower(g, t[i], t[j])
  <2>1. CASE i \in 1..N /\ j \in 1..N
    BY <1>2, <1>7, <2>1 DEF IsRow, N
  <2>2. CASE i \in 1..N /\ j = N + 1
    BY <1>2, <1>4, <2>2 DEF AllLower
  <2> QED BY <1>3, <1>5, <1>7, <2>1, <2>2
<1>8. Members(t) = Members(s) \cup {c}
  <2>1. Members(t) = {t[i] : i \in 1..(N + 1)} /\ Members(s) = {s[i] : i \in 1..N}
    BY <1>2 DEF Members, N
  <2> QED BY <1>2, <1>3, <1>4, <1>5, <2>1
<1> QED BY <1>1, <1>2, <1>6, <1>7, <1>8 DEF IsRow, Grown, N

\* What a parent of a row of nodes holds.
Joint(g, s, map) ==
  [map |-> [k \in Holding(g, Members(s)) |-> map[k]],
   marks |-> UNION {g[c.page].marks : c \in Members(s)}]

\* The parent of a row holds what its children hold.
LEMMA ParentHolds ==
  ASSUME NEW file, NEW g, FileHolds(file, g), NEW map, NEW s, IsRow(file, g, map, s),
         Len(s) >= 1, NEW h, h = Joint(g, s, map)
  PROVE  /\ IsRecord(h) /\ InternalHolds(file, Len(file) + 1, Parent(s), h, g)
         /\ s[1].first \in h.marks /\ \A k \in h.marks : ~Less(k, s[1].first)
         /\ \A k \in DOMAIN h.map : k \in DOMAIN map /\ h.map[k] = map[k]
         /\ DOMAIN h.map = Holding(g, Members(s))
<1> DEFINE N == Len(s)
           n == Parent(s)
<1>1. N \in Nat /\ N >= 1 /\ s \in Seq(Child) /\ Len(file) \in Nat
  BY DEF IsRow, FileHolds
<1>2. \A i \in 1..N : ChildOf(file, g, map, s[i])
  BY DEF IsRow
<1>3. \A i \in 1..N : /\ s[i] \in Child /\ s[i].first \in TreeKeys /\ s[i].page \in 1..Len(file)
                      /\ file[s[i].page].kind # "overflow" /\ IsRecord(g[s[i].page])
                      /\ s[i].first \in g[s[i].page].marks
                      /\ \A k \in g[s[i].page].marks : k \in TreeKeys /\ ~Less(k, s[i].first)
                      /\ \A k \in DOMAIN g[s[i].page].map :
                           /\ k \in g[s[i].page].marks
                           /\ k \in DOMAIN map /\ g[s[i].page].map[k] = map[k]
                           /\ map[k] \in Values
  <2> TAKE i \in 1..N
  <2>1. ChildOf(file, g, map, s[i])
    BY <1>2
  <2>2. s[i].page \in 1..Len(file) /\ IsRecord(g[s[i].page])
    BY <2>1, KindsAre DEF ChildOf
  <2>3. s[i].first \in TreeKeys
    BY <2>1 DEF ChildOf, Child
  <2> QED BY <2>1, <2>2, <2>3 DEF ChildOf, IsRecord
<1>4. \A i, j \in 1..N : i < j => \A k \in g[s[i].page].marks : Less(k, s[j].first)
  BY DEF IsRow, Lower
<1>5. /\ \A k \in h.marks : \E i \in 1..N : k \in g[s[i].page].marks
      /\ \A i \in 1..N : g[s[i].page].marks \subseteq h.marks
  BY DEF Joint, Members
<1>6. /\ DOMAIN h.map = Holding(g, Members(s)) /\ \A k \in DOMAIN h.map : h.map[k] = map[k]
      /\ h.map = [k \in DOMAIN h.map |-> h.map[k]]
  BY DEF Joint
<1>7. \A k : k \in DOMAIN h.map <=> \E i \in 1..N : k \in DOMAIN g[s[i].page].map
  BY <1>6 DEF Holding, Members
<1> HIDE DEF N
<1>8. IsRecord(h)
  BY <1>3, <1>5, <1>6, <1>7 DEF IsRecord
<1>9. \A k \in h.marks : ~Less(k, s[1].first)
  <2> TAKE k \in h.marks
  <2>1. PICK i \in 1..N : k \in g[s[i].page].marks
    BY <1>5
  <2>2. 1 \in 1..N /\ (i = 1 \/ 1 < i)
    BY <1>1
  <2>3. CASE i = 1
    BY <1>3, <2>1, <2>2, <2>3
  <2>4. CASE 1 < i
    <3>1. Less(s[1].first, s[i].first) /\ ~Less(k, s[i].first) /\ k \in TreeKeys
          /\ s[1].first \in TreeKeys /\ s[i].first \in TreeKeys
      BY <1>3, <1>4, <2>1, <2>2, <2>4
    <3> QED BY <3>1, KeyOrder
  <2> QED BY <2>2, <2>3, <2>4
<1>10. /\ n.kind = "internal" /\ n.keys = [i \in 1..(N - 1) |-> s[i + 1].first]
       /\ n.children = [i \in 1..N |-> s[i].page]
  <2>1. DOMAIN s = 1..N
    BY <1>1 DEF N
  <2> QED BY <2>1 DEF Parent, Internal, N
<1>11. n = [kind |-> "internal", keys |-> n.keys, children |-> n.children]
  BY DEF Parent, Internal
<1> HIDE DEF n
<1>12. \A i \in 1..(N - 1) : i \in 1..N /\ i + 1 \in 1..N /\ i < i + 1
  BY <1>1
<1>13. /\ n.keys \in Seq(TreeKeys) /\ Len(n.keys) = N - 1 /\ DOMAIN n.keys = 1..(N - 1)
       /\ n.children \in Seq(Nat) /\ Len(n.children) = N /\ DOMAIN n.children = 1..N
  <2>1. N - 1 \in Nat
    BY <1>1
  <2>2. \A i \in 1..N : s[i].page \in Nat
    BY <1>3
  <2> QED BY <1>1, <1>3, <1>10, <1>12, <2>1, <2>2
<1>14. n \in InternalPages /\ Len(n.children) = Len(n.keys) + 1
  BY <1>1, <1>11, <1>13 DEF InternalPages
<1>15. \A i, j \in 1..N : i < j => Less(s[i].first, s[j].first)
  BY <1>3, <1>4
<1>16. \A i, j \in DOMAIN n.keys : i < j => ~Less(n.keys[j], n.keys[i])
  <2> SUFFICES ASSUME NEW i \in 1..(N - 1), NEW j \in 1..(N - 1), i < j
               PROVE  ~Less(n.keys[j], n.keys[i])
    BY <1>13
  <2>1. i + 1 \in 1..N /\ j + 1 \in 1..N /\ i + 1 < j + 1
    BY <1>12
  <2>2. Less(s[i + 1].first, s[j + 1].first) /\ s[i + 1].first \in TreeKeys
        /\ s[j + 1].first \in TreeKeys
    BY <1>3, <1>15, <2>1
  <2> QED BY <1>10, <2>2, KeyOrder
<1>17. ASSUME NEW i \in 1..N PROVE ChildHolds(file, Len(file) + 1, n, h, g, i)
  <2> DEFINE c == n.children[i]
  <2>1. c = s[i].page /\ c \in 1..((Len(file) + 1) - 1)
    BY <1>1, <1>3, <1>10
  <2>2. ASSUME NEW k \in g[c].marks, NEW j \in 1..(N - 1)
        PROVE  IF j < i THEN ~Less(k, n.keys[j]) /\ ~Less(k, n.keys[j])
                        ELSE Less(k, n.keys[j]) /\ ~Less(n.keys[j], k)
    <3>1. /\ j + 1 \in 1..N /\ n.keys[j] = s[j + 1].first /\ k \in TreeKeys
          /\ ~Less(k, s[i].first) /\ s[i].first \in TreeKeys /\ s[j + 1].first \in TreeKeys
      BY <1>3, <1>10, <1>12, <2>1, <2>2
    <3>2. CASE j < i
      <4>1. j + 1 = i \/ j + 1 < i
        BY <3>2
      <4>2. j + 1 = i \/ Less(s[j + 1].first, s[i].first)
        BY <1>15, <3>1, <4>1
      <4> QED BY <3>1, <3>2, <4>2, KeyOrder
    <3>3. CASE ~(j < i)
      <4>1. i < j + 1
        BY <3>3
      <4>2. Less(k, s[j + 1].first)
        BY <1>4, <2>1, <3>1, <4>1
      <4> QED BY <3>1, <3>3, <4>2, KeyOrder
    <3> QED BY <3>2, <3>3
  <2>3. \A k \in g[c].marks : Belongs(n, i, k) /\ Between(n, i, k)
    BY <1>13, <2>2 DEF Belongs, Between
  <2>4. /\ g[c].marks \subseteq h.marks /\ file[c].kind # "overflow"
        /\ \A k \in DOMAIN g[c].map : k \in g[c].marks /\ k \in DOMAIN h.map /\ h.map[k] = g[c].map[k]
    BY <1>3, <1>5, <1>6, <1>7, <2>1
  <2> HIDE DEF c
  <2> QED BY <2>1, <2>3, <2>4 DEF ChildHolds, c
<1>18. \A i \in DOMAIN n.keys : n.keys[i] \in h.marks
  <2> SUFFICES ASSUME NEW i \in 1..(N - 1) PROVE n.keys[i] \in h.marks
    BY <1>13
  <2>1. n.keys[i] = s[i + 1].first /\ i + 1 \in 1..N
    BY <1>10, <1>12
  <2> QED BY <1>3, <1>5, <2>1
<1>19. \A k \in DOMAIN h.map : \E i \in DOMAIN n.children : k \in DOMAIN g[n.children[i]].map
  <2>1. \A k \in DOMAIN h.map : \E i \in 1..N : k \in DOMAIN g[s[i].page].map
    BY <1>7
  <2>2. \A i \in 1..N : n.children[i] = s[i].page
    BY <1>10
  <2> QED BY <1>13, <2>1, <2>2
<1>20. InternalHolds(file, Len(file) + 1, n, h, g)
  BY <1>13, <1>14, <1>16, <1>17, <1>18, <1>19 DEF InternalHolds
<1>21. s[1].first \in h.marks
  <2>1. 1 \in 1..N
    BY <1>1
  <2> QED BY <1>3, <1>5, <2>1
<1>22. \A k \in DOMAIN h.map : k \in DOMAIN map /\ h.map[k] = map[k]
  BY <1>3, <1>6, <1>7
<1> QED BY <1>6, <1>8, <1>9, <1>20, <1>21, <1>22 DEF n

-----------------------------------------------------------------------------
(***************************************************************************)
(* The builder: parents                                                    *)
(***************************************************************************)

\* A parent of one child or two fits a page.
LEMMA SmallParentFits ==
  ASSUME NEW s \in Seq(Child), Len(s) \in 1..2
  PROVE  Fits(Parent(s))
<1> DEFINE N == Len(s)
           n == Parent(s)
           sizes == [i \in DOMAIN n.keys |-> ChildSize(n.keys[i])]
<1>1. BodySize \in Nat /\ BodySize > 12
  BY BTreeAssumption
<1>2. n.kind = "internal" /\ n.keys = [i \in 1..(N - 1) |-> s[i + 1].first]
  BY DEF Parent, Internal
<1>3. N \in 1..2 /\ DOMAIN n.keys = 1..(N - 1) /\ N - 1 \in 0..1
  BY <1>2
<1>4. EncodedSize(n) = 2 + 8 + Total(sizes)
  BY <1>2 DEF EncodedSize
<1> HIDE DEF N
<1>5. Len(sizes) = N - 1 /\ \A i \in 1..(N - 1) : sizes[i] = ChildSize(n.keys[i])
  BY <1>3
<1> HIDE DEF sizes
<1>6. PICK f : IsTotal(sizes, f) /\ Total(sizes) = f[Len(sizes)]
  BY <1>3, <1>5, TotalOf
<1>7. f[0] = 0 /\ \A i \in 1..(N - 1) : f[i] = f[i - 1] + sizes[i]
  BY <1>5, <1>6 DEF IsTotal
<1>8. CASE N - 1 = 0
  BY <1>1, <1>4, <1>5, <1>6, <1>7, <1>8 DEF Fits
<1>9. CASE N - 1 = 1
  <2>1. n.keys[1] = s[2].first /\ 2 \in 1..N
    BY <1>2, <1>3, <1>9
  <2>2. n.keys[1] \in TreeKeys
    <3>1. s[2] \in Child
      BY <2>1 DEF N
    <3> QED BY <2>1, <3>1 DEF Child
  <2>3. ChildSize(n.keys[1]) \in Int /\ 2 + 8 + ChildSize(n.keys[1]) <= BodySize
    <3>1. Len(n.keys[1]) \in Nat
      BY <2>2, TreeKeysAre DEF Bytes
    <3> QED BY <2>2, <3>1, SizeAssumption DEF ChildSize
  <2>4. f[1] = f[0] + sizes[1] /\ sizes[1] = ChildSize(n.keys[1])
    BY <1>5, <1>7, <1>9
  <2> QED BY <1>1, <1>4, <1>5, <1>6, <1>7, <1>9, <2>3, <2>4 DEF Fits
<1> QED BY <1>3, <1>8, <1>9

\* Writing the node of a sound file leaves a sound file.
LEMMA StoresSound ==
  ASSUME NEW file, NEW g, FileHolds(file, g), Sound(file), NEW n, NEW h,
         NodeHolds(file, Len(file) + 1, n, h, g), Fits(n)
  PROVE  LET later == Append(file, Stored(n))
             l == Put(g, Len(file), h)
         IN  /\ FileHolds(later, l) /\ Sound(later) /\ Extends(file, g, later, l)
             /\ Len(later) = Len(file) + 1 /\ l[Len(file) + 1] = h
             /\ later[Len(file) + 1] = n /\ n.kind # "overflow"
<1> DEFINE N == Len(file)
           later == Append(file, Stored(n))
           l == Put(g, Len(file), h)
<1>1. /\ FileHolds(later, l) /\ Extends(file, g, later, l)
      /\ Len(later) = N + 1 /\ l[N + 1] = h
      /\ later[N + 1] = Stored(n) /\ Stored(n).kind # "overflow"
  BY StoresNode
<1>2. Stored(n) = n
  BY DEF Stored
<1>3. n # Damaged
  <2>1. LeafHolds(file, N + 1, n, h) \/ InternalHolds(file, N + 1, n, h, g)
    BY DEF NodeHolds
  <2> QED BY <2>1 DEF LeafHolds, InternalHolds, LeafPages, InternalPages, Damaged
<1>4. N \in Nat
  BY DEF FileHolds
<1> HIDE DEF later, l, N
<1>5. \A p \in 1..(N + 1) : p \in 1..N \/ p = N + 1
  BY <1>4
<1>6. Sound(later)
  <2>1. \A p \in 1..N : later[p] = file[p] /\ file[p] # Damaged
    BY <1>1 DEF Extends, Sound, N
  <2> QED BY <1>1, <1>2, <1>3, <1>5, <2>1 DEF Sound
<1> QED BY <1>1, <1>2, <1>6 DEF later, l, N

\* The value of an entry of page p is in a chain, and x is one of its pages.
Spills(file, p, e, x) ==
  \E v \in Values : /\ EntryHolds(file, p, e, v) /\ e.head # InvalidPageID
                    /\ x \in e.head..(e.head + Parts(v) - 1)

\* A page is the child of a node, or in the chain of a leaf's entry.
Held(file, x) ==
  \E q \in 1..Len(file) :
    \/ file[q].kind = "internal" /\ x \in ToSet(file[q].children)
    \/ file[q].kind = "leaf" /\ \E e \in ToSet(file[q].entries) : Spills(file, q, e, x)

\* A page nothing holds is one of P, or in the chain of an entry of E, which no
\* leaf has yet.
Covered(file, P, E) ==
  \A x \in 1..Len(file) :
    Held(file, x) \/ x \in P \/ \E e \in E : Spills(file, Len(file) + 1, e, x)

PagesIn(C) == {c.page : c \in C}

\* The file goes on in a later one.
Continues(file, later) ==
  /\ file \in Seq(Page) /\ later \in Seq(Page) /\ Len(file) <= Len(later)
  /\ \A i \in 1..Len(file) : later[i] = file[i]

\* What holds a page holds it in a later file.
LEMMA SpillStays ==
  ASSUME NEW file, NEW later, Continues(file, later), NEW p \in Nat, NEW q \in Nat,
         p <= q, p <= Len(file) + 1, NEW e, NEW x, Spills(file, p, e, x)
  PROVE  Spills(later, q, e, x)
<1>1. PICK v \in Values : /\ EntryHolds(file, p, e, v) /\ e.head # InvalidPageID
                          /\ x \in e.head..(e.head + Parts(v) - 1)
  BY DEF Spills
<1>2. EntryHolds(later, q, e, v)
  <2>1. /\ file \in Seq(Page) /\ later \in Seq(Page) /\ Len(file) <= Len(later)
        /\ \A i \in 1..Len(file) : later[i] = file[i]
    BY DEF Continues
  <2> QED BY <1>1, <2>1, EntryStays
<1> QED BY <1>1, <1>2 DEF Spills

LEMMA HeldStays ==
  ASSUME NEW file, NEW later, Continues(file, later), NEW x, Held(file, x)
  PROVE  Held(later, x)
<1>1. PICK q \in 1..Len(file) :
         \/ file[q].kind = "internal" /\ x \in ToSet(file[q].children)
         \/ file[q].kind = "leaf" /\ \E e \in ToSet(file[q].entries) : Spills(file, q, e, x)
  BY DEF Held
<1>2. Len(file) \in Nat /\ Len(later) \in Nat /\ Len(file) <= Len(later) /\ later[q] = file[q]
  BY DEF Continues
<1>3. q \in 1..Len(later) /\ q \in Nat /\ q <= q /\ q <= Len(file) + 1
  BY <1>2
<1>4. CASE file[q].kind = "internal" /\ x \in ToSet(file[q].children)
  BY <1>2, <1>3, <1>4 DEF Held
<1>5. CASE file[q].kind = "leaf" /\ \E e \in ToSet(file[q].entries) : Spills(file, q, e, x)
  <2>1. PICK e \in ToSet(file[q].entries) : Spills(file, q, e, x)
    BY <1>5
  <2>2. Spills(later, q, e, x)
    BY <1>3, <2>1, SpillStays
  <2> QED BY <1>2, <1>3, <1>5, <2>1, <2>2 DEF Held
<1> QED BY <1>1, <1>4, <1>5

\* How long the file with a value's chain is.
LEMMA ChainIsLong ==
  ASSUME NEW file \in Seq(Page), NEW v \in Values, NEW h
  PROVE  Len(file \o Overflow(v, h)) = Len(file) + Parts(v)
<1> DEFINE M == Parts(v)
           c == Overflow(v, h)
           S == Page \cup {c[i] : i \in 1..M}
<1>1. M \in Nat
  BY PartsAre
<1>2. c = [i \in 1..M |-> c[i]]
  BY DEF Overflow
<1>3. \A i \in 1..M : c[i] \in S
  OBVIOUS
<1>4. file \in Seq(S)
  <2>1. Page \subseteq S
    OBVIOUS
  <2> HIDE DEF S
  <2>2. file \in [1..Len(file) -> S] /\ Len(file) \in Nat
    BY <2>1
  <2> QED BY <2>2
<1> HIDE DEF S, c, M
<1>5. c \in Seq(S) /\ Len(c) = M
  BY <1>1, <1>2, <1>3
<1>6. Len(file \o c) = Len(file) + Len(c)
  BY <1>4, <1>5, ConcatProperties
<1> QED BY <1>5, <1>6 DEF c, M

\* The pages of a new chain are its entry's.
LEMMA ChainCovers ==
  ASSUME NEW file, NEW g, FileHolds(file, g), NEW k \in TreeKeys, NEW v \in Values,
         NEW made, made = MakeEntry(file, k, v), NEW P, NEW E, Covered(file, P, E),
         NEW F, E \subseteq F, made.entry \in F
  PROVE  Covered(made.pages, P, F)
<1> DEFINE N == Len(file)
           M == Len(made.pages)
           e == made.entry
<1>1. PICK l : /\ FileHolds(made.pages, l) /\ Extends(file, g, made.pages, l)
               /\ EntryHolds(made.pages, M + 1, e, v)
  BY MakesEntry
<1>2. file \in Seq(Page) /\ N \in Nat
  BY DEF FileHolds
<1>3. /\ Continues(file, made.pages) /\ N <= M /\ M \in Nat
  BY <1>1, <1>2 DEF Extends, Continues
<1>4. ASSUME NEW x \in 1..N
      PROVE  Held(made.pages, x) \/ x \in P \/ \E d \in F : Spills(made.pages, M + 1, d, x)
  <2>1. CASE Held(file, x)
    BY <1>3, <2>1, HeldStays
  <2>2. CASE \E d \in E : Spills(file, N + 1, d, x)
    <3>1. PICK d \in E : Spills(file, N + 1, d, x)
      BY <2>2
    <3>2. N + 1 \in Nat /\ M + 1 \in Nat /\ N + 1 <= M + 1 /\ N + 1 <= Len(file) + 1
      BY <1>2, <1>3
    <3> HIDE DEF N, M
    <3>3. Spills(made.pages, M + 1, d, x)
      BY <1>3, <3>1, <3>2, SpillStays
    <3> QED BY <3>1, <3>3
  <2> QED BY <2>1, <2>2 DEF Covered
<1>5. ASSUME NEW x \in (N + 1)..M
      PROVE  Spills(made.pages, M + 1, e, x)
  <2>1. CASE v.len <= MaxInline
    <3>1. made.pages = file
      BY <2>1 DEF MakeEntry
    <3> QED BY <1>2, <3>1
  <2>2. CASE ~(v.len <= MaxInline)
    <3>1. made.pages = file \o Overflow(v, N + 1) /\ e.head = N + 1
      BY <2>2 DEF MakeEntry
    <3>2. M = N + Parts(v) /\ Parts(v) \in Nat
      BY <1>2, <3>1, ChainIsLong, PartsAre
    <3> HIDE DEF N, M, e
    <3>3. e.head # InvalidPageID /\ x \in e.head..(e.head + Parts(v) - 1)
      BY <1>2, <3>1, <3>2 DEF InvalidPageID
    <3> QED BY <1>1, <3>3 DEF Spills
  <2> QED BY <2>1, <2>2
<1>6. \A x \in 1..M : x \in 1..N \/ x \in (N + 1)..M
  BY <1>2, <1>3
<1> HIDE DEF N, M, e
<1>7. e \in F
  BY DEF e
<1> QED BY <1>4, <1>5, <1>6, <1>7 DEF Covered, M

\* A node at the end of the file holds what it has.
LEMMA NodeCovers ==
  ASSUME NEW file \in Seq(Page), NEW later \in Seq(Page), NEW n, later = Append(file, n),
         NEW P, NEW E, Covered(file, P, E), NEW Q, NEW F, Len(file) + 1 \in Q,
         \A x \in P : x \in Q \/ (n.kind = "internal" /\ x \in ToSet(n.children)),
         \A e \in E : e \in F \/ (n.kind = "leaf" /\ e \in ToSet(n.entries))
  PROVE  Covered(later, Q, F)
<1> DEFINE N == Len(file)
<1>1. /\ N \in Nat /\ Len(later) = N + 1 /\ later[N + 1] = n
      /\ \A i \in 1..N : later[i] = file[i]
  OBVIOUS
<1>2. Continues(file, later) /\ N + 1 \in 1..Len(later)
  BY <1>1 DEF Continues
<1>3. ASSUME NEW x \in 1..N
      PROVE  Held(later, x) \/ x \in Q \/ \E e \in F : Spills(later, Len(later) + 1, e, x)
  <2>1. CASE Held(file, x)
    BY <1>2, <2>1, HeldStays
  <2>2. CASE x \in P
    <3>1. n.kind = "internal" /\ x \in ToSet(n.children) => Held(later, x)
      BY <1>1, <1>2 DEF Held
    <3> QED BY <2>2, <3>1
  <2>3. CASE \E e \in E : Spills(file, N + 1, e, x)
    <3>1. PICK e \in E : Spills(file, N + 1, e, x)
      BY <2>3
    <3>2. N + 1 \in Nat /\ N + 1 <= N + 1 /\ N + 1 <= Len(file) + 1
          /\ Len(later) + 1 \in Nat /\ N + 1 <= Len(later) + 1
      BY <1>1
    <3>3. Spills(later, N + 1, e, x) /\ Spills(later, Len(later) + 1, e, x)
      <4> HIDE DEF N
      <4> QED BY <1>2, <3>1, <3>2, SpillStays
    <3>4. n.kind = "leaf" /\ e \in ToSet(n.entries) => Held(later, x)
      BY <1>1, <1>2, <3>3 DEF Held
    <3> QED BY <3>1, <3>3, <3>4
  <2> QED BY <2>1, <2>2, <2>3 DEF Covered
<1>4. \A x \in 1..Len(later) : x \in 1..N \/ x = N + 1
  BY <1>1
<1> QED BY <1>3, <1>4 DEF Covered

\* What is known of the levels of a builder at work.
Parents(b, g, map) ==
  /\ FileHolds(b.pages, g) /\ Sound(b.pages)
  /\ IsRow(b.pages, g, map, b.level) /\ IsRow(b.pages, g, map, b.group)
  /\ Precede(g, Members(b.level), Members(b.group))
  /\ Len(b.group) <= 2 \/ Fits(Parent(b.group))

\* What a flushed group becomes: one node more on the level.
Flushed(b, g, map, d, l) ==
  /\ Extends(b.pages, g, d.pages, l) /\ Parents(d, l, map)
  /\ d.group = <<>> /\ Len(d.level) = Len(b.level) + 1
  /\ Holding(l, Members(d.level)) = Holding(g, Members(b.level) \cup Members(b.group))
  /\ \A x : AllLower(g, Members(b.level) \cup Members(b.group), x) =>
              AllLower(l, Members(d.level), x)

LEMMA FlushParentHolds ==
  ASSUME NEW b, NEW g, NEW map, Parents(b, g, map), Len(b.group) >= 1
  PROVE  \E l : Flushed(b, g, map, FlushParent(b), l)
<1> DEFINE d == FlushParent(b)
           n == Parent(b.group)
           h == Joint(g, b.group, map)
           N == Len(b.pages)
           later == Append(b.pages, Stored(n))
           l == Put(g, N, h)
           c == [first |-> b.group[1].first, page |-> N + 1]
<1>1. /\ FileHolds(b.pages, g) /\ Sound(b.pages)
      /\ IsRow(b.pages, g, map, b.level) /\ IsRow(b.pages, g, map, b.group)
      /\ Precede(g, Members(b.level), Members(b.group))
      /\ Len(b.group) <= 2 \/ Fits(n)
  BY DEF Parents
<1>2. N \in Nat /\ Len(b.group) \in Nat /\ b.group \in Seq(Child) /\ Len(b.level) \in Nat
  BY <1>1 DEF FileHolds, IsRow
<1>3. Fits(n)
  <2>1. Len(b.group) <= 2 => Len(b.group) \in 1..2
    <3> DEFINE m == Len(b.group)
    <3>1. m \in Nat /\ m >= 1
      BY <1>2
    <3> HIDE DEF m
    <3>2. m <= 2 => m \in 1..2
      BY <3>1
    <3> QED BY <3>2 DEF m
  <2> QED BY <1>1, <1>2, <2>1, SmallParentFits
<1>4. d.pages = later /\ d.group = <<>> /\ d.level = Append(b.level, c)
  BY DEF FlushParent
<1>5. /\ IsRecord(h) /\ InternalHolds(b.pages, N + 1, n, h, g)
      /\ c.first \in h.marks /\ \A k \in h.marks : ~Less(k, c.first)
      /\ \A k \in DOMAIN h.map : k \in DOMAIN map /\ h.map[k] = map[k]
      /\ DOMAIN h.map = Holding(g, Members(b.group))
  BY <1>1, ParentHolds
<1>6. h.marks = UNION {g[x.page].marks : x \in Members(b.group)}
  BY DEF Joint
<1>7. NodeHolds(b.pages, N + 1, n, h, g)
  BY <1>5 DEF NodeHolds
<1> HIDE DEF n, h
<1>8. /\ FileHolds(later, l) /\ Sound(later) /\ Extends(b.pages, g, later, l)
      /\ Len(later) = N + 1 /\ l[N + 1] = h
      /\ later[N + 1].kind # "overflow"
  BY <1>1, <1>3, <1>7, StoresSound
<1> HIDE DEF later, l, d
<1>9. /\ IsRow(later, l, map, b.level)
      /\ \A x \in Members(b.level) : l[x.page] = g[x.page]
  BY <1>1, <1>2, <1>8, RowStays
<1>10. ChildOf(later, l, map, c) /\ l[c.page] = h
  <2>1. c \in Child
    <3>1. IsRecord(h) /\ c.first \in TreeKeys
      BY <1>5 DEF IsRecord
    <3> QED BY <1>2, <3>1 DEF Child
  <2>2. N + 1 \in 1..(N + 1)
    BY <1>2
  <2> QED BY <1>5, <1>8, <2>1, <2>2 DEF ChildOf
<1>11. 1 \in 1..Len(b.group) /\ b.group[1] \in Members(b.group)
  <2>1. 1 \in 1..Len(b.group)
    BY <1>2
  <2> QED BY <2>1 DEF Members
<1>12. AllLower(l, Members(b.level), c)
  <2>1. \A x \in Members(b.level) : Lower(g, x, b.group[1])
    BY <1>1, <1>11 DEF Precede, AllLower
  <2> QED BY <1>9, <2>1 DEF AllLower, Lower
<1> HIDE DEF c
<1>13. /\ IsRow(later, l, map, d.level) /\ Members(d.level) = Members(b.level) \cup {c}
       /\ Len(d.level) = Len(b.level) + 1
  <2>1. /\ IsRow(later, l, map, b.level) /\ ChildOf(later, l, map, c)
        /\ AllLower(l, Members(b.level), c)
    BY <1>9, <1>10, <1>12
  <2>2. Grown(later, l, map, b.level, c, d.level)
    BY <1>4, <2>1, RowGrows
  <2> QED BY <2>2 DEF Grown
<1>14. Holding(l, Members(d.level)) = Holding(g, Members(b.level) \cup Members(b.group))
  BY <1>5, <1>9, <1>10, <1>13 DEF Holding
<1>15. ASSUME NEW x, AllLower(g, Members(b.level) \cup Members(b.group), x)
       PROVE  AllLower(l, Members(d.level), x)
  BY <1>6, <1>9, <1>10, <1>13, <1>15 DEF AllLower, Lower
<1>16. Parents(d, l, map)
  <2>1. IsRow(later, l, map, <<>>) /\ Members(<<>>) = {} /\ Len(<<>>) <= 2
    BY NoRow
  <2>2. Precede(l, Members(d.level), {})
    BY DEF Precede
  <2> QED BY <1>4, <1>8, <1>13, <2>1, <2>2 DEF Parents
<1>17. Flushed(b, g, map, d, l)
  BY <1>4, <1>8, <1>13, <1>14, <1>15, <1>16 DEF Flushed
<1> QED BY <1>17 DEF d

\* A level is being raised, and i of its nodes have parents or are in the group.
Rest(level, i) == {level[j] : j \in (i + 1)..Len(level)}
Seen(b) == Members(b.level) \cup Members(b.group)
Raising(b, g, map, level, i) ==
  /\ b = [pages |-> b.pages, group |-> b.group, level |-> b.level]
  /\ Parents(b, g, map) /\ IsRow(b.pages, g, map, level)
  /\ \A j \in (i + 1)..Len(level) : AllLower(g, Seen(b), level[j])
  /\ DOMAIN map \subseteq Holding(g, Seen(b) \cup Rest(level, i))
  /\ i = 0 \/ Len(b.group) >= 1
  /\ 2 * Len(b.level) + Len(b.group) <= i

\* There is room in the group for the next node.
Ready(b, g, map, level, i, c, r, l) ==
  /\ r = [pages |-> r.pages, group |-> r.group, level |-> r.level]
  /\ Extends(b.pages, g, r.pages, l) /\ Parents(r, l, map)
  /\ IsRow(r.pages, l, map, level)
  /\ \A j \in i..Len(level) : AllLower(l, Seen(r), level[j])
  /\ DOMAIN map \subseteq Holding(l, Seen(r) \cup Rest(level, i - 1))
  /\ Len(r.group) < 2 \/ Fits(Parent(Append(r.group, c)))
  /\ 2 * Len(r.level) + Len(r.group) <= i - 1

LEMMA AddChildHolds ==
  ASSUME NEW b, NEW g, NEW map, NEW level, NEW i \in 1..Len(level), Len(level) \in Nat,
         Raising(b, g, map, level, i - 1), NEW d, d = AddChild(b, level[i])
  PROVE  \E l : Extends(b.pages, g, d.pages, l) /\ Raising(d, l, map, level, i)
<1> DEFINE c == level[i]
           room == Len(b.group) < 2 \/ Fits(Parent(Append(b.group, c)))
           r == IF room THEN b ELSE FlushParent(b)
           N == Len(level)
<1>0. N \in Nat /\ i \in Nat /\ i >= 1 /\ i <= N /\ (i - 1) + 1 = i
  BY DEF N
<1>1. /\ b = [pages |-> b.pages, group |-> b.group, level |-> b.level]
      /\ Parents(b, g, map) /\ IsRow(b.pages, g, map, level)
      /\ \A j \in i..N : AllLower(g, Seen(b), level[j])
      /\ DOMAIN map \subseteq Holding(g, Seen(b) \cup Rest(level, i - 1))
      /\ 2 * Len(b.level) + Len(b.group) <= i - 1
  BY <1>0 DEF Raising, N
<1>2. /\ Len(b.pages) \in Nat /\ b.pages \in Seq(Page) /\ Len(b.level) \in Nat
      /\ Len(b.group) \in Nat
  BY <1>1 DEF Parents, FileHolds, IsRow
<1>3. \E l : Ready(b, g, map, level, i, c, r, l)
  <2>1. CASE room
    <3>1. r = b
      BY <2>1
    <3>2. Extends(b.pages, g, b.pages, g)
      BY <1>2 DEF Extends
    <3>3. Len(b.group) < 2 \/ Fits(Parent(Append(b.group, c)))
      BY <2>1
    <3> HIDE DEF room, r, c
    <3> QED BY <1>1, <3>1, <3>2, <3>3 DEF Ready, N
  <2>2. CASE ~room
    <3>1. r = FlushParent(b) /\ ~(Len(b.group) < 2)
      BY <2>2
    <3> HIDE DEF room, r, c
    <3>2. Len(b.group) >= 1 /\ Len(b.group) >= 2
      BY <1>2, <3>1
    <3>3. PICK l : Flushed(b, g, map, r, l)
      BY <1>1, <3>1, <3>2, FlushParentHolds
    <3>4. /\ Extends(b.pages, g, r.pages, l) /\ Parents(r, l, map)
          /\ r.group = <<>> /\ Len(r.level) = Len(b.level) + 1
          /\ Holding(l, Members(r.level)) = Holding(g, Seen(b))
          /\ \A x : AllLower(g, Seen(b), x) => AllLower(l, Members(r.level), x)
      BY <3>3 DEF Flushed, Seen
    <3>5. Seen(r) = Members(r.level) /\ Len(r.group) = 0
      BY <3>4 DEF Seen, Members
    <3>6. IsRow(r.pages, l, map, level) /\ \A x \in Members(level) : l[x.page] = g[x.page]
      BY <1>1, <1>2, <3>4, RowStays
    <3>7. Rest(level, i - 1) \subseteq Members(level)
      <4>1. (i - 1 + 1)..Len(level) \subseteq 1..Len(level)
        BY <1>0 DEF N
      <4> QED BY <4>1 DEF Rest, Members
    <3>8. DOMAIN map \subseteq Holding(l, Seen(r) \cup Rest(level, i - 1))
      <4>1. Holding(l, Rest(level, i - 1)) = Holding(g, Rest(level, i - 1))
        BY <3>6, <3>7 DEF Holding
      <4>2. \A h, C, D : Holding(h, C \cup D) = Holding(h, C) \cup Holding(h, D)
        BY DEF Holding
      <4> QED BY <1>1, <3>4, <3>5, <4>1, <4>2
    <3>9. r = [pages |-> r.pages, group |-> r.group, level |-> r.level]
      BY <3>1 DEF FlushParent
    <3>10. 2 * Len(r.level) + Len(r.group) <= i - 1
      <4> DEFINE u == Len(b.level)
                 v == Len(b.group)
      <4>1. u \in Nat /\ v \in Nat /\ v >= 2 /\ 2 * u + v <= i - 1
        BY <1>1, <1>2, <3>2
      <4>2. Len(r.level) = u + 1 /\ Len(r.group) = 0
        BY <3>4, <3>5
      <4> HIDE DEF u, v
      <4>3. 2 * (u + 1) + 0 <= i - 1
        BY <1>0, <4>1
      <4> QED BY <4>2, <4>3
    <3>11. \A j \in i..Len(level) : AllLower(l, Seen(r), level[j])
      BY <1>1, <3>4, <3>5 DEF N
    <3>12. Len(r.group) < 2
      BY <3>5
    <3> QED BY <3>4, <3>6, <3>8, <3>9, <3>10, <3>11, <3>12 DEF Ready
  <2> QED BY <2>1, <2>2
<1>4. PICK l : Ready(b, g, map, level, i, c, r, l)
  BY <1>3
<1>5. d = [r EXCEPT !.group = Append(@, c)]
  BY DEF AddChild
<1> HIDE DEF room, r
<1>6. /\ r = [pages |-> r.pages, group |-> r.group, level |-> r.level]
      /\ Extends(b.pages, g, r.pages, l) /\ Parents(r, l, map)
      /\ IsRow(r.pages, l, map, level)
      /\ \A j \in i..N : AllLower(l, Seen(r), level[j])
      /\ DOMAIN map \subseteq Holding(l, Seen(r) \cup Rest(level, i - 1))
      /\ Len(r.group) < 2 \/ Fits(Parent(Append(r.group, c)))
      /\ 2 * Len(r.level) + Len(r.group) <= i - 1
  BY <1>4 DEF Ready, N
<1>7. d = [pages |-> r.pages, group |-> Append(r.group, c), level |-> r.level]
  <2> DEFINE x == r.pages
             y == r.group
             z == r.level
  <2>1. r = [pages |-> x, group |-> y, level |-> z]
    BY <1>6
  <2> HIDE DEF x, y, z
  <2>2. d = [pages |-> x, group |-> Append(y, c), level |-> z]
    BY <1>5, <2>1
  <2> QED BY <2>2 DEF x, y, z
<1>8. d.pages = r.pages /\ d.group = Append(r.group, c) /\ d.level = r.level
  BY <1>7
<1>9. /\ FileHolds(r.pages, l) /\ Sound(r.pages)
      /\ IsRow(r.pages, l, map, r.level) /\ IsRow(r.pages, l, map, r.group)
      /\ Precede(l, Members(r.level), Members(r.group))
      /\ Len(r.group) \in Nat /\ Len(r.level) \in Nat
  BY <1>6 DEF Parents, IsRow
<1>10. i \in i..N /\ ChildOf(r.pages, l, map, c)
  BY <1>0, <1>6 DEF IsRow, N
<1>11. AllLower(l, Members(r.group), c) /\ AllLower(l, Members(r.level), c)
  BY <1>6, <1>10 DEF AllLower, Seen
<1>12. Grown(r.pages, l, map, r.group, c, d.group)
  BY <1>8, <1>9, <1>10, <1>11, RowGrows
<1>13. /\ IsRow(r.pages, l, map, d.group) /\ Members(d.group) = Members(r.group) \cup {c}
       /\ Len(d.group) = Len(r.group) + 1
  BY <1>12 DEF Grown
<1>14. Precede(l, Members(d.level), Members(d.group))
  BY <1>8, <1>9, <1>11, <1>13 DEF Precede
<1>15. Len(d.group) <= 2 \/ Fits(Parent(d.group))
  <2>1. Len(r.group) < 2 => Len(d.group) <= 2
    BY <1>9, <1>13
  <2> QED BY <1>6, <1>8, <2>1
<1>16. Parents(d, l, map)
  BY <1>8, <1>9, <1>13, <1>14, <1>15 DEF Parents
<1>17. Seen(d) = Seen(r) \cup {c}
  BY <1>8, <1>13 DEF Seen
<1>18. ASSUME NEW j \in (i + 1)..N PROVE AllLower(l, Seen(d), level[j])
  <2>1. j \in i..N /\ i < j /\ i \in 1..N /\ j \in 1..N
    BY <1>0
  <2>2. Lower(l, c, level[j])
    BY <1>6, <2>1 DEF IsRow, N
  <2> QED BY <1>6, <1>17, <2>1, <2>2 DEF AllLower
<1>19. DOMAIN map \subseteq Holding(l, Seen(d) \cup Rest(level, i))
  <2>1. (i - 1 + 1)..N = (i + 1)..N \cup {i}
    BY <1>0
  <2>2. Rest(level, i - 1) = Rest(level, i) \cup {c}
    BY <2>1 DEF Rest, N
  <2>3. Seen(r) \cup Rest(level, i - 1) = Seen(d) \cup Rest(level, i)
    BY <1>17, <2>2
  <2> QED BY <1>6, <2>3
<1>20. Len(d.group) >= 1 /\ 2 * Len(d.level) + Len(d.group) <= i
  <2> DEFINE u == Len(r.level)
             v == Len(r.group)
  <2>1. u \in Nat /\ v \in Nat /\ 2 * u + v <= i - 1 /\ Len(d.group) = v + 1 /\ Len(d.level) = u
    BY <1>6, <1>8, <1>9, <1>13
  <2> HIDE DEF u, v
  <2>2. v + 1 >= 1 /\ 2 * u + (v + 1) <= i
    BY <1>0, <2>1
  <2> QED BY <2>1, <2>2
<1>21. Raising(d, l, map, level, i)
  <2>1. d = [pages |-> d.pages, group |-> d.group, level |-> d.level]
    BY <1>7
  <2>2. IsRow(d.pages, l, map, level)
    BY <1>6, <1>8
  <2> HIDE DEF c
  <2> QED BY <1>16, <1>18, <1>19, <1>20, <2>1, <2>2 DEF Raising, N
<1>22. Extends(b.pages, g, d.pages, l)
  BY <1>6, <1>8
<1> QED BY <1>21, <1>22

\* A row with one more.
LEMMA MembersGrow ==
  ASSUME NEW S, NEW s \in Seq(S), NEW c, NEW t, t = Append(s, c)
  PROVE  Members(s) \subseteq Members(t) /\ c \in Members(t) /\ ToSet(s) \subseteq ToSet(t)
         /\ c \in ToSet(t)
<1> DEFINE T == S \cup {c}
           N == Len(s)
<1>1. s \in Seq(T) /\ c \in T /\ N \in Nat
  <2>1. S \subseteq T
    OBVIOUS
  <2> HIDE DEF T
  <2>2. s \in [1..Len(s) -> T] /\ Len(s) \in Nat
    BY <2>1
  <2> QED BY <2>2 DEF T
<1> HIDE DEF T
<1>2. /\ DOMAIN s = 1..N /\ DOMAIN t = 1..(N + 1) /\ Len(t) = N + 1 /\ t[N + 1] = c
      /\ \A i \in 1..N : t[i] = s[i]
  BY <1>1
<1>3. N + 1 \in 1..(N + 1) /\ 1..N \subseteq 1..(N + 1)
  BY <1>1
<1> HIDE DEF N
<1>4. Len(s) = N
  BY DEF N
<1> QED BY <1>2, <1>3, <1>4 DEF Members, ToSet

\* A parent holds the children of its group.
LEMMA FlushParentCovers ==
  ASSUME NEW b, b.pages \in Seq(Page), b.level \in Seq(Child), b.group \in Seq(Child),
         NEW d, d = FlushParent(b), d.pages \in Seq(Page), Sound(d.pages),
         NEW R, Covered(b.pages, PagesIn(Seen(b) \cup R), {})
  PROVE  Covered(d.pages, PagesIn(Seen(d) \cup R), {})
<1> DEFINE n == Parent(b.group)
           N == Len(b.pages)
           c == [first |-> b.group[1].first, page |-> N + 1]
           P == PagesIn(Seen(b) \cup R)
           Q == PagesIn(Seen(d) \cup R)
<1>1. d.pages = Append(b.pages, Stored(n)) /\ d.level = Append(b.level, c) /\ c.page = N + 1
  BY DEF FlushParent
<1>2. Stored(n) = n
  <2>1. N + 1 \in 1..Len(d.pages) /\ d.pages[N + 1] = Stored(n)
    BY <1>1
  <2>2. Stored(n) # Damaged
    BY <2>1 DEF Sound
  <2> QED BY <2>2 DEF Stored
<1>3. n.kind = "internal" /\ ToSet(n.children) = PagesIn(Members(b.group))
  <2> DEFINE L == Len(b.group)
             cs == n.children
  <2>1. n.kind = "internal" /\ cs = [i \in 1..L |-> b.group[i].page]
    BY DEF Parent, Internal
  <2> HIDE DEF n, cs, L
  <2>2. ToSet(cs) = {b.group[i].page : i \in 1..L}
    BY <2>1 DEF ToSet
  <2>3. PagesIn(Members(b.group)) = {b.group[i].page : i \in 1..L}
    BY DEF PagesIn, Members, L
  <2> QED BY <2>1, <2>2, <2>3 DEF cs
<1> HIDE DEF n, c
<1>4. Members(b.level) \subseteq Members(d.level) /\ c \in Members(d.level)
  BY <1>1, MembersGrow
<1>5. N + 1 \in Q
  BY <1>1, <1>4 DEF PagesIn, Seen
<1>6. \A x \in P : x \in Q \/ x \in ToSet(n.children)
  BY <1>3, <1>4 DEF PagesIn, Seen
<1> HIDE DEF P, Q
<1>7. Covered(b.pages, P, {})
  BY DEF P
<1>8. d.pages = Append(b.pages, n)
  BY <1>1, <1>2
<1>9. Covered(d.pages, Q, {})
  <2>1. Len(b.pages) + 1 \in Q
    BY <1>5
  <2>2. \A x \in P : x \in Q \/ (n.kind = "internal" /\ x \in ToSet(n.children))
    BY <1>3, <1>6
  <2> DEFINE none == {}
  <2>3. \A e \in none : e \in none \/ (n.kind = "leaf" /\ e \in ToSet(n.entries))
    OBVIOUS
  <2>4. Covered(b.pages, P, none)
    BY <1>7
  <2> HIDE DEF none, N
  <2>5. Covered(d.pages, Q, none)
    BY <1>8, <2>1, <2>2, <2>3, <2>4, NodeCovers
  <2> QED BY <2>5 DEF none
<1> QED BY <1>9 DEF Q

\* The next node of a level goes to the group.
LEMMA AddChildCovers ==
  ASSUME NEW b, b = [pages |-> b.pages, group |-> b.group, level |-> b.level],
         b.pages \in Seq(Page), b.level \in Seq(Child), b.group \in Seq(Child),
         NEW level, Len(level) \in Nat, NEW i \in 1..Len(level),
         NEW d, d = AddChild(b, level[i]), d.pages \in Seq(Page), Sound(d.pages),
         Covered(b.pages, PagesIn(Seen(b) \cup Rest(level, i - 1)), {})
  PROVE  Covered(d.pages, PagesIn(Seen(d) \cup Rest(level, i)), {})
<1> DEFINE c == level[i]
           room == Len(b.group) < 2 \/ Fits(Parent(Append(b.group, c)))
           r == IF room THEN b ELSE FlushParent(b)
           R == Rest(level, i - 1)
<1>1. d = [r EXCEPT !.group = Append(@, c)]
  BY DEF AddChild
<1>2. /\ r = [pages |-> r.pages, group |-> r.group, level |-> r.level]
      /\ r.group \in Seq(Child)
  <2>1. FlushParent(b).group = <<>> /\ <<>> \in Seq(Child)
    BY DEF FlushParent
  <2>2. FlushParent(b) = [pages |-> FlushParent(b).pages, group |-> FlushParent(b).group,
                          level |-> FlushParent(b).level]
    BY DEF FlushParent
  <2> QED BY <2>1, <2>2
<1> HIDE DEF r
<1>3. d.pages = r.pages /\ d.level = r.level /\ d.group = Append(r.group, c)
  <2> DEFINE x == r.pages
             y == r.group
             z == r.level
  <2>1. r = [pages |-> x, group |-> y, level |-> z]
    BY <1>2
  <2> HIDE DEF x, y, z
  <2>2. d = [pages |-> x, group |-> Append(y, c), level |-> z]
    BY <1>1, <2>1
  <2> QED BY <2>2 DEF x, y, z
<1>4. Covered(r.pages, PagesIn(Seen(r) \cup R), {})
  <2>1. CASE room
    BY <2>1 DEF r
  <2>2. CASE ~room
    <3>1. r = FlushParent(b)
      BY <2>2 DEF r
    <3> HIDE DEF R
    <3>2. Covered(b.pages, PagesIn(Seen(b) \cup R), {}) /\ r.pages \in Seq(Page) /\ Sound(r.pages)
      BY <1>3 DEF R
    <3> QED BY <3>1, <3>2, FlushParentCovers
  <2> QED BY <2>1, <2>2
<1>5. Members(r.group) \subseteq Members(d.group) /\ c \in Members(d.group)
  BY <1>2, <1>3, MembersGrow
<1>6. R \subseteq Rest(level, i) \cup {c}
  <2>1. \A j \in ((i - 1) + 1)..Len(level) : j = i \/ j \in (i + 1)..Len(level)
    OBVIOUS
  <2> QED BY <2>1 DEF Rest
<1> HIDE DEF R, c
<1>7. PagesIn(Seen(r) \cup R) \subseteq PagesIn(Seen(d) \cup Rest(level, i))
  BY <1>3, <1>5, <1>6 DEF PagesIn, Seen
<1> DEFINE P == PagesIn(Seen(r) \cup R)
           Q == PagesIn(Seen(d) \cup Rest(level, i))
<1> HIDE DEF P, Q
<1>8. Covered(r.pages, P, {}) /\ P \subseteq Q
  BY <1>4, <1>7 DEF P, Q
<1>9. Covered(d.pages, Q, {})
  BY <1>3, <1>8 DEF Covered
<1> QED BY <1>9 DEF Q

\* f gives the builder after so many children.
Raises(file, level, f) ==
  /\ f[0] = [pages |-> file, group |-> <<>>, level |-> <<>>]
  /\ \A n \in 1..Len(level) : f[n] = AddChild(f[n - 1], level[n])

\* A level is raised child by child.
LEMMA RaisedOf ==
  ASSUME NEW file, NEW level, Len(level) \in Nat
  PROVE  \E f : Raises(file, level, f) /\ Raised(file, level) = FlushParent(f[Len(level)])
<1> DEFINE First == [pages |-> file, group |-> <<>>, level |-> <<>>]
           Step(x, n) == AddChild(x, level[n])
           Rec(f, k) == [n \in 0..k |-> IF n = 0 THEN First ELSE Step(f[n - 1], n)]
           Bad == {k \in 0..Len(level) : ~\E f : f = Rec(f, k)}
           all == CHOOSE f : f = Rec(f, Len(level))
<1>0. Len(level) \in Nat
  OBVIOUS
<1>1. Raised(file, level) = FlushParent(all[Len(level)])
  BY DEF Raised
<1> HIDE DEF First, Step
<1>2. Bad = {}
  <2> SUFFICES ASSUME Bad # {} PROVE FALSE
    OBVIOUS
  <2>1. PICK k \in Bad : \A y \in Bad : k <= y
    <3>1. Bad \subseteq Nat
      OBVIOUS
    <3> HIDE DEF Bad
    <3> QED BY <3>1, Least
  <2>2. k \in 0..Len(level) /\ ~\E f : f = Rec(f, k)
    OBVIOUS
  <2>3. CASE k = 0
    <3> DEFINE f == [n \in 0..0 |-> First]
    <3>1. f = Rec(f, 0)
      OBVIOUS
    <3> QED BY <2>2, <2>3, <3>1
  <2>4. CASE k # 0
    <3>1. k - 1 \in 0..Len(level) /\ ~(k <= k - 1)
      BY <1>0, <2>2, <2>4
    <3>2. PICK f : f = Rec(f, k - 1)
      <4>1. k - 1 \notin Bad
        <5> HIDE DEF Bad
        <5> QED BY <2>1, <3>1
      <4> QED BY <3>1, <4>1
    <3> DEFINE g == [n \in 0..k |-> IF n = k THEN Step(f[k - 1], k) ELSE f[n]]
    <3>3. ASSUME NEW n \in 0..k
          PROVE  g[n] = IF n = 0 THEN First ELSE Step(g[n - 1], n)
      <4>1. n = k \/ n \in 0..(k - 1)
        BY <2>2
      <4>2. n # 0 => n - 1 \in 0..(k - 1) /\ n - 1 \in 0..k /\ n - 1 # k
        BY <2>2
      <4>3. n # 0 => g[n - 1] = f[n - 1]
        BY <4>2
      <4>4. n \in 0..(k - 1) => f[n] = IF n = 0 THEN First ELSE Step(f[n - 1], n)
        BY <3>2
      <4>5. g[n] = IF n = k THEN Step(f[k - 1], k) ELSE f[n]
        OBVIOUS
      <4> HIDE DEF g
      <4> QED BY <2>4, <4>1, <4>3, <4>4, <4>5
    <3>4. g = Rec(g, k)
      BY <3>3
    <3> HIDE DEF g
    <3> QED BY <2>2, <3>4
  <2> QED BY <2>3, <2>4
<1>3. \E f : f = Rec(f, Len(level))
  BY <1>0, <1>2
<1>4. all = Rec(all, Len(level))
  <2> HIDE DEF Rec
  <2> QED BY <1>3
<1>5. all[0] = First
  <2> HIDE DEF all
  <2> QED BY <1>0, <1>4
<1>6. ASSUME NEW n \in 1..Len(level) PROVE all[n] = Step(all[n - 1], n)
  <2>1. n \in 0..Len(level) /\ n # 0
    BY <1>0
  <2> HIDE DEF all
  <2> QED BY <1>4, <2>1
<1> HIDE DEF all
<1>7. QED BY <1>1, <1>5, <1>6 DEF First, Step, Raises

\* A level of a new tree: its nodes hold the whole map, and all pages but their
\* own are held.
IsLevel(file, g, map, level) ==
  /\ FileHolds(file, g) /\ Sound(file) /\ IsRow(file, g, map, level)
  /\ Len(level) >= 1 /\ DOMAIN map \subseteq Holding(g, Members(level))
  /\ Covered(file, PagesIn(Members(level)), {})

\* The level above one is a level, and is shorter.
LEMMA RaisedHolds ==
  ASSUME NEW file, NEW g, NEW map, NEW level, IsLevel(file, g, map, level),
         NEW r, r = Raised(file, level)
  PROVE  /\ \E l : Extends(file, g, r.pages, l) /\ IsLevel(r.pages, l, map, r.level)
         /\ 2 * Len(r.level) <= Len(level) + 1
<1> DEFINE N == Len(level)
<1>1. /\ FileHolds(file, g) /\ Sound(file) /\ IsRow(file, g, map, level)
      /\ N >= 1 /\ DOMAIN map \subseteq Holding(g, Members(level))
  BY DEF IsLevel
<1> DEFINE none == {}
<1>0. Covered(file, PagesIn(Members(level)), none)
  BY DEF IsLevel
<1> HIDE DEF none
<1>2. N \in Nat /\ Len(file) \in Nat /\ file \in Seq(Page)
  BY <1>1 DEF IsRow, FileHolds
<1>3. PICK f : Raises(file, level, f) /\ r = FlushParent(f[N])
  BY <1>2, RaisedOf
<1>4. /\ f[0] = [pages |-> file, group |-> <<>>, level |-> <<>>]
      /\ \A i \in 1..N : f[i] = AddChild(f[i - 1], level[i])
  BY <1>3 DEF Raises
<1> DEFINE AllHeld(i) == Covered(f[i].pages, PagesIn(Seen(f[i]) \cup Rest(level, i)), none)
           Right(i) == /\ \E l : Extends(file, g, f[i].pages, l) /\ Raising(f[i], l, map, level, i)
                       /\ AllHeld(i)
<1>5. Right(0)
  <2> DEFINE b == f[0]
  <2>1. b = [pages |-> file, group |-> <<>>, level |-> <<>>]
    BY <1>4
  <2> HIDE DEF b
  <2>2. b.pages = file /\ b.group = <<>> /\ b.level = <<>>
    BY <2>1
  <2>3. IsRow(file, g, map, <<>>) /\ Members(<<>>) = {} /\ Len(<<>>) = 0
    BY NoRow
  <2>4. Parents(b, g, map)
    BY <1>1, <2>2, <2>3 DEF Parents, Precede
  <2>5. Seen(b) = {}
    BY <2>2, <2>3 DEF Seen
  <2>6. Rest(level, 0) = Members(level)
    BY DEF Rest, Members
  <2>7. Raising(b, g, map, level, 0)
    <3>1. /\ b = [pages |-> b.pages, group |-> b.group, level |-> b.level]
          /\ IsRow(b.pages, g, map, level)
      BY <1>1, <2>1, <2>2
    <3>2. \A j \in (0 + 1)..Len(level) : AllLower(g, Seen(b), level[j])
      BY <2>5 DEF AllLower
    <3>3. DOMAIN map \subseteq Holding(g, Seen(b) \cup Rest(level, 0))
      BY <1>1, <2>5, <2>6
    <3>4. 2 * Len(b.level) + Len(b.group) <= 0
      BY <2>2, <2>3
    <3> QED BY <2>4, <3>1, <3>2, <3>3, <3>4 DEF Raising
  <2>8. Extends(file, g, b.pages, g)
    BY <1>2, <2>2 DEF Extends
  <2>9. Covered(b.pages, PagesIn(Seen(b) \cup Rest(level, 0)), none)
    <3>1. Seen(b) \cup Rest(level, 0) = Members(level)
      BY <2>5, <2>6
    <3> QED BY <1>0, <2>2, <3>1
  <2>10. AllHeld(0)
    BY <2>9 DEF b
  <2> HIDE DEF AllHeld
  <2> QED BY <2>7, <2>8, <2>10 DEF b
<1>6. ASSUME NEW i \in 1..N, Right(i - 1) PROVE Right(i)
  <2> HIDE DEF AllHeld
  <2>1. PICK l : Extends(file, g, f[i - 1].pages, l) /\ Raising(f[i - 1], l, map, level, i - 1)
    BY <1>6
  <2>2. \E m : Extends(f[i - 1].pages, l, f[i].pages, m) /\ Raising(f[i], m, map, level, i)
    BY <1>2, <1>4, <2>1, AddChildHolds
  <2>3. PICK m : Extends(f[i - 1].pages, l, f[i].pages, m) /\ Raising(f[i], m, map, level, i)
    BY <2>2
  <2>4. Extends(file, g, f[i].pages, m)
    BY <1>2, <2>1, <2>3, ExtendsFurther
  <2>5. AllHeld(i)
    <3> DEFINE b == f[i - 1]
               d == f[i]
    <3>1. AllHeld(i - 1)
      BY <1>6
    <3>2. Covered(b.pages, PagesIn(Seen(b) \cup Rest(level, i - 1)), none)
      BY <3>1 DEF AllHeld
    <3>3. d = AddChild(b, level[i]) /\ i \in 1..Len(level) /\ Len(level) \in Nat
      BY <1>2, <1>4
    <3>4. Raising(b, l, map, level, i - 1) /\ Raising(d, m, map, level, i)
      BY <2>1, <2>3
    <3> HIDE DEF b, d, N
    <3>5. /\ b = [pages |-> b.pages, group |-> b.group, level |-> b.level]
          /\ Parents(b, l, map) /\ Parents(d, m, map)
      BY <3>4 DEF Raising
    <3>6. /\ b.pages \in Seq(Page) /\ b.level \in Seq(Child) /\ b.group \in Seq(Child)
          /\ d.pages \in Seq(Page) /\ Sound(d.pages)
      BY <3>5 DEF Parents, IsRow, FileHolds
    <3>7. Covered(d.pages, PagesIn(Seen(d) \cup Rest(level, i)), none)
      BY <3>2, <3>3, <3>5, <3>6, AddChildCovers DEF none
    <3> QED BY <3>7 DEF AllHeld, d
  <2> QED BY <2>3, <2>4, <2>5
<1>7. Right(N)
  <2> HIDE DEF AllHeld
  <2> DEFINE Bad == {i \in 0..N : ~Right(i)}
  <2> SUFFICES ASSUME Bad # {} PROVE FALSE
    BY <1>2
  <2>1. PICK i \in Bad : \A y \in Bad : i <= y
    <3>1. Bad \subseteq Nat
      OBVIOUS
    <3> HIDE DEF Bad
    <3> QED BY <3>1, Least
  <2>2. i \in 0..N /\ ~Right(i)
    OBVIOUS
  <2> HIDE DEF Right, N
  <2>3. i # 0
    BY <1>5, <2>2
  <2>4. i \in 1..N /\ i - 1 \in 0..N /\ ~(i <= i - 1)
    BY <1>2, <2>2, <2>3
  <2>5. Right(i - 1)
    BY <2>1, <2>4
  <2> QED BY <1>6, <2>2, <2>4, <2>5
<1>8. PICK l : Extends(file, g, f[N].pages, l) /\ Raising(f[N], l, map, level, N)
  BY <1>7
<1> DEFINE b == f[N]
<1> HIDE DEF b
<1>9. /\ Parents(b, l, map) /\ Len(b.group) >= 1 /\ 2 * Len(b.level) + Len(b.group) <= N
      /\ DOMAIN map \subseteq Holding(l, Seen(b) \cup Rest(level, N))
  <2>1. /\ Parents(b, l, map) /\ (N = 0 \/ Len(b.group) >= 1)
        /\ 2 * Len(b.level) + Len(b.group) <= N
        /\ DOMAIN map \subseteq Holding(l, Seen(b) \cup Rest(level, N))
    <3>1. Raising(b, l, map, level, N)
      BY <1>8 DEF b
    <3> HIDE DEF N
    <3> QED BY <3>1 DEF Raising
  <2>2. N # 0
    BY <1>1, <1>2
  <2> QED BY <2>1, <2>2
<1>10. Rest(level, N) = {}
  <2>1. \A j \in (N + 1)..N : FALSE
    BY <1>2
  <2> QED BY <2>1 DEF Rest
<1>11. PICK m : Flushed(b, l, map, r, m)
  BY <1>3, <1>9, FlushParentHolds DEF b
<1>12. /\ Extends(b.pages, l, r.pages, m) /\ Parents(r, m, map)
       /\ Len(r.level) = Len(b.level) + 1
       /\ Holding(m, Members(r.level)) = Holding(l, Seen(b))
  BY <1>11 DEF Flushed, Seen
<1>13. /\ FileHolds(r.pages, m) /\ Sound(r.pages) /\ IsRow(r.pages, m, map, r.level)
       /\ Len(b.level) \in Nat /\ Len(b.group) \in Nat
  BY <1>9, <1>12 DEF Parents, IsRow
<1>14. Len(r.level) >= 1 /\ 2 * Len(r.level) <= N + 1
  <2> DEFINE u == Len(b.level)
             v == Len(b.group)
  <2>1. u \in Nat /\ v \in Nat /\ v >= 1 /\ 2 * u + v <= N /\ Len(r.level) = u + 1
    BY <1>9, <1>12, <1>13
  <2> HIDE DEF u, v, N
  <2>2. u + 1 >= 1 /\ 2 * (u + 1) <= N + 1
    BY <1>2, <2>1
  <2> QED BY <2>1, <2>2
<1>15. DOMAIN map \subseteq Holding(m, Members(r.level))
  <2>1. Seen(b) \cup Rest(level, N) = Seen(b)
    BY <1>10
  <2> QED BY <1>9, <1>12, <2>1
<1>16. Extends(file, g, r.pages, m)
  BY <1>2, <1>8, <1>12, ExtendsFurther DEF b
<1>17. Covered(r.pages, PagesIn(Members(r.level)), none)
  <2>1. AllHeld(N)
    BY <1>7
  <2> DEFINE R == Rest(level, N)
  <2> HIDE DEF R
  <2>2. Covered(b.pages, PagesIn(Seen(b) \cup R), none)
    BY <2>1 DEF b, R
  <2>3. b.pages \in Seq(Page) /\ b.level \in Seq(Child) /\ b.group \in Seq(Child)
    BY <1>9 DEF Parents, IsRow, FileHolds
  <2>4. r = FlushParent(b) /\ r.pages \in Seq(Page) /\ Sound(r.pages)
    BY <1>3, <1>13 DEF b, FileHolds
  <2>5. Covered(r.pages, PagesIn(Seen(r) \cup R), none)
    BY <2>2, <2>3, <2>4, FlushParentCovers DEF none
  <2>6. Seen(r) \cup R = Members(r.level)
    <3>1. r.group = <<>> /\ Members(<<>>) = {}
      BY <1>11, NoRow DEF Flushed
    <3> QED BY <1>10, <3>1 DEF Seen, R
  <2> QED BY <2>5, <2>6
<1> QED BY <1>13, <1>14, <1>15, <1>16, <1>17 DEF IsLevel, none

-----------------------------------------------------------------------------
(***************************************************************************)
(* The builder: leaves                                                     *)
(***************************************************************************)
Marks(g, C) == UNION {g[c.page].marks : c \in C}
KeysOf(s) == {s[i].key : i \in 1..Len(s)}

\* Keys a builder at its leaves has come to, as separators too, and its map's.
Occupied(b, g) == Marks(g, Members(b.leaves)) \cup KeysOf(b.leaf)
Filled(b, g) == Holding(g, Members(b.leaves)) \cup KeysOf(b.leaf)

\* What is known of a builder at its leaves.
Leafing(b, g, map) ==
  /\ b = [pages |-> b.pages, leaf |-> b.leaf, leaves |-> b.leaves]
  /\ FileHolds(b.pages, g) /\ Sound(b.pages) /\ IsRow(b.pages, g, map, b.leaves)
  /\ b.leaf \in Seq(Entry)
  /\ \A i, j \in 1..Len(b.leaf) : i < j => Less(b.leaf[i].key, b.leaf[j].key)
  /\ \A i \in 1..Len(b.leaf) :
       /\ b.leaf[i].key \in DOMAIN map
       /\ EntryHolds(b.pages, Len(b.pages) + 1, b.leaf[i], map[b.leaf[i].key])
  /\ \A k \in Marks(g, Members(b.leaves)), i \in 1..Len(b.leaf) : Less(k, b.leaf[i].key)
  /\ Len(b.leaf) <= 1 \/ Fits(Leaf(b.leaf))

\* The builder r, in a later file, has come to the same keys as b.
Carries(b, g, map, r, l) ==
  /\ Extends(b.pages, g, r.pages, l) /\ Leafing(r, l, map)
  /\ Occupied(r, l) = Occupied(b, g) /\ Filled(r, l) = Filled(b, g)

\* A flushed leaf becomes one leaf more.
LEMMA FlushLeafHolds ==
  ASSUME NEW b, NEW g, NEW map, Leafing(b, g, map), Len(b.leaf) >= 1,
         NEW d, d = FlushLeaf(b)
  PROVE  \E l : Carries(b, g, map, d, l) /\ d.leaf = <<>> /\ Len(d.leaves) >= 1
<1> DEFINE n == Leaf(b.leaf)
           K == KeysOf(b.leaf)
           h == [map |-> [k \in K |-> map[k]], marks |-> K]
           N == Len(b.pages)
           later == Append(b.pages, Stored(n))
           l == Put(g, N, h)
           c == [first |-> b.leaf[1].key, page |-> N + 1]
           L == Len(b.leaf)
<1>1. /\ FileHolds(b.pages, g) /\ Sound(b.pages) /\ IsRow(b.pages, g, map, b.leaves)
      /\ b.leaf \in Seq(Entry)
      /\ \A i, j \in 1..L : i < j => Less(b.leaf[i].key, b.leaf[j].key)
      /\ \A i \in 1..L : /\ b.leaf[i].key \in DOMAIN map
                         /\ EntryHolds(b.pages, N + 1, b.leaf[i], map[b.leaf[i].key])
      /\ \A k \in Marks(g, Members(b.leaves)), i \in 1..L : Less(k, b.leaf[i].key)
      /\ L <= 1 \/ Fits(n)
  BY DEF Leafing
<1>2. N \in Nat /\ L \in Nat /\ L >= 1 /\ Len(b.leaves) \in Nat
  BY <1>1 DEF FileHolds, IsRow
<1>3. d = [pages |-> later, leaf |-> <<>>, leaves |-> Append(b.leaves, c)]
  <2>1. b.leaf # <<>>
    BY <1>2
  <2> QED BY <2>1 DEF FlushLeaf
<1>4. \A i \in 1..L : b.leaf[i].key \in K /\ b.leaf[i] \in Entry
  BY <1>1 DEF KeysOf
<1>5. \A k \in K : \E i \in 1..L : b.leaf[i].key = k
  BY DEF KeysOf
<1>6. K \subseteq TreeKeys /\ K \subseteq DOMAIN map /\ \A k \in K : map[k] \in Values
  <2>1. \A i \in 1..L : EntryHolds(b.pages, N + 1, b.leaf[i], map[b.leaf[i].key])
    BY <1>1
  <2>2. \A i \in 1..L : map[b.leaf[i].key] \in Values
    <3> HIDE DEF L, N, K, h, later, l, c, n
    <3> QED BY <2>1 DEF EntryHolds
  <2>3. \A e \in Entry : e.key \in TreeKeys
    BY DEF Entry
  <2>4. \A i \in 1..L : b.leaf[i].key \in DOMAIN map
    BY <1>1
  <2> HIDE DEF L, N, K, h, later, l, c, n
  <2> QED BY <1>4, <1>5, <2>2, <2>3, <2>4
<1> HIDE DEF K
<1>7. h.marks = K /\ DOMAIN h.map = K /\ \A k \in K : h.map[k] = map[k]
  OBVIOUS
<1>8. IsRecord(h)
  BY <1>6 DEF IsRecord
<1> HIDE DEF h
<1>9. n \in LeafPages /\ n.entries = b.leaf /\ n.kind = "leaf"
  BY <1>1 DEF Leaf, LeafPages
<1> HIDE DEF n
<1>10. LeafHolds(b.pages, N + 1, n, h)
  <2>1. DOMAIN n.entries = 1..L
    BY <1>1, <1>9
  <2> HIDE DEF L, N
  <2> QED BY <1>1, <1>4, <1>5, <1>7, <1>9, <2>1 DEF LeafHolds
<1>11. NodeHolds(b.pages, N + 1, n, h, g)
  BY <1>8, <1>10 DEF NodeHolds
<1>12. Fits(n)
  <2>1. ~Fits(n) => Len(n.entries) >= 2
    BY <1>10, <1>11, TooLarge
  <2>2. ~(L <= 1 /\ L >= 2)
    BY <1>2
  <2> QED BY <1>1, <1>9, <2>1, <2>2
<1>13. /\ FileHolds(later, l) /\ Sound(later) /\ Extends(b.pages, g, later, l)
       /\ Len(later) = N + 1 /\ l[N + 1] = h /\ later[N + 1].kind # "overflow"
  <2>1. /\ FileHolds(b.pages, g) /\ Sound(b.pages) /\ NodeHolds(b.pages, N + 1, n, h, g)
        /\ Fits(n)
    BY <1>1, <1>11, <1>12
  <2>2. n.kind # "overflow"
    BY <1>9
  <2> QED BY <2>1, <2>2, StoresSound
<1> HIDE DEF later, l
<1>14. /\ IsRow(later, l, map, b.leaves)
       /\ \A x \in Members(b.leaves) : l[x.page] = g[x.page]
  BY <1>1, <1>2, <1>13, RowStays
<1>15. 1 \in 1..L /\ \A i \in 1..L : i = 1 \/ 1 < i
  BY <1>2
<1>16. ChildOf(later, l, map, c) /\ l[c.page] = h
  <2>1. c.first \in K /\ c.first \in TreeKeys
    BY <1>4, <1>6, <1>15
  <2>2. \A k \in K : ~Less(k, c.first)
    <3> TAKE k \in K
    <3>1. PICK i \in 1..L : b.leaf[i].key = k
      BY <1>5
    <3>2. k = c.first \/ Less(c.first, k)
      BY <1>1, <1>15, <3>1
    <3>3. k \in TreeKeys
      BY <1>6
    <3> QED BY <2>1, <3>2, <3>3, KeyOrder
  <2>3. c \in Child /\ N + 1 \in 1..(N + 1) /\ c.page = N + 1
    BY <1>2, <2>1 DEF Child
  <2> HIDE DEF c, N
  <2> QED BY <1>6, <1>7, <1>13, <2>1, <2>2, <2>3 DEF ChildOf
<1>17. AllLower(l, Members(b.leaves), c)
  BY <1>1, <1>14, <1>15 DEF AllLower, Lower, Marks
<1> HIDE DEF c
<1>18. Grown(later, l, map, b.leaves, c, Append(b.leaves, c))
  BY <1>14, <1>16, <1>17, RowGrows
<1>19. /\ d.pages = later /\ d.leaf = <<>> /\ d.leaves = Append(b.leaves, c)
  BY <1>3
<1>20. /\ IsRow(later, l, map, d.leaves) /\ Members(d.leaves) = Members(b.leaves) \cup {c}
       /\ Len(d.leaves) = Len(b.leaves) + 1
  BY <1>18, <1>19 DEF Grown
<1>21. Len(d.leaf) = 0 /\ KeysOf(d.leaf) = {} /\ d.leaf \in Seq(Entry)
  BY <1>19 DEF KeysOf
<1>22. Leafing(d, l, map)
  <2>1. d = [pages |-> d.pages, leaf |-> d.leaf, leaves |-> d.leaves]
    BY <1>3
  <2>2. \A i \in 1..Len(d.leaf) : FALSE
    BY <1>21
  <2> QED BY <1>13, <1>19, <1>20, <1>21, <2>1, <2>2 DEF Leafing
<1>23. Marks(l, Members(d.leaves)) = Marks(g, Members(b.leaves)) \cup K
  BY <1>7, <1>14, <1>16, <1>20 DEF Marks
<1>24. Holding(l, Members(d.leaves)) = Holding(g, Members(b.leaves)) \cup K
  BY <1>7, <1>14, <1>16, <1>20 DEF Holding
<1>25. Carries(b, g, map, d, l)
  BY <1>13, <1>19, <1>21, <1>22, <1>23, <1>24 DEF Carries, Occupied, Filled, K
<1>26. Len(d.leaves) >= 1
  BY <1>2, <1>20
<1> QED BY <1>19, <1>25, <1>26

\* An entry at the end of a file is one at the end of a later file.
LEMMA EntryCarried ==
  ASSUME NEW file, NEW g, NEW later, NEW l, file \in Seq(Page), Extends(file, g, later, l),
         NEW e, NEW v, EntryHolds(file, Len(file) + 1, e, v)
  PROVE  EntryHolds(later, Len(later) + 1, e, v)
<1> DEFINE p == Len(file) + 1
           q == Len(later) + 1
<1>1. /\ later \in Seq(Page) /\ Len(file) <= Len(later)
      /\ \A i \in 1..Len(file) : later[i] = file[i]
  BY DEF Extends
<1>2. p \in Nat /\ q \in Nat /\ p <= q /\ p <= Len(file) + 1
  BY <1>1
<1>3. EntryHolds(file, p, e, v)
  OBVIOUS
<1> HIDE DEF p, q
<1>4. EntryHolds(later, q, e, v)
  BY <1>1, <1>2, <1>3, EntryStays
<1> QED BY <1>4 DEF q

\* A value's chain, written before its entry is added, leaves the builder as it is.
LEMMA SpillHolds ==
  ASSUME NEW b, NEW g, NEW map, Leafing(b, g, map), NEW k \in TreeKeys, NEW v \in Values,
         NEW made, made = MakeEntry(b.pages, k, v), NEW r, r = [b EXCEPT !.pages = made.pages]
  PROVE  /\ made.entry.key = k /\ r.leaf = b.leaf /\ r.leaves = b.leaves /\ r.pages = made.pages
         /\ \E l : /\ Carries(b, g, map, r, l)
                   /\ EntryHolds(r.pages, Len(r.pages) + 1, made.entry, v)
<1> DEFINE L == Len(b.leaf)
           N == Len(b.pages)
<1>1. /\ b = [pages |-> b.pages, leaf |-> b.leaf, leaves |-> b.leaves]
      /\ FileHolds(b.pages, g) /\ Sound(b.pages) /\ IsRow(b.pages, g, map, b.leaves)
      /\ b.leaf \in Seq(Entry)
      /\ \A i, j \in 1..L : i < j => Less(b.leaf[i].key, b.leaf[j].key)
      /\ \A i \in 1..L : /\ b.leaf[i].key \in DOMAIN map
                         /\ EntryHolds(b.pages, N + 1, b.leaf[i], map[b.leaf[i].key])
      /\ \A j \in Marks(g, Members(b.leaves)), i \in 1..L : Less(j, b.leaf[i].key)
      /\ L <= 1 \/ Fits(Leaf(b.leaf))
  BY DEF Leafing
<1>2. N \in Nat /\ b.pages \in Seq(Page)
  BY <1>1 DEF FileHolds
<1>3. r = [pages |-> made.pages, leaf |-> b.leaf, leaves |-> b.leaves]
  <2> DEFINE x == b.pages
             y == b.leaf
             z == b.leaves
  <2>1. b = [pages |-> x, leaf |-> y, leaves |-> z]
    BY <1>1
  <2> HIDE DEF x, y, z
  <2>2. r = [pages |-> made.pages, leaf |-> y, leaves |-> z]
    BY <2>1
  <2> QED BY <2>2 DEF x, y, z
<1>4. /\ made.entry.key = k
      /\ \A p \in (N + 1)..Len(made.pages) : made.pages[p].kind = "overflow"
      /\ \E l : /\ FileHolds(made.pages, l) /\ Extends(b.pages, g, made.pages, l)
                /\ EntryHolds(made.pages, Len(made.pages) + 1, made.entry, v)
  BY <1>1, MakesEntry
<1>5. PICK l : /\ FileHolds(made.pages, l) /\ Extends(b.pages, g, made.pages, l)
               /\ EntryHolds(made.pages, Len(made.pages) + 1, made.entry, v)
  BY <1>4
<1>6. /\ made.pages \in Seq(Page) /\ N <= Len(made.pages) /\ Len(made.pages) \in Nat
      /\ \A p \in 1..N : made.pages[p] = b.pages[p] /\ l[p] = g[p]
  BY <1>5 DEF Extends
<1>7. Sound(made.pages)
  <2>1. \A p \in 1..Len(made.pages) : p \in 1..N \/ p \in (N + 1)..Len(made.pages)
    BY <1>2, <1>6
  <2>2. \A p \in (N + 1)..Len(made.pages) : made.pages[p] # Damaged
    BY <1>4 DEF Damaged
  <2> QED BY <1>1, <1>6, <2>1, <2>2 DEF Sound
<1>8. /\ IsRow(made.pages, l, map, b.leaves)
      /\ \A x \in Members(b.leaves) : l[x.page] = g[x.page]
  BY <1>1, <1>2, <1>5, RowStays
<1>9. ASSUME NEW i \in 1..L
      PROVE  EntryHolds(made.pages, Len(made.pages) + 1, b.leaf[i], map[b.leaf[i].key])
  <2>1. EntryHolds(b.pages, N + 1, b.leaf[i], map[b.leaf[i].key])
    BY <1>1
  <2> QED BY <1>2, <1>5, <2>1, EntryCarried
<1>10. Marks(l, Members(b.leaves)) = Marks(g, Members(b.leaves))
       /\ Holding(l, Members(b.leaves)) = Holding(g, Members(b.leaves))
  BY <1>8 DEF Marks, Holding
<1>11. r.pages = made.pages /\ r.leaf = b.leaf /\ r.leaves = b.leaves
       /\ r = [pages |-> r.pages, leaf |-> r.leaf, leaves |-> r.leaves]
  BY <1>3
<1>12. Leafing(r, l, map)
  BY <1>1, <1>5, <1>7, <1>8, <1>9, <1>10, <1>11 DEF Leafing
<1>13. Carries(b, g, map, r, l)
  BY <1>5, <1>10, <1>11, <1>12 DEF Carries, Occupied, Filled
<1> QED BY <1>4, <1>5, <1>11, <1>13

\* The leaves of i pairs are built, or are being built.
Filling(b, g, map, pairs, i) ==
  /\ Leafing(b, g, map)
  /\ \A j \in (i + 1)..Len(pairs), k \in Occupied(b, g) : Less(k, pairs[j].key)
  /\ \A j \in 1..i : pairs[j].key \in Filled(b, g)
  /\ i = 0 \/ Len(b.leaf) >= 1

\* Adding the next pair.
LEMMA AddEntryHolds ==
  ASSUME NEW b, NEW g, NEW map, NEW pairs, Shows(pairs, map, DOMAIN map),
         DOMAIN map \subseteq TreeKeys, \A k \in DOMAIN map : map[k] \in Values,
         NEW i \in 1..Len(pairs), Filling(b, g, map, pairs, i - 1),
         NEW d, d = AddEntry(b, pairs[i])
  PROVE  \E l : Filling(d, l, map, pairs, i)
<1> DEFINE N == Len(pairs)
           k == pairs[i].key
           v == pairs[i].val
           made == MakeEntry(b.pages, k, v)
           e == made.entry
           s == [b EXCEPT !.pages = made.pages]
           full == b.leaf # <<>> /\ ~Fits(Leaf(Append(b.leaf, e)))
           r == IF full THEN FlushLeaf(s) ELSE s
<1>1. /\ N \in Nat /\ i \in Nat /\ i >= 1 /\ i <= N
      /\ k \in DOMAIN map /\ v = map[k] /\ k \in TreeKeys /\ v \in Values
      /\ \A j \in 1..N : i < j => Less(k, pairs[j].key)
  BY DEF Shows
<1>2. /\ Leafing(b, g, map)
      /\ \A j \in i..N, x \in Occupied(b, g) : Less(x, pairs[j].key)
      /\ \A j \in 1..(i - 1) : pairs[j].key \in Filled(b, g)
  <2>1. (i - 1) + 1 = i
    BY <1>1
  <2> QED BY <2>1 DEF Filling, N
<1> HIDE DEF N, k, v
<1>3. d = [r EXCEPT !.leaf = Append(@, e)]
  BY DEF AddEntry, k, v
<1>4. /\ e.key = k /\ s.leaf = b.leaf /\ s.leaves = b.leaves /\ s.pages = made.pages
      /\ \E l : /\ Carries(b, g, map, s, l)
                /\ EntryHolds(s.pages, Len(s.pages) + 1, e, v)
  BY <1>1, <1>2, SpillHolds
<1> HIDE DEF s, made
<1>5. PICK l0 : Carries(b, g, map, s, l0) /\ EntryHolds(s.pages, Len(s.pages) + 1, e, v)
  BY <1>4
<1>6. \E l : /\ Carries(b, g, map, r, l) /\ EntryHolds(r.pages, Len(r.pages) + 1, e, v)
             /\ r.leaf = <<>> \/ Fits(Leaf(Append(r.leaf, e)))
  <2>1. CASE ~full
    <3>1. r = s
      BY <2>1
    <3>2. s.leaf = <<>> \/ Fits(Leaf(Append(s.leaf, e)))
      BY <1>4, <2>1
    <3> HIDE DEF r, e
    <3> QED BY <1>5, <3>1, <3>2
  <2>2. CASE full
    <3>1. r = FlushLeaf(s)
      BY <2>2
    <3>2. Leafing(s, l0, map) /\ Extends(b.pages, g, s.pages, l0)
          /\ Occupied(s, l0) = Occupied(b, g) /\ Filled(s, l0) = Filled(b, g)
      BY <1>5 DEF Carries
    <3>3. Len(s.leaf) >= 1
      <4>1. s.leaf # <<>> /\ s.leaf \in Seq(Entry)
        BY <1>4, <2>2, <3>2 DEF Leafing
      <4> QED BY <4>1
    <3> HIDE DEF r, e, full
    <3>4. PICK l : Carries(s, l0, map, r, l) /\ r.leaf = <<>>
      BY <3>1, <3>2, <3>3, FlushLeafHolds
    <3>5. /\ Extends(s.pages, l0, r.pages, l) /\ Leafing(r, l, map)
          /\ Occupied(r, l) = Occupied(b, g) /\ Filled(r, l) = Filled(b, g)
      BY <3>2, <3>4 DEF Carries
    <3>6. /\ b.pages \in Seq(Page) /\ Len(b.pages) \in Nat
          /\ s.pages \in Seq(Page) /\ Len(s.pages) \in Nat
      BY <1>2, <3>2 DEF Leafing, FileHolds
    <3>7. Extends(b.pages, g, r.pages, l)
      BY <3>2, <3>5, <3>6, ExtendsFurther
    <3>8. EntryHolds(r.pages, Len(r.pages) + 1, e, v)
      BY <1>5, <3>5, <3>6, EntryCarried
    <3> QED BY <3>4, <3>5, <3>7, <3>8 DEF Carries
  <2> QED BY <2>1, <2>2
<1> HIDE DEF r, e, full
<1>7. PICK l : /\ Carries(b, g, map, r, l) /\ EntryHolds(r.pages, Len(r.pages) + 1, e, v)
               /\ r.leaf = <<>> \/ Fits(Leaf(Append(r.leaf, e)))
  BY <1>6
<1>8. Leafing(r, l, map) /\ Occupied(r, l) = Occupied(b, g) /\ Filled(r, l) = Filled(b, g)
  BY <1>7 DEF Carries
<1> DEFINE L == Len(r.leaf)
<1>9. /\ r = [pages |-> r.pages, leaf |-> r.leaf, leaves |-> r.leaves]
      /\ FileHolds(r.pages, l) /\ Sound(r.pages) /\ IsRow(r.pages, l, map, r.leaves)
      /\ r.leaf \in Seq(Entry)
      /\ \A j, m \in 1..L : j < m => Less(r.leaf[j].key, r.leaf[m].key)
      /\ \A j \in 1..L : /\ r.leaf[j].key \in DOMAIN map
                         /\ EntryHolds(r.pages, Len(r.pages) + 1, r.leaf[j], map[r.leaf[j].key])
      /\ \A x \in Marks(l, Members(r.leaves)), j \in 1..L : Less(x, r.leaf[j].key)
  BY <1>8 DEF Leafing
<1>10. d = [pages |-> r.pages, leaf |-> Append(r.leaf, e), leaves |-> r.leaves]
  <2> DEFINE x == r.pages
             y == r.leaf
             z == r.leaves
  <2>1. r = [pages |-> x, leaf |-> y, leaves |-> z]
    BY <1>9
  <2> HIDE DEF x, y, z
  <2>2. d = [pages |-> x, leaf |-> Append(y, e), leaves |-> z]
    BY <1>3, <2>1
  <2> QED BY <2>2 DEF x, y, z
<1>11. d.pages = r.pages /\ d.leaf = Append(r.leaf, e) /\ d.leaves = r.leaves
       /\ d = [pages |-> d.pages, leaf |-> d.leaf, leaves |-> d.leaves]
  BY <1>10
<1>12. e \in Entry /\ L \in Nat
  BY <1>7, <1>9 DEF EntryHolds
<1>13. /\ d.leaf \in Seq(Entry) /\ Len(d.leaf) = L + 1 /\ d.leaf[L + 1] = e
       /\ \A j \in 1..L : d.leaf[j] = r.leaf[j]
  BY <1>9, <1>11, <1>12, AppendProperties
<1>14. \A j \in 1..L : r.leaf[j].key \in Occupied(r, l)
  BY DEF Occupied, KeysOf
<1>15. i \in i..N /\ \A x \in Occupied(r, l) : Less(x, k)
  <2>1. i \in i..N
    BY <1>1
  <2> QED BY <1>2, <1>8, <2>1 DEF k
<1> HIDE DEF L
<1>16. \A j \in 1..(L + 1) : j \in 1..L \/ j = L + 1
  BY <1>12
<1>17. ASSUME NEW j \in 1..(L + 1), NEW m \in 1..(L + 1), j < m
       PROVE  Less(d.leaf[j].key, d.leaf[m].key)
  <2>1. j \in 1..L
    BY <1>12, <1>17
  <2>2. CASE m \in 1..L
    BY <1>9, <1>13, <1>17, <2>1, <2>2 DEF L
  <2>3. CASE m = L + 1
    BY <1>4, <1>13, <1>14, <1>15, <2>1, <2>3
  <2> QED BY <1>16, <2>2, <2>3
<1>18. ASSUME NEW j \in 1..(L + 1)
       PROVE  /\ d.leaf[j].key \in DOMAIN map
              /\ EntryHolds(d.pages, Len(d.pages) + 1, d.leaf[j], map[d.leaf[j].key])
  <2>1. CASE j \in 1..L
    BY <1>9, <1>11, <1>13, <2>1 DEF L
  <2>2. CASE j = L + 1
    BY <1>1, <1>4, <1>7, <1>11, <1>13, <2>2
  <2> QED BY <1>16, <2>1, <2>2
<1>19. ASSUME NEW x \in Marks(l, Members(d.leaves)), NEW j \in 1..(L + 1)
       PROVE  Less(x, d.leaf[j].key)
  <2>1. x \in Marks(l, Members(r.leaves)) /\ x \in Occupied(r, l)
    BY <1>11 DEF Occupied
  <2>2. CASE j \in 1..L
    BY <1>9, <1>13, <2>1, <2>2 DEF L
  <2>3. CASE j = L + 1
    BY <1>4, <1>13, <1>15, <2>1, <2>3
  <2> QED BY <1>16, <2>2, <2>3
<1>20. Len(d.leaf) <= 1 \/ Fits(Leaf(d.leaf))
  <2>1. r.leaf = <<>> => L = 0
    BY DEF L
  <2> QED BY <1>7, <1>11, <1>13, <2>1
<1>21. Leafing(d, l, map)
  BY <1>9, <1>11, <1>13, <1>17, <1>18, <1>19, <1>20 DEF Leafing
<1>22. Occupied(d, l) = Occupied(r, l) \cup {k} /\ Filled(d, l) = Filled(r, l) \cup {k}
  <2>1. KeysOf(d.leaf) = KeysOf(r.leaf) \cup {k}
    <3>1. L + 1 \in 1..(L + 1) /\ 1..(L + 1) = 1..L \cup {L + 1}
      BY <1>12
    <3>2. KeysOf(d.leaf) = {d.leaf[j].key : j \in 1..(L + 1)}
          /\ KeysOf(r.leaf) = {r.leaf[j].key : j \in 1..L}
      BY <1>13 DEF KeysOf, L
    <3> QED BY <1>4, <1>13, <3>1, <3>2, SMTT(30)
  <2> QED BY <1>11, <2>1 DEF Occupied, Filled
<1>23. \A j \in (i + 1)..N, x \in Occupied(d, l) : Less(x, pairs[j].key)
  <2> SUFFICES ASSUME NEW j \in (i + 1)..N, NEW x \in Occupied(d, l)
               PROVE  Less(x, pairs[j].key)
    OBVIOUS
  <2>1. j \in i..N /\ j \in 1..N /\ i < j
    BY <1>1
  <2> QED BY <1>1, <1>2, <1>8, <1>22, <2>1
<1>24. \A j \in 1..i : pairs[j].key \in Filled(d, l)
  <2>1. \A j \in 1..i : j \in 1..(i - 1) \/ j = i
    BY <1>1
  <2> QED BY <1>2, <1>8, <1>22, <2>1 DEF k
<1>25. Len(d.leaf) >= 1
  BY <1>12, <1>13
<1> QED BY <1>21, <1>23, <1>24, <1>25 DEF Filling, N

\* A leaf holds the chains of its entries.
LEMMA FlushLeafCovers ==
  ASSUME NEW b, b.pages \in Seq(Page), b.leaves \in Seq(Child), b.leaf # <<>>,
         NEW d, d = FlushLeaf(b), d.pages \in Seq(Page), Sound(d.pages), NEW E, NEW F,
         Covered(b.pages, PagesIn(Members(b.leaves)), E), E \subseteq F \cup ToSet(b.leaf)
  PROVE  Covered(d.pages, PagesIn(Members(d.leaves)), F)
<1> DEFINE n == Leaf(b.leaf)
           N == Len(b.pages)
           c == [first |-> b.leaf[1].key, page |-> N + 1]
           P == PagesIn(Members(b.leaves))
           Q == PagesIn(Members(d.leaves))
<1>1. d.pages = Append(b.pages, Stored(n)) /\ d.leaves = Append(b.leaves, c) /\ c.page = N + 1
  BY DEF FlushLeaf
<1>2. Stored(n) = n
  <2>1. N + 1 \in 1..Len(d.pages) /\ d.pages[N + 1] = Stored(n)
    BY <1>1
  <2>2. Stored(n) # Damaged
    BY <2>1 DEF Sound
  <2> QED BY <2>2 DEF Stored
<1>3. n.kind = "leaf" /\ n.entries = b.leaf
  BY DEF Leaf
<1> HIDE DEF n, c
<1>4. Members(b.leaves) \subseteq Members(d.leaves) /\ c \in Members(d.leaves)
  BY <1>1, MembersGrow
<1>5. Len(b.pages) + 1 \in Q /\ P \subseteq Q
  BY <1>1, <1>4 DEF PagesIn
<1> HIDE DEF P, Q, N
<1>6. Covered(b.pages, P, E)
  BY DEF P
<1>7. d.pages = Append(b.pages, n)
  BY <1>1, <1>2
<1>8. \A x \in P : x \in Q \/ (n.kind = "internal" /\ x \in ToSet(n.children))
  BY <1>5
<1>9. \A e \in E : e \in F \/ (n.kind = "leaf" /\ e \in ToSet(n.entries))
  BY <1>3
<1>10. Covered(d.pages, Q, F)
  BY <1>5, <1>6, <1>7, <1>8, <1>9, NodeCovers
<1> QED BY <1>10 DEF Q

\* The next pair's entry goes to the leaf; its chain is in front of a leaf flushed.
LEMMA AddEntryCovers ==
  ASSUME NEW b, b = [pages |-> b.pages, leaf |-> b.leaf, leaves |-> b.leaves],
         NEW g, FileHolds(b.pages, g), b.leaf \in Seq(Entry), b.leaves \in Seq(Child),
         NEW pair, pair.key \in TreeKeys, pair.val \in Values,
         NEW d, d = AddEntry(b, pair), d.pages \in Seq(Page), Sound(d.pages),
         Covered(b.pages, PagesIn(Members(b.leaves)), ToSet(b.leaf))
  PROVE  Covered(d.pages, PagesIn(Members(d.leaves)), ToSet(d.leaf))
<1> DEFINE made == MakeEntry(b.pages, pair.key, pair.val)
           e == made.entry
           s == [b EXCEPT !.pages = made.pages]
           full == b.leaf # <<>> /\ ~Fits(Leaf(Append(b.leaf, e)))
           r == IF full THEN FlushLeaf(s) ELSE s
           P == PagesIn(Members(b.leaves))
           F == ToSet(b.leaf) \cup {e}
<1>1. d = [r EXCEPT !.leaf = Append(@, e)]
  BY DEF AddEntry
<1>2. s.pages = made.pages /\ s.leaf = b.leaf /\ s.leaves = b.leaves
      /\ s = [pages |-> s.pages, leaf |-> s.leaf, leaves |-> s.leaves]
  <2> DEFINE x == b.pages
             y == b.leaf
             z == b.leaves
             m == made.pages
  <2>1. b = [pages |-> x, leaf |-> y, leaves |-> z]
    OBVIOUS
  <2> HIDE DEF x, y, z, m
  <2>2. s = [pages |-> m, leaf |-> y, leaves |-> z]
    BY <2>1 DEF m
  <2> QED BY <2>2 DEF x, y, z, m
<1>3. \E l : FileHolds(made.pages, l)
  BY MakesEntry
<1>4. made.pages \in Seq(Page)
  BY <1>3 DEF FileHolds
<1>5. Covered(made.pages, P, F)
  <2> DEFINE E == ToSet(b.leaf)
  <2>1. E \subseteq F /\ e \in F
    OBVIOUS
  <2> HIDE DEF E, F, P
  <2>2. Covered(b.pages, P, E)
    BY DEF E, P
  <2> QED BY <2>1, <2>2, ChainCovers
<1> HIDE DEF s, made
<1>6. CASE ~full
  <2>1. r = s
    BY <1>6
  <2> HIDE DEF r, e
  <2>2. d.pages = s.pages /\ d.leaves = s.leaves /\ d.leaf = Append(s.leaf, e)
    <3> DEFINE x == s.pages
               y == s.leaf
               z == s.leaves
    <3>1. s = [pages |-> x, leaf |-> y, leaves |-> z]
      BY <1>2
    <3> HIDE DEF x, y, z
    <3>2. d = [pages |-> x, leaf |-> Append(y, e), leaves |-> z]
      BY <1>1, <2>1, <3>1
    <3> QED BY <3>2 DEF x, y, z
  <2>3. ToSet(b.leaf) \subseteq ToSet(d.leaf) /\ e \in ToSet(d.leaf)
    BY <1>2, <2>2, MembersGrow
  <2>4. F \subseteq ToSet(d.leaf)
    BY <2>3
  <2>5. Covered(d.pages, P, F) /\ PagesIn(Members(d.leaves)) = P
    BY <1>2, <1>5, <2>2
  <2> HIDE DEF F, P
  <2> QED BY <2>4, <2>5 DEF Covered
<1>7. CASE full
  <2>1. r = FlushLeaf(s) /\ b.leaf # <<>>
    BY <1>7
  <2> HIDE DEF r, e, full
  <2>2. r = [pages |-> r.pages, leaf |-> r.leaf, leaves |-> r.leaves] /\ r.leaf = <<>>
    BY <1>2, <2>1 DEF FlushLeaf
  <2>3. d.pages = r.pages /\ d.leaves = r.leaves /\ d.leaf = Append(r.leaf, e)
    <3> DEFINE x == r.pages
               y == r.leaf
               z == r.leaves
    <3>1. r = [pages |-> x, leaf |-> y, leaves |-> z]
      BY <2>2
    <3> HIDE DEF x, y, z
    <3>2. d = [pages |-> x, leaf |-> Append(y, e), leaves |-> z]
      BY <1>1, <3>1
    <3> QED BY <3>2 DEF x, y, z
  <2>4. e \in ToSet(d.leaf)
    <3>1. r.leaf \in Seq(Entry)
      BY <2>2
    <3> QED BY <2>3, <3>1, MembersGrow
  <2> DEFINE G == ToSet(d.leaf)
  <2>5. F \subseteq G \cup ToSet(s.leaf)
    BY <1>2, <2>4
  <2>6. Covered(s.pages, PagesIn(Members(s.leaves)), F)
    BY <1>2, <1>5
  <2>7. /\ s.pages \in Seq(Page) /\ s.leaves \in Seq(Child) /\ s.leaf # <<>>
        /\ r.pages \in Seq(Page) /\ Sound(r.pages)
    BY <1>2, <1>4, <2>1, <2>3
  <2> HIDE DEF F, P, G
  <2>8. Covered(r.pages, PagesIn(Members(r.leaves)), G)
    BY <2>1, <2>5, <2>6, <2>7, FlushLeafCovers
  <2> QED BY <2>3, <2>8 DEF G
<1> QED BY <1>6, <1>7

\* f gives the builder after so many pairs.
Adds(pairs, f) ==
  /\ f[0] = [pages |-> <<>>, leaf |-> <<>>, leaves |-> <<>>]
  /\ \A n \in 1..Len(pairs) : f[n] = AddEntry(f[n - 1], pairs[n])

\* The leaves are built pair by pair.
LEMMA LeavesOf ==
  ASSUME NEW pairs, Len(pairs) \in Nat
  PROVE  \E f : Adds(pairs, f) /\ Leaves(pairs) = FlushLeaf(f[Len(pairs)])
<1> DEFINE First == [pages |-> <<>>, leaf |-> <<>>, leaves |-> <<>>]
           Step(x, n) == AddEntry(x, pairs[n])
           Rec(f, k) == [n \in 0..k |-> IF n = 0 THEN First ELSE Step(f[n - 1], n)]
           Bad == {k \in 0..Len(pairs) : ~\E f : f = Rec(f, k)}
           all == CHOOSE f : f = Rec(f, Len(pairs))
<1>0. Len(pairs) \in Nat
  OBVIOUS
<1>1. Leaves(pairs) = FlushLeaf(all[Len(pairs)])
  BY DEF Leaves
<1> HIDE DEF First, Step
<1>2. Bad = {}
  <2> SUFFICES ASSUME Bad # {} PROVE FALSE
    OBVIOUS
  <2>1. PICK k \in Bad : \A y \in Bad : k <= y
    <3>1. Bad \subseteq Nat
      OBVIOUS
    <3> HIDE DEF Bad
    <3> QED BY <3>1, Least
  <2>2. k \in 0..Len(pairs) /\ ~\E f : f = Rec(f, k)
    OBVIOUS
  <2>3. CASE k = 0
    <3> DEFINE f == [n \in 0..0 |-> First]
    <3>1. f = Rec(f, 0)
      OBVIOUS
    <3> QED BY <2>2, <2>3, <3>1
  <2>4. CASE k # 0
    <3>1. k - 1 \in 0..Len(pairs) /\ ~(k <= k - 1)
      BY <1>0, <2>2, <2>4
    <3>2. PICK f : f = Rec(f, k - 1)
      <4>1. k - 1 \notin Bad
        <5> HIDE DEF Bad
        <5> QED BY <2>1, <3>1
      <4> QED BY <3>1, <4>1
    <3> DEFINE g == [n \in 0..k |-> IF n = k THEN Step(f[k - 1], k) ELSE f[n]]
    <3>3. ASSUME NEW n \in 0..k
          PROVE  g[n] = IF n = 0 THEN First ELSE Step(g[n - 1], n)
      <4>1. n = k \/ n \in 0..(k - 1)
        BY <2>2
      <4>2. n # 0 => n - 1 \in 0..(k - 1) /\ n - 1 \in 0..k /\ n - 1 # k
        BY <2>2
      <4>3. n # 0 => g[n - 1] = f[n - 1]
        BY <4>2
      <4>4. n \in 0..(k - 1) => f[n] = IF n = 0 THEN First ELSE Step(f[n - 1], n)
        BY <3>2
      <4>5. g[n] = IF n = k THEN Step(f[k - 1], k) ELSE f[n]
        OBVIOUS
      <4> HIDE DEF g
      <4> QED BY <2>4, <4>1, <4>3, <4>4, <4>5
    <3>4. g = Rec(g, k)
      BY <3>3
    <3> HIDE DEF g
    <3> QED BY <2>2, <3>4
  <2> QED BY <2>3, <2>4
<1>3. \E f : f = Rec(f, Len(pairs))
  BY <1>0, <1>2
<1>4. all = Rec(all, Len(pairs))
  <2> HIDE DEF Rec
  <2> QED BY <1>3
<1>5. all[0] = First
  <2> HIDE DEF all
  <2> QED BY <1>0, <1>4
<1>6. ASSUME NEW n \in 1..Len(pairs) PROVE all[n] = Step(all[n - 1], n)
  <2>1. n \in 0..Len(pairs) /\ n # 0
    BY <1>0
  <2> HIDE DEF all
  <2> QED BY <1>4, <2>1
<1> HIDE DEF all
<1>7. QED BY <1>1, <1>5, <1>6 DEF First, Step, Adds

\* The leaves of pairs are a level of their map.
LEMMA LeavesHold ==
  ASSUME NEW map, NEW pairs, Shows(pairs, map, DOMAIN map),
         DOMAIN map \subseteq TreeKeys, \A k \in DOMAIN map : map[k] \in Values,
         NEW d, d = Leaves(pairs)
  PROVE  IF DOMAIN map = {}
         THEN d.pages = <<>> /\ d.leaves = <<>>
         ELSE \E l : IsLevel(d.pages, l, map, d.leaves)
<1> DEFINE N == Len(pairs)
<1>1. /\ N \in Nat /\ \A j \in 1..N : pairs[j].key \in DOMAIN map
      /\ \A k \in DOMAIN map : \E j \in 1..N : pairs[j].key = k
  <2> DEFINE keys == DOMAIN map
  <2>1. Shows(pairs, map, keys)
    OBVIOUS
  <2> HIDE DEF keys
  <2>2. pairs \in Seq(Pair)
    BY <2>1, Zenon DEF Shows
  <2>3. /\ \A j \in 1..N : pairs[j].key \in keys
        /\ \A k \in keys : \E j \in 1..N : pairs[j].key = k
    BY <2>1, Zenon DEF Shows
  <2>4. N \in Nat
    BY <2>2
  <2> QED BY <2>3, <2>4 DEF keys
<1>2. N \in Nat
  BY <1>1
<1>3. PICK f : Adds(pairs, f) /\ d = FlushLeaf(f[N])
  BY <1>2, LeavesOf
<1>4. /\ f[0] = [pages |-> <<>>, leaf |-> <<>>, leaves |-> <<>>]
      /\ \A i \in 1..N : f[i] = AddEntry(f[i - 1], pairs[i])
  BY <1>3 DEF Adds
<1> DEFINE none == {}
           AllHeld(i) == Covered(f[i].pages, PagesIn(Members(f[i].leaves)), ToSet(f[i].leaf))
           Right(i) == (\E l : Filling(f[i], l, map, pairs, i)) /\ AllHeld(i)
<1> HIDE DEF none
<1>5. Right(0)
  <2> DEFINE b == f[0]
             g == <<>>
  <2>1. b = [pages |-> <<>>, leaf |-> <<>>, leaves |-> <<>>]
    BY <1>4
  <2> HIDE DEF b
  <2>2. b.pages = <<>> /\ b.leaf = <<>> /\ b.leaves = <<>>
    BY <2>1
  <2>3. Len(<<>>) = 0 /\ <<>> \in Seq(Page) /\ <<>> \in Seq(Entry) /\ \A i \in 1..0 : FALSE
    OBVIOUS
  <2> HIDE DEF g
  <2>4. IsRow(b.pages, g, map, <<>>) /\ Members(<<>>) = {}
    BY NoRow
  <2>5. FileHolds(b.pages, g) /\ Sound(b.pages)
    BY <2>2, <2>3 DEF FileHolds, Sound
  <2>6. b = [pages |-> b.pages, leaf |-> b.leaf, leaves |-> b.leaves]
    BY <2>1, <2>2
  <2>7. Leafing(b, g, map)
    BY <2>2, <2>3, <2>4, <2>5, <2>6 DEF Leafing
  <2>8. Occupied(b, g) = {}
    <3>1. KeysOf(<<>>) = {}
      BY <2>3 DEF KeysOf
    <3> QED BY <2>2, <2>4, <3>1 DEF Occupied, Marks
  <2>9. \A j \in 1..0 : pairs[j].key \in Filled(b, g)
    BY <2>3
  <2>10. Filling(b, g, map, pairs, 0)
    BY <2>7, <2>8, <2>9 DEF Filling
  <2>11. Covered(b.pages, PagesIn(Members(b.leaves)), ToSet(b.leaf))
    BY <2>2, <2>3 DEF Covered
  <2>12. AllHeld(0)
    BY <2>11 DEF b
  <2> HIDE DEF AllHeld
  <2> QED BY <2>10, <2>12 DEF b
<1>6. ASSUME NEW i \in 1..N, Right(i - 1) PROVE Right(i)
  <2>1. PICK g : Filling(f[i - 1], g, map, pairs, i - 1)
    BY <1>6
  <2>2. f[i] = AddEntry(f[i - 1], pairs[i])
    BY <1>4
  <2>3. \E l : Filling(f[i], l, map, pairs, i)
    BY <2>1, <2>2, AddEntryHolds
  <2>4. AllHeld(i)
    <3> DEFINE b == f[i - 1]
               r == f[i]
               pair == pairs[i]
               E == ToSet(b.leaf)
               F == ToSet(r.leaf)
    <3>1. PICK l : Filling(r, l, map, pairs, i)
      BY <2>3
    <3>2. pair.key \in TreeKeys /\ pair.val \in Values
      BY <1>1 DEF Shows
    <3>3. Covered(b.pages, PagesIn(Members(b.leaves)), ToSet(b.leaf))
      BY <1>6
    <3>4. Filling(b, g, map, pairs, i - 1)
      BY <2>1
    <3>5. r = AddEntry(b, pair)
      BY <2>2
    <3> HIDE DEF b, r, pair
    <3>6. Leafing(b, g, map) /\ Leafing(r, l, map)
      BY <3>1, <3>4 DEF Filling
    <3>7. /\ b = [pages |-> b.pages, leaf |-> b.leaf, leaves |-> b.leaves]
          /\ FileHolds(b.pages, g) /\ b.leaf \in Seq(Entry) /\ b.leaves \in Seq(Child)
      BY <3>6 DEF Leafing, IsRow
    <3>8. r.pages \in Seq(Page) /\ Sound(r.pages)
      BY <3>6 DEF Leafing, FileHolds
    <3>9. Covered(r.pages, PagesIn(Members(r.leaves)), ToSet(r.leaf))
      BY <3>2, <3>3, <3>5, <3>7, <3>8, AddEntryCovers
    <3> QED BY <3>9 DEF r
  <2> HIDE DEF AllHeld
  <2> QED BY <2>3, <2>4
<1>7. Right(N)
  <2> HIDE DEF AllHeld
  <2> DEFINE Bad == {i \in 0..N : ~Right(i)}
  <2> SUFFICES ASSUME Bad # {} PROVE FALSE
    BY <1>2
  <2>1. PICK i \in Bad : \A y \in Bad : i <= y
    <3>1. Bad \subseteq Nat
      OBVIOUS
    <3> HIDE DEF Bad
    <3> QED BY <3>1, Least
  <2>2. i \in 0..N /\ ~Right(i)
    OBVIOUS
  <2> HIDE DEF Right, N
  <2>3. i # 0
    BY <1>5, <2>2
  <2>4. i \in 1..N /\ i - 1 \in 0..N /\ ~(i <= i - 1)
    BY <1>2, <2>2, <2>3
  <2>5. Right(i - 1)
    BY <2>1, <2>4
  <2> QED BY <1>6, <2>2, <2>4, <2>5
<1> DEFINE b == f[N]
<1> HIDE DEF b
<1>8. PICK g : Filling(b, g, map, pairs, N)
  BY <1>7 DEF b
<1>9. /\ Leafing(b, g, map) /\ \A j \in 1..N : pairs[j].key \in Filled(b, g)
      /\ N = 0 \/ Len(b.leaf) >= 1
  <2> HIDE DEF N
  <2> QED BY <1>8 DEF Filling
<1>10. CASE N = 0
  <2>1. DOMAIN map = {}
    <3>1. \A j \in 1..0 : FALSE
      OBVIOUS
    <3> QED BY <1>1, <1>10, <3>1
  <2>2. b = [pages |-> <<>>, leaf |-> <<>>, leaves |-> <<>>]
    BY <1>4, <1>10 DEF b
  <2>3. d = b
    BY <1>3, <2>2 DEF FlushLeaf, b
  <2> QED BY <2>1, <2>2, <2>3
<1>11. CASE N # 0
  <2>1. DOMAIN map # {}
    <3>1. 1 \in 1..N
      BY <1>2, <1>11
    <3> QED BY <1>1, <3>1
  <2>2. d = FlushLeaf(b) /\ Len(b.leaf) >= 1
    BY <1>3, <1>9, <1>11 DEF b
  <2>3. PICK l : Carries(b, g, map, d, l) /\ d.leaf = <<>> /\ Len(d.leaves) >= 1
    BY <1>9, <2>2, FlushLeafHolds
  <2>4. Leafing(d, l, map) /\ Filled(d, l) = Filled(b, g)
    BY <2>3 DEF Carries
  <2>5. FileHolds(d.pages, l) /\ Sound(d.pages) /\ IsRow(d.pages, l, map, d.leaves)
    BY <2>4 DEF Leafing
  <2>6. KeysOf(d.leaf) = {}
    <3>1. Len(<<>>) = 0 /\ \A i \in 1..0 : FALSE
      OBVIOUS
    <3> QED BY <2>3, <3>1 DEF KeysOf
  <2>7. DOMAIN map \subseteq Holding(l, Members(d.leaves))
    <3>1. DOMAIN map \subseteq Filled(b, g)
      BY <1>1, <1>9
    <3> QED BY <2>4, <2>6, <3>1 DEF Filled
  <2>8. Covered(d.pages, PagesIn(Members(d.leaves)), none)
    <3> DEFINE E == ToSet(b.leaf)
    <3>1. AllHeld(N)
      BY <1>7
    <3>2. Covered(b.pages, PagesIn(Members(b.leaves)), E)
      BY <3>1 DEF b
    <3>3. b.pages \in Seq(Page) /\ b.leaves \in Seq(Child) /\ b.leaf # <<>>
      <4>1. Len(<<>>) = 0
        OBVIOUS
      <4> QED BY <1>9, <2>2, <4>1 DEF Leafing, IsRow, FileHolds
    <3>4. d.pages \in Seq(Page) /\ Sound(d.pages)
      BY <2>5 DEF FileHolds
    <3>5. E \subseteq none \cup ToSet(b.leaf)
      OBVIOUS
    <3>6. d = FlushLeaf(b)
      BY <2>2
    <3> HIDE DEF E
    <3> QED BY <3>2, <3>3, <3>4, <3>5, <3>6, FlushLeafCovers
  <2> QED BY <2>1, <2>3, <2>5, <2>7, <2>8 DEF IsLevel, none
<1> QED BY <1>10, <1>11

\* The level upon x, and the tree whose last level is x.
LevelUpon(x) ==
  IF Len(x.level) = 1 THEN x
  ELSE [pages |-> Raised(x.pages, x.level).pages, level |-> Raised(x.pages, x.level).level]
TopOf(b, x) ==
  IF b.leaves = <<>> THEN [pages |-> b.pages, root |-> InvalidPageID]
  ELSE [pages |-> x.pages, root |-> x.level[1].page]

\* f gives the level after so many steps.
Builds(pairs, f) ==
  /\ f[0] = [pages |-> Leaves(pairs).pages, level |-> Leaves(pairs).leaves]
  /\ \A n \in 1..Len(Leaves(pairs).leaves) : f[n] = LevelUpon(f[n - 1])

\* Levels are built one upon the other.
LEMMA BuiltOf ==
  ASSUME NEW pairs, Len(Leaves(pairs).leaves) \in Nat
  PROVE  \E f : Builds(pairs, f) /\ Built(pairs) = TopOf(Leaves(pairs), f[Len(Leaves(pairs).leaves)])
<1> DEFINE First == [pages |-> Leaves(pairs).pages, level |-> Leaves(pairs).leaves]
           Step(x, n) == LevelUpon(x)
           Rec(f, k) == [n \in 0..k |-> IF n = 0 THEN First ELSE Step(f[n - 1], n)]
           Bad == {k \in 0..Len(Leaves(pairs).leaves) : ~\E f : f = Rec(f, k)}
           all == CHOOSE f : f = Rec(f, Len(Leaves(pairs).leaves))
<1>0. Len(Leaves(pairs).leaves) \in Nat
  OBVIOUS
<1>1. Built(pairs) = TopOf(Leaves(pairs), all[Len(Leaves(pairs).leaves)])
  BY DEF Built, LevelUpon, TopOf
<1> HIDE DEF First, Step
<1>2. Bad = {}
  <2> SUFFICES ASSUME Bad # {} PROVE FALSE
    OBVIOUS
  <2>1. PICK k \in Bad : \A y \in Bad : k <= y
    <3>1. Bad \subseteq Nat
      OBVIOUS
    <3> HIDE DEF Bad
    <3> QED BY <3>1, Least
  <2>2. k \in 0..Len(Leaves(pairs).leaves) /\ ~\E f : f = Rec(f, k)
    OBVIOUS
  <2>3. CASE k = 0
    <3> DEFINE f == [n \in 0..0 |-> First]
    <3>1. f = Rec(f, 0)
      OBVIOUS
    <3> QED BY <2>2, <2>3, <3>1
  <2>4. CASE k # 0
    <3>1. k - 1 \in 0..Len(Leaves(pairs).leaves) /\ ~(k <= k - 1)
      BY <1>0, <2>2, <2>4
    <3>2. PICK f : f = Rec(f, k - 1)
      <4>1. k - 1 \notin Bad
        <5> HIDE DEF Bad
        <5> QED BY <2>1, <3>1
      <4> QED BY <3>1, <4>1
    <3> DEFINE g == [n \in 0..k |-> IF n = k THEN Step(f[k - 1], k) ELSE f[n]]
    <3>3. ASSUME NEW n \in 0..k
          PROVE  g[n] = IF n = 0 THEN First ELSE Step(g[n - 1], n)
      <4>1. n = k \/ n \in 0..(k - 1)
        BY <2>2
      <4>2. n # 0 => n - 1 \in 0..(k - 1) /\ n - 1 \in 0..k /\ n - 1 # k
        BY <2>2
      <4>3. n # 0 => g[n - 1] = f[n - 1]
        BY <4>2
      <4>4. n \in 0..(k - 1) => f[n] = IF n = 0 THEN First ELSE Step(f[n - 1], n)
        BY <3>2
      <4>5. g[n] = IF n = k THEN Step(f[k - 1], k) ELSE f[n]
        OBVIOUS
      <4> HIDE DEF g
      <4> QED BY <2>4, <4>1, <4>3, <4>4, <4>5
    <3>4. g = Rec(g, k)
      BY <3>3
    <3> HIDE DEF g
    <3> QED BY <2>2, <3>4
  <2> QED BY <2>3, <2>4
<1>3. \E f : f = Rec(f, Len(Leaves(pairs).leaves))
  BY <1>0, <1>2
<1>4. all = Rec(all, Len(Leaves(pairs).leaves))
  <2> HIDE DEF Rec
  <2> QED BY <1>3
<1>5. all[0] = First
  <2> HIDE DEF all
  <2> QED BY <1>0, <1>4
<1>6. ASSUME NEW n \in 1..Len(Leaves(pairs).leaves) PROVE all[n] = Step(all[n - 1], n)
  <2>1. n \in 0..Len(Leaves(pairs).leaves) /\ n # 0
    BY <1>0
  <2> HIDE DEF all
  <2> QED BY <1>4, <2>1
<1> HIDE DEF all
<1>7. QED BY <1>1, <1>5, <1>6 DEF First, Step, Builds

\* What the builder makes of pairs is a tree that holds their map, in a file with
\* no page cut off, and none but its root that nothing holds; of none, no tree.
Makes(done, map, l) ==
  /\ FileHolds(done.pages, l) /\ Sound(done.pages)
  /\ IsRoot(done.pages, done.root) /\ l[done.root].map = map
  /\ Covered(done.pages, {done.root}, {})

LEMMA BuiltHolds ==
  ASSUME NEW map, NEW pairs, Shows(pairs, map, DOMAIN map),
         DOMAIN map \subseteq TreeKeys, \A k \in DOMAIN map : map[k] \in Values,
         map = [k \in DOMAIN map |-> map[k]], NEW done, done = Built(pairs)
  PROVE  IF DOMAIN map = {}
         THEN done.pages = <<>> /\ done.root = InvalidPageID
         ELSE \E l : Makes(done, map, l)
<1> DEFINE b == Leaves(pairs)
           N == Len(b.leaves)
<1>1. IF DOMAIN map = {}
      THEN b.pages = <<>> /\ b.leaves = <<>>
      ELSE \E l : IsLevel(b.pages, l, map, b.leaves)
  BY LeavesHold
<1>2. N \in Nat /\ (DOMAIN map # {} => N >= 1)
  BY <1>1 DEF IsLevel, IsRow
<1>3. PICK f : Builds(pairs, f) /\ done = TopOf(b, f[N])
  BY <1>2, BuiltOf
<1>4. /\ f[0] = [pages |-> b.pages, level |-> b.leaves]
      /\ \A i \in 1..N : f[i] = LevelUpon(f[i - 1])
  BY <1>3 DEF Builds
<1> HIDE DEF b
<1>a. CASE DOMAIN map = {}
  BY <1>1, <1>3, <1>a DEF TopOf
<1>b. CASE DOMAIN map # {}
  <2> DEFINE Right(i) == /\ \E l : IsLevel(f[i].pages, l, map, f[i].level)
                         /\ Len(f[i].level) = 1 \/ Len(f[i].level) + i <= N
  <2>1. Right(0)
    <3>1. f[0].pages = b.pages /\ f[0].level = b.leaves
      BY <1>4
    <3> QED BY <1>1, <1>2, <1>b, <3>1
  <2>2. ASSUME NEW i \in 1..N, Right(i - 1) PROVE Right(i)
    <3> DEFINE x == f[i - 1]
    <3>1. f[i] = LevelUpon(x)
      BY <1>4
    <3>2. PICK g : IsLevel(x.pages, g, map, x.level)
      BY <2>2
    <3>3. Len(x.level) = 1 \/ Len(x.level) + (i - 1) <= N
      BY <2>2
    <3>4. Len(x.level) \in Nat /\ Len(x.level) >= 1
      BY <3>2 DEF IsLevel, IsRow
    <3> HIDE DEF x
    <3>5. CASE Len(x.level) = 1
      BY <3>1, <3>2, <3>5 DEF LevelUpon
    <3>6. CASE Len(x.level) # 1
      <4> DEFINE r == Raised(x.pages, x.level)
      <4>1. /\ \E l : Extends(x.pages, g, r.pages, l) /\ IsLevel(r.pages, l, map, r.level)
            /\ 2 * Len(r.level) <= Len(x.level) + 1
        BY <3>2, RaisedHolds
      <4>2. PICK l : IsLevel(r.pages, l, map, r.level)
        BY <4>1
      <4>3. Len(r.level) \in Nat
        BY <4>2 DEF IsLevel, IsRow
      <4>4. f[i].pages = r.pages /\ f[i].level = r.level
        BY <3>1, <3>6 DEF LevelUpon
      <4>5. Len(r.level) + i <= N
        <5> DEFINE u == Len(r.level)
                   w == Len(x.level)
        <5>1. u \in Nat /\ w \in Nat /\ w >= 1 /\ w # 1 /\ 2 * u <= w + 1 /\ w + (i - 1) <= N
              /\ i \in Int
          BY <3>3, <3>4, <3>6, <4>1, <4>3
        <5> HIDE DEF u, w, N, r
        <5>2. u <= w - 1
          BY <5>1
        <5>3. u + i <= N
          BY <1>2, <5>1, <5>2
        <5> QED BY <5>3 DEF u
      <4> HIDE DEF r
      <4> QED BY <4>2, <4>4, <4>5
    <3> QED BY <3>5, <3>6
  <2>3. Right(N)
    <3> DEFINE Bad == {i \in 0..N : ~Right(i)}
    <3> SUFFICES ASSUME Bad # {} PROVE FALSE
      <4> HIDE DEF Right, N
      <4> QED BY <1>2
    <3>1. PICK i \in Bad : \A y \in Bad : i <= y
      <4>1. Bad \subseteq Nat
        OBVIOUS
      <4> HIDE DEF Bad
      <4> QED BY <4>1, Least
    <3>2. i \in 0..N /\ ~Right(i)
      OBVIOUS
    <3> HIDE DEF Right, N
    <3>3. i # 0
      BY <2>1, <3>2
    <3>4. i \in 1..N /\ i - 1 \in 0..N /\ ~(i <= i - 1)
      BY <1>2, <3>2, <3>3
    <3>5. Right(i - 1)
      BY <3>1, <3>4
    <3> QED BY <2>2, <3>2, <3>4, <3>5
  <2> DEFINE x == f[N]
             c == x.level[1]
  <2>4. PICK l : IsLevel(x.pages, l, map, x.level)
    BY <2>3
  <2>5. Len(x.level) = 1 \/ Len(x.level) + N <= N
    BY <2>3
  <2>6. /\ FileHolds(x.pages, l) /\ Sound(x.pages) /\ IsRow(x.pages, l, map, x.level)
        /\ Len(x.level) >= 1 /\ Len(x.level) \in Nat
        /\ DOMAIN map \subseteq Holding(l, Members(x.level))
    BY <2>4 DEF IsLevel, IsRow
  <2>7. b.leaves # <<>>
    <3>1. Len(<<>>) = 0
      OBVIOUS
    <3> QED BY <1>2, <1>b, <3>1
  <2>8. done.pages = x.pages /\ done.root = c.page
    BY <1>3, <2>7 DEF TopOf
  <2> HIDE DEF x, N
  <2>9. Len(x.level) = 1
    BY <1>2, <2>5, <2>6
  <2>10. Members(x.level) = {c} /\ ChildOf(x.pages, l, map, c)
    <3>1. 1..1 = {1} /\ 1 \in 1..1
      OBVIOUS
    <3> QED BY <2>6, <2>9, <3>1 DEF Members, IsRow
  <2> HIDE DEF c
  <2>11. /\ c.page \in 1..Len(x.pages) /\ x.pages[c.page].kind # "overflow"
         /\ \A k \in DOMAIN l[c.page].map : k \in DOMAIN map /\ l[c.page].map[k] = map[k]
    BY <2>10 DEF ChildOf
  <2>12. DOMAIN map \subseteq DOMAIN l[c.page].map
    BY <2>6, <2>10 DEF Holding
  <2>13. IsRecord(l[c.page])
    BY <2>6, <2>11, KindsAre
  <2>14. l[c.page].map = map
    <3> DEFINE m == l[c.page].map
    <3>1. m = [k \in DOMAIN m |-> m[k]] /\ DOMAIN m = DOMAIN map /\ \A k \in DOMAIN map : m[k] = map[k]
      BY <2>11, <2>12, <2>13 DEF IsRecord
    <3> HIDE DEF m
    <3>2. m = map
      BY <3>1
    <3> QED BY <3>2 DEF m
  <2>15. Covered(done.pages, {done.root}, {})
    <3>1. Covered(x.pages, PagesIn(Members(x.level)), {})
      BY <2>4 DEF IsLevel
    <3>2. PagesIn(Members(x.level)) = {done.root}
      BY <2>8, <2>10 DEF PagesIn
    <3> QED BY <2>8, <3>1, <3>2
  <2>16. Makes(done, map, l)
    BY <2>6, <2>8, <2>11, <2>14, <2>15 DEF Makes, IsRoot
  <2> QED BY <1>b, <2>16
<1> QED BY <1>a, <1>b

-----------------------------------------------------------------------------
(***************************************************************************)
(* A page that cannot be written                                           *)
(***************************************************************************)

\* What a node holds depends on the pages before it.
LEMMA NodeBelow ==
  ASSUME NEW file, NEW g, NEW later, NEW l, NEW p \in Nat,
         \A i \in 1..(p - 1) : later[i] = file[i] /\ l[i] = g[i], NEW n, NEW h
  PROVE  /\ LeafHolds(file, p, n, h) => LeafHolds(later, p, n, h)
         /\ InternalHolds(file, p, n, h, g) => InternalHolds(later, p, n, h, l)
<1>1. ASSUME NEW e, NEW v, EntryHolds(file, p, e, v) PROVE EntryHolds(later, p, e, v)
  <2>1. CASE e.head = InvalidPageID /\ e.inline = v /\ v.len <= MaxInline
    BY <1>1, <2>1 DEF EntryHolds
  <2>2. CASE /\ e.head \in 1..(p - 1) /\ e.head + Parts(v) <= p
             /\ \A i \in 1..Parts(v) : file[e.head + i - 1] = Overflow(v, e.head)[i]
    <3>1. v \in Values /\ e \in Entry
      BY <1>1 DEF EntryHolds
    <3>2. Parts(v) \in Nat
      BY <3>1, PartsAre
    <3>3. \A i \in 1..Parts(v) : e.head + i - 1 \in 1..(p - 1)
      BY <2>2, <3>2
    <3>4. \A i \in 1..Parts(v) : later[e.head + i - 1] = Overflow(v, e.head)[i]
      BY <2>2, <3>3
    <3> QED BY <2>2, <3>1, <3>4 DEF EntryHolds
  <2> QED BY <1>1, <2>1, <2>2 DEF EntryHolds
<1>2. ASSUME LeafHolds(file, p, n, h) PROVE LeafHolds(later, p, n, h)
  BY <1>1, <1>2 DEF LeafHolds
<1>3. ASSUME InternalHolds(file, p, n, h, g) PROVE InternalHolds(later, p, n, h, l)
  <2>1. ASSUME NEW i \in DOMAIN n.children
        PROVE  ChildHolds(later, p, n, h, l, i) /\ l[n.children[i]] = g[n.children[i]]
    <3>1. ChildHolds(file, p, n, h, g, i)
      BY <1>3 DEF InternalHolds
    <3>2. n.children[i] \in 1..(p - 1)
      BY <3>1 DEF ChildHolds
    <3>3. later[n.children[i]] = file[n.children[i]] /\ l[n.children[i]] = g[n.children[i]]
      BY <3>2
    <3> QED BY <3>1, <3>2, <3>3 DEF ChildHolds
  <2>2. \A k \in DOMAIN h.map :
          \E i \in DOMAIN n.children : k \in DOMAIN l[n.children[i]].map
    BY <1>3, <2>1 DEF InternalHolds
  <2> QED BY <1>3, <2>1, <2>2 DEF InternalHolds
<1> QED BY <1>2, <1>3

\* The file that is left when one of the pages an insert writes cannot be.
Cut(chain, done, failed, later) ==
  /\ failed \in 1..Len(done)
  /\ later = [p \in 1..(IF failed <= Len(chain) THEN Len(chain) ELSE failed) |->
                IF p < failed THEN done[p] ELSE Damaged]

\* Such a file holds what is in front of that page.
LEMMA CutHolds ==
  ASSUME NEW file, NEW g, FileHolds(file, g), NEW chain, NEW l0, FileHolds(chain, l0),
         Extends(file, g, chain, l0), NEW done, NEW l, FileHolds(done, l),
         Extends(chain, l0, done, l),
         \A p \in (Len(chain) + 1)..Len(done) : done[p].kind # "overflow",
         NEW failed, Len(file) < failed, NEW later, Cut(chain, done, failed, later)
  PROVE  \E m : FileHolds(later, m) /\ Extends(file, g, later, m)
<1> DEFINE N == Len(file)
           C == Len(chain)
           D == Len(done)
           U == IF failed <= C THEN C ELSE failed
           m == [p \in 1..U |-> IF p < failed THEN l[p]
                                ELSE [map |-> [x \in {} |-> NoValue], marks |-> {}]]
<1>1. /\ N \in Nat /\ C \in Nat /\ D \in Nat /\ N <= C /\ C <= D /\ N < failed
      /\ failed \in 1..D /\ done \in Seq(Page) /\ file \in Seq(Page) /\ chain \in Seq(Page)
  BY DEF Extends, FileHolds, Cut
<1>2. later = [p \in 1..U |-> IF p < failed THEN done[p] ELSE Damaged]
  BY DEF Cut
<1> HIDE DEF N, C, D
<1>3. U \in Nat /\ failed <= U + 1 /\ U <= D /\ N <= U
  BY <1>1
<1>4. \A p \in 1..U : /\ p < failed => later[p] = done[p] /\ m[p] = l[p]
                      /\ ~(p < failed) =>
                           /\ later[p] = Damaged
                           /\ m[p] = [map |-> [x \in {} |-> NoValue], marks |-> {}]
  BY <1>2
<1>5. \A p \in 1..U : p \in 1..D /\ later[p] \in Page
  <2>1. \A p \in 1..U : p \in 1..D
    BY <1>1, <1>3
  <2>2. Damaged \in Page
    BY DEF Page
  <2>3. \A p \in 1..D : done[p] \in Page
    BY <1>1 DEF D
  <2> QED BY <1>4, <2>1, <2>2, <2>3
<1>6. later \in Seq(Page) /\ Len(later) = U
  <2>1. later = [p \in 1..U |-> later[p]]
    BY <1>2
  <2> HIDE DEF U
  <2> QED BY <1>3, <1>5, <2>1
<1> HIDE DEF m
<1>7. ASSUME NEW p \in 1..U
      PROVE  /\ IsRecord(m[p])
             /\ later[p].kind = "leaf" => LeafHolds(later, p, later[p], m[p])
             /\ later[p].kind = "internal" => InternalHolds(later, p, later[p], m[p], m)
             /\ later[p].kind = "overflow" => later[p].next \in 1..U \cup {InvalidPageID}
  <2>1. CASE ~(p < failed)
    <3>1. later[p].kind = "damaged"
      BY <1>4, <2>1 DEF Damaged
    <3>2. IsRecord(m[p])
      <4>1. m[p] = [map |-> [x \in {} |-> NoValue], marks |-> {}]
        BY <1>4, <2>1
      <4> QED BY <4>1 DEF IsRecord
    <3> QED BY <3>1, <3>2
  <2>2. CASE p < failed
    <3>1. later[p] = done[p] /\ m[p] = l[p] /\ p \in 1..D /\ p \in Nat
      BY <1>4, <1>5, <2>2
    <3>2. /\ IsRecord(l[p])
          /\ done[p].kind = "leaf" => LeafHolds(done, p, done[p], l[p])
          /\ done[p].kind = "internal" => InternalHolds(done, p, done[p], l[p], l)
      BY <3>1 DEF FileHolds, D
    <3>3. \A i \in 1..(p - 1) : later[i] = done[i] /\ m[i] = l[i]
      <4>1. \A i \in 1..(p - 1) : i \in 1..U /\ i < failed
        <5> HIDE DEF U
        <5>1. failed \in Nat /\ p \in 1..U
          BY <1>1
        <5> QED BY <1>3, <2>2, <5>1
      <4> QED BY <1>4, <4>1
    <3>4. /\ LeafHolds(done, p, done[p], l[p]) => LeafHolds(later, p, done[p], l[p])
          /\ InternalHolds(done, p, done[p], l[p], l) => InternalHolds(later, p, done[p], l[p], m)
      BY <3>1, <3>3, NodeBelow
    <3>5. done[p].kind = "overflow" => done[p].next \in 1..U \cup {InvalidPageID}
      <4> SUFFICES ASSUME done[p].kind = "overflow"
                   PROVE  done[p].next \in 1..U \cup {InvalidPageID}
        OBVIOUS
      <4>1. p \in 1..C
        <5>1. p \notin (C + 1)..D
          BY DEF C, D
        <5> QED BY <1>1, <3>1, <5>1
      <4>2. chain[p] = done[p]
        BY <4>1 DEF Extends, C
      <4>3. chain[p].next \in 1..C \cup {InvalidPageID}
        BY <4>1, <4>2 DEF FileHolds, C
      <4>4. 1..C \subseteq 1..U
        BY <1>1, <1>3
      <4> QED BY <4>2, <4>3, <4>4
    <3> QED BY <3>1, <3>2, <3>4, <3>5
  <2> QED BY <2>1, <2>2
<1>8. FileHolds(later, m)
  <2> HIDE DEF U
  <2> QED BY <1>6, <1>7 DEF FileHolds
<1>9. Extends(file, g, later, m)
  <2>1. \A p \in 1..N : p \in 1..U /\ p < failed /\ p \in 1..C
    BY <1>1, <1>3
  <2>2. \A p \in 1..N : done[p] = chain[p] /\ l[p] = l0[p] /\ chain[p] = file[p] /\ l0[p] = g[p]
    BY <2>1 DEF Extends, N, C
  <2>3. \A p \in 1..N : later[p] = file[p] /\ m[p] = g[p]
    BY <1>4, <2>1, <2>2
  <2> HIDE DEF U
  <2> QED BY <1>3, <1>6, <2>3 DEF Extends, N
<1> QED BY <1>8, <1>9

-----------------------------------------------------------------------------
(***************************************************************************)
(* The invariant: records for all pages that are there, of which those of  *)
(* the captured roots hold what was captured                               *)
(***************************************************************************)
Keeps(file, r, map, snapshots, g) ==
  /\ FileHolds(file, g)
  /\ IF r = InvalidPageID
     THEN DOMAIN map = {}
     ELSE r \in DOMAIN snapshots /\ snapshots[r] = map
  /\ \A s \in DOMAIN snapshots : IsRoot(file, s) /\ snapshots[s] = g[s].map

Inv ==
  /\ \E g : Keeps(pages, root, content, captured, g)
  /\ ops \in 0..MaxOps /\ builds \in 0..MaxBuilds

\* What holds of a content that is kept.
LEMMA ContentIs ==
  ASSUME NEW file, NEW r, NEW map, NEW snapshots, NEW g, Keeps(file, r, map, snapshots, g)
  PROVE  /\ DOMAIN map \subseteq TreeKeys /\ \A k \in DOMAIN map : map[k] \in Values
         /\ r # InvalidPageID =>
              /\ IsRoot(file, r) /\ map = g[r].map /\ map = [k \in DOMAIN map |-> map[k]]
<1>1. CASE r = InvalidPageID
  BY <1>1 DEF Keeps
<1>2. CASE r # InvalidPageID
  <2>1. IsRoot(file, r) /\ map = g[r].map /\ FileHolds(file, g)
    BY <1>2 DEF Keeps
  <2>2. IsRecord(g[r])
    BY <2>1, KindsAre DEF IsRoot
  <2> QED BY <1>2, <2>1, <2>2 DEF IsRecord
<1> QED BY <1>1, <1>2

\* A later file keeps what was captured, and its new root's map.
LEMMA KeepsOn ==
  ASSUME NEW file, NEW r, NEW map, NEW snapshots, NEW g, Keeps(file, r, map, snapshots, g),
         NEW later, NEW l, FileHolds(later, l), Extends(file, g, later, l)
  PROVE  /\ Keeps(later, r, map, snapshots, l)
         /\ \A s, m : IsRoot(later, s) /\ l[s].map = m =>
              Keeps(later, s, m, With(snapshots, s, m), l)
<1>1. /\ \A s \in DOMAIN snapshots : IsRoot(file, s) /\ snapshots[s] = g[s].map
      /\ Len(file) \in Nat
  BY DEF Keeps, FileHolds
<1>2. \A s \in DOMAIN snapshots : IsRoot(later, s) /\ snapshots[s] = l[s].map
  <2> TAKE s \in DOMAIN snapshots
  <2>1. s \in 1..Len(file) /\ file[s].kind # "overflow" /\ snapshots[s] = g[s].map
    BY <1>1 DEF IsRoot
  <2>2. s \in 1..Len(later) /\ later[s] = file[s] /\ l[s] = g[s]
    BY <1>1, <2>1 DEF Extends
  <2> QED BY <2>1, <2>2 DEF IsRoot
<1>3. Keeps(later, r, map, snapshots, l)
  BY <1>2 DEF Keeps
<1>4. ASSUME NEW s, NEW m, IsRoot(later, s), l[s].map = m
      PROVE  Keeps(later, s, m, With(snapshots, s, m), l)
  <2> DEFINE w == With(snapshots, s, m)
  <2>1. DOMAIN w = DOMAIN snapshots \cup {s} /\ w[s] = m
        /\ \A x \in DOMAIN snapshots : x = s \/ w[x] = snapshots[x]
    BY DEF With
  <2>2. s # InvalidPageID
    BY <1>4 DEF IsRoot, InvalidPageID
  <2> HIDE DEF w
  <2>3. Keeps(later, s, m, w, l)
    BY <1>2, <1>4, <2>1, <2>2 DEF Keeps
  <2> QED BY <2>3 DEF w
<1> QED BY <1>3, <1>4

LEMMA InitKeeps == Init => Inv
<1> SUFFICES ASSUME Init PROVE Inv
  OBVIOUS
<1> USE DEF Init
<1>1. Len(<<>>) = 0 /\ <<>> \in Seq(Page) /\ (\A i \in 1..0 : FALSE) /\ DOMAIN <<>> = {}
  OBVIOUS
<1>2. FileHolds(<<>>, <<>>)
  <2> DEFINE g == <<>>
  <2>1. Len(pages) = 0 /\ pages \in Seq(Page)
    BY <1>1
  <2> HIDE DEF g
  <2>2. FileHolds(pages, g)
    BY <1>1, <2>1 DEF FileHolds
  <2> QED BY <2>2 DEF g
<1>3. Keeps(pages, root, content, captured, <<>>)
  <2> DEFINE g == <<>>
  <2>1. FileHolds(pages, g) /\ DOMAIN content = {} /\ DOMAIN captured = {}
    BY <1>1, <1>2
  <2> HIDE DEF g
  <2>2. Keeps(pages, root, content, captured, g)
    BY <2>1 DEF Keeps
  <2> QED BY <2>2 DEF g
<1>4. ops \in 0..MaxOps /\ builds \in 0..MaxBuilds
  BY BTreeAssumption
<1> QED BY <1>3, <1>4 DEF Inv

\* Nothing was in a tree that was not there.
LEMMA WithNothing ==
  ASSUME NEW map, DOMAIN map = {}, NEW key, NEW v
  PROVE  With(map, key, v) = With(<<>>, key, v)
<1>1. DOMAIN map = {} /\ DOMAIN <<>> = {}
  OBVIOUS
<1>2. ASSUME NEW m, DOMAIN m = {} PROVE With(m, key, v) = [k \in {key} |-> v]
  BY <1>2 DEF With
<1> QED BY <1>1, <1>2

LEMMA InsertKeeps ==
  ASSUME Inv, NEW key \in TreeKeys, NEW v \in Values, Insert(key, v)
  PROVE  Inv'
<1> DEFINE done == Inserted(pages, root, key, v)
           map == With(content, key, v)
<1>1. PICK g : Keeps(pages, root, content, captured, g)
  BY DEF Inv
<1>2. /\ ops < MaxOps /\ Readable(pages, root, key) /\ pages' = done.pages /\ root' = done.root
      /\ content' = map /\ captured' = Capture(done.root, map)
      /\ ops' = ops + 1 /\ builds' = builds
  BY DEF Insert
<1>3. Grows(pages, g, MakeEntry(pages, key, v).pages, done, map)
  <2>1. FileHolds(pages, g)
    BY <1>1 DEF Keeps
  <2>2. CASE root = InvalidPageID
    <3>1. map = With(<<>>, key, v)
      BY <1>1, <2>2, WithNothing DEF Keeps
    <3> DEFINE none == <<>>
    <3> HIDE DEF done
    <3>2. Grows(pages, g, MakeEntry(pages, key, v).pages, Inserted(pages, root, key, v),
                With(none, key, v))
      BY <1>2, <2>1, <2>2, InsertedHolds
    <3> QED BY <3>1, <3>2 DEF done
  <2>3. CASE root # InvalidPageID
    <3>1. IsRoot(pages, root) /\ content = g[root].map
      BY <1>1, <2>3, ContentIs
    <3> QED BY <1>2, <2>1, <2>3, <3>1, InsertedHolds
  <2> QED BY <2>2, <2>3
<1> HIDE DEF done, map
<1>4. PICK l0, l : LET chain == MakeEntry(pages, key, v).pages
                   IN  /\ FileHolds(chain, l0) /\ Extends(pages, g, chain, l0)
                       /\ FileHolds(done.pages, l) /\ Extends(chain, l0, done.pages, l)
                       /\ IsRoot(done.pages, done.root) /\ l[done.root].map = map
  BY <1>3 DEF Grows
<1>5. Extends(pages, g, done.pages, l)
  <2>1. Len(pages) \in Nat /\ pages \in Seq(Page)
    BY <1>1 DEF Keeps, FileHolds
  <2> QED BY <1>4, <2>1, ExtendsFurther
<1>6. Keeps(done.pages, done.root, map, With(captured, done.root, map), l)
  BY <1>1, <1>4, <1>5, KeepsOn
<1>7. captured' = With(captured, done.root, map)
  BY <1>2, <1>4 DEF Capture, IsRoot, InvalidPageID
<1>8. Keeps(pages', root', content', captured', l)
  BY <1>2, <1>6, <1>7
<1>9. ops' \in 0..MaxOps /\ builds' \in 0..MaxBuilds
  BY <1>2, BTreeAssumption DEF Inv
<1> QED BY <1>8, <1>9 DEF Inv

LEMMA InsertFailsKeeps ==
  ASSUME Inv, NEW key \in TreeKeys, NEW v \in Values, InsertFails(key, v)
  PROVE  Inv'
<1> DEFINE all == Inserted(pages, root, key, v)
           done == all.pages
           chain == MakeEntry(pages, key, v).pages
           map == With(content, key, v)
           used(failed) == IF failed <= Len(chain) THEN Len(chain) ELSE failed
<1>1. PICK g : Keeps(pages, root, content, captured, g)
  BY DEF Inv
<1>2. /\ ops < MaxOps /\ Readable(pages, root, key)
      /\ ops' = ops + 1 /\ builds' = builds
      /\ root' = root /\ content' = content /\ captured' = captured
  BY DEF InsertFails
<1>3. PICK failed \in (Len(pages) + 1)..Len(done) :
        pages' = [p \in 1..used(failed) |-> IF p < failed THEN done[p] ELSE Damaged]
  BY DEF InsertFails
<1>4. Grows(pages, g, chain, all, map)
  <2>1. FileHolds(pages, g)
    BY <1>1 DEF Keeps
  <2>2. CASE root = InvalidPageID
    <3>1. map = With(<<>>, key, v)
      BY <1>1, <2>2, WithNothing DEF Keeps
    <3> DEFINE none == <<>>
    <3> HIDE DEF all, chain
    <3>2. Grows(pages, g, MakeEntry(pages, key, v).pages, Inserted(pages, root, key, v),
                With(none, key, v))
      BY <1>2, <2>1, <2>2, InsertedHolds
    <3> QED BY <3>1, <3>2 DEF all, chain
  <2>3. CASE root # InvalidPageID
    <3>1. IsRoot(pages, root) /\ content = g[root].map
      BY <1>1, <2>3, ContentIs
    <3> QED BY <1>2, <2>1, <2>3, <3>1, InsertedHolds
  <2> QED BY <2>2, <2>3
<1> HIDE DEF all, map, chain
<1>5. PICK l0, l : /\ FileHolds(chain, l0) /\ Extends(pages, g, chain, l0)
                   /\ FileHolds(done, l) /\ Extends(chain, l0, done, l)
                   /\ \A p \in (Len(chain) + 1)..Len(done) : done[p].kind # "overflow"
  BY <1>4 DEF Grows
<1>6. FileHolds(pages, g) /\ Len(pages) \in Nat /\ Len(done) \in Nat
  BY <1>1, <1>5 DEF Keeps, FileHolds
<1>7. Cut(chain, done, failed, pages') /\ Len(pages) < failed
  <2>1. failed \in 1..Len(done) /\ Len(pages) < failed
    BY <1>6
  <2> QED BY <1>3, <2>1 DEF Cut
<1>8. PICK m : FileHolds(pages', m) /\ Extends(pages, g, pages', m)
  BY <1>5, <1>6, <1>7, CutHolds
<1>9. Keeps(pages', root, content, captured, m)
  BY <1>1, <1>8, KeepsOn
<1>10. ops' \in 0..MaxOps /\ builds' \in 0..MaxBuilds
  BY <1>2, BTreeAssumption DEF Inv
<1>11. Keeps(pages', root', content', captured', m)
  BY <1>2, <1>9
<1> QED BY <1>10, <1>11 DEF Inv

\* Without a key that is not there a map is what it was.
LEMMA WithoutNothing ==
  ASSUME NEW map, map = [k \in DOMAIN map |-> map[k]], NEW key, key \notin DOMAIN map
  PROVE  Without(map, key) = map
<1>1. DOMAIN map \ {key} = DOMAIN map
  OBVIOUS
<1> QED BY <1>1 DEF Without, Restrict

LEMMA DeleteKeeps ==
  ASSUME Inv, NEW key \in TreeKeys, Delete(key)
  PROVE  Inv'
<1> DEFINE done == Removed(pages, root, key)
           map == Without(content, key)
<1>1. PICK g : Keeps(pages, root, content, captured, g)
  BY DEF Inv
<1>2. /\ ops < MaxOps /\ Readable(pages, root, key) /\ pages' = done.pages /\ root' = done.root
      /\ content' = map /\ captured' = Capture(done.root, map)
      /\ ops' = ops + 1 /\ builds' = builds
  BY DEF Delete
<1>3. ops' \in 0..MaxOps /\ builds' \in 0..MaxBuilds
  BY <1>2, BTreeAssumption DEF Inv
<1>4. FileHolds(pages, g)
  BY <1>1 DEF Keeps
<1>5. CASE root = InvalidPageID
  <2>1. done.pages = pages /\ done.root = root
    BY <1>5 DEF Removed
  <2>2. DOMAIN map = {}
    BY <1>1, <1>5 DEF Keeps, Without, Restrict
  <2> HIDE DEF done, map
  <2>3. captured' = captured
    BY <1>2, <1>5, <2>1 DEF Capture
  <2>4. Keeps(pages', root', content', captured', g)
    BY <1>1, <1>2, <1>5, <2>1, <2>2, <2>3 DEF Keeps
  <2> QED BY <1>3, <2>4 DEF Inv
<1>6. CASE root # InvalidPageID
  <2>1. IsRoot(pages, root) /\ content = g[root].map /\ content = [k \in DOMAIN content |-> content[k]]
    BY <1>1, <1>6, ContentIs
  <2>2. IF key \in DOMAIN content
        THEN Yields(pages, g, done, map)
        ELSE done = [pages |-> pages, root |-> root]
    BY <1>2, <1>4, <2>1, RemovedHolds
  <2>3. CASE key \in DOMAIN content
    <3> HIDE DEF done, map
    <3>1. PICK l : /\ FileHolds(done.pages, l) /\ Extends(pages, g, done.pages, l)
                   /\ IsRoot(done.pages, done.root) /\ l[done.root].map = map
      BY <2>2, <2>3 DEF Yields, IsRoot
    <3>2. Keeps(done.pages, done.root, map, With(captured, done.root, map), l)
      BY <1>1, <3>1, KeepsOn
    <3>3. captured' = With(captured, done.root, map)
      BY <1>2, <3>1 DEF Capture, IsRoot, InvalidPageID
    <3>4. Keeps(pages', root', content', captured', l)
      BY <1>2, <3>2, <3>3
    <3> QED BY <1>3, <3>4 DEF Inv
  <2>4. CASE key \notin DOMAIN content
    <3>1. map = content
      BY <2>1, <2>4, WithoutNothing
    <3> HIDE DEF done, map
    <3>2. done.pages = pages /\ done.root = root
      BY <2>2, <2>4
    <3>3. captured' = With(captured, root, content)
      BY <1>2, <1>6, <3>1, <3>2 DEF Capture
    <3>4. Extends(pages, g, pages, g)
      BY <1>4 DEF Extends, FileHolds
    <3>5. Keeps(pages, root, content, With(captured, root, content), g)
      BY <1>1, <1>4, <2>1, <3>4, KeepsOn
    <3>6. Keeps(pages', root', content', captured', g)
      BY <1>2, <3>1, <3>2, <3>3, <3>5
    <3> QED BY <1>3, <3>6 DEF Inv
  <2> QED BY <2>3, <2>4
<1> QED BY <1>5, <1>6

\* A scan of a kept tree, if no page of it is damaged, shows what it should hold.
LEMMA ScanOfKept ==
  ASSUME NEW file, NEW r, NEW map, NEW snapshots, NEW g, Keeps(file, r, map, snapshots, g),
         Whole(file, r), NEW p \in Bytes
  PROVE  Shows(Scan(file, r, p), map, WithPrefix(map, p))
<1>1. CASE r = InvalidPageID
  <2>1. DOMAIN map = {} /\ Scan(file, r, p) = <<>>
    BY <1>1 DEF Keeps, Scan
  <2>2. WithPrefix(map, p) = {}
    BY <2>1 DEF WithPrefix
  <2> QED BY <2>1, <2>2, ShowsNothing
<1>2. CASE r # InvalidPageID
  <2>1. IsRoot(file, r) /\ map = g[r].map /\ FileHolds(file, g)
    BY <1>2, ContentIs DEF Keeps
  <2>2. Shows(Scan(file, r, p), g[r].map, WithPrefix(g[r].map, p))
    BY <2>1, ScanShows
  <2> QED BY <2>1, <2>2
<1> QED BY <1>1, <1>2

\* Batches are what they should be.
LEMMA BatchesAre ==
  ASSUME NEW deltas \in Batches
  PROVE  IsBatch(deltas)
BY BatchAssumption DEF IsBatch

\* The merge of a kept tree with a log shows the tree's map with the changes.
LEMMA MergeOfKept ==
  ASSUME NEW file, NEW r, NEW map, NEW snapshots, NEW g, Keeps(file, r, map, snapshots, g),
         Whole(file, r), NEW deltas \in Batches
  PROVE  LET over == Overridden(map, deltas)
         IN  /\ Shows(Merged(Scan(file, r, <<>>), deltas), over, DOMAIN over)
             /\ DOMAIN over \subseteq TreeKeys /\ \A k \in DOMAIN over : over[k] \in Values
             /\ over = [k \in DOMAIN over |-> over[k]]
<1> DEFINE over == Overridden(map, deltas)
           base == Scan(file, r, <<>>)
<1>1. DOMAIN map \subseteq TreeKeys /\ \A k \in DOMAIN map : map[k] \in Values
  BY ContentIs
<1>2. IsBatch(deltas)
  BY BatchesAre
<1>3. WithPrefix(map, <<>>) = DOMAIN map /\ <<>> \in Bytes
  BY <1>1, AllHaveNoPrefix
<1>4. Shows(base, map, DOMAIN map)
  <2> DEFINE none == <<>>
  <2>1. none \in Bytes
    BY <1>3
  <2> HIDE DEF none
  <2>2. Shows(Scan(file, r, none), map, WithPrefix(map, none))
    BY <2>1, ScanOfKept
  <2> QED BY <1>3, <2>2 DEF none
<1> HIDE DEF base
<1>5. Shows(Merged(base, deltas), over, DOMAIN over)
  BY <1>1, <1>2, <1>4, MergeShows
<1>6. ASSUME NEW k \in DOMAIN over PROVE k \in TreeKeys /\ over[k] \in Values
  <2>1. DOMAIN over \subseteq DOMAIN map \cup DOMAIN deltas
    BY DEF Overridden
  <2>2. /\ k \in DOMAIN deltas => over[k] \in Values
        /\ k \in DOMAIN map \ DOMAIN deltas => over[k] \in Values
    BY <1>1, <1>2, OverriddenIs
  <2> HIDE DEF over
  <2> QED BY <1>1, <1>2, <2>1, <2>2 DEF IsBatch
<1>7. over = [k \in DOMAIN over |-> over[k]]
  BY DEF Overridden
<1> HIDE DEF over
<1> QED BY <1>5, <1>6, <1>7 DEF over, base

\* A file is one tree: no page but the root that nothing holds, and no root of an
\* empty file.
OneTree(file, id) ==
  IF id = InvalidPageID THEN file = <<>> ELSE IsRoot(file, id) /\ Covered(file, {id}, {})

\* A generation is a tree of the map with the changes, and no page of it is damaged.
LEMMA RebuildMakes ==
  ASSUME NEW g, Keeps(pages, root, content, captured, g), NEW deltas \in Batches, Rebuild(deltas)
  PROVE  /\ \E l : Keeps(pages', root', content', captured', l) /\ Sound(pages')
         /\ OneTree(pages', root')
<1> DEFINE pairs == Merged(Scan(pages, root, <<>>), deltas)
           done == Built(pairs)
           map == Overridden(content, deltas)
<1>1. /\ Whole(pages, root) /\ pages' = done.pages /\ root' = done.root /\ content' = map
      /\ captured' = IF done.root = InvalidPageID THEN <<>> ELSE [r \in {done.root} |-> map]
  BY DEF Rebuild
<1>2. /\ Shows(pairs, map, DOMAIN map) /\ DOMAIN map \subseteq TreeKeys
      /\ \A k \in DOMAIN map : map[k] \in Values
      /\ map = [k \in DOMAIN map |-> map[k]]
  BY <1>1, MergeOfKept
<1> HIDE DEF map, pairs
<1>3. IF DOMAIN map = {}
      THEN done.pages = <<>> /\ done.root = InvalidPageID
      ELSE \E l : Makes(done, map, l)
  BY <1>2, BuiltHolds
<1> HIDE DEF done
<1>4. CASE DOMAIN map = {}
  <2> DEFINE l == <<>>
  <2>1. pages' = <<>> /\ root' = InvalidPageID /\ captured' = <<>> /\ DOMAIN content' = {}
    BY <1>1, <1>3, <1>4
  <2>2. Len(pages') = 0 /\ pages' \in Seq(Page) /\ DOMAIN captured' = {} /\ \A i \in 1..0 : FALSE
    BY <2>1
  <2> HIDE DEF l
  <2>3. FileHolds(pages', l) /\ Sound(pages')
    BY <2>2 DEF FileHolds, Sound
  <2>4. Keeps(pages', root', content', captured', l)
    BY <2>1, <2>2, <2>3 DEF Keeps
  <2>5. OneTree(pages', root')
    BY <2>1 DEF OneTree
  <2> QED BY <2>3, <2>4, <2>5
<1>5. CASE DOMAIN map # {}
  <2>1. PICK l : Makes(done, map, l)
    BY <1>3, <1>5
  <2>2. /\ FileHolds(done.pages, l) /\ Sound(done.pages)
        /\ IsRoot(done.pages, done.root) /\ l[done.root].map = map
    BY <2>1 DEF Makes
  <2>3. done.root # InvalidPageID
    BY <2>2 DEF IsRoot, InvalidPageID
  <2>4. captured' = [r \in {done.root} |-> map]
    BY <1>1, <2>3
  <2>5. DOMAIN captured' = {done.root} /\ captured'[done.root] = map
    BY <2>4
  <2>6. Keeps(pages', root', content', captured', l)
    BY <1>1, <2>2, <2>3, <2>5 DEF Keeps
  <2>7. Covered(done.pages, {done.root}, {})
    BY <2>1 DEF Makes
  <2>8. OneTree(pages', root')
    BY <1>1, <2>2, <2>3, <2>7 DEF OneTree
  <2> QED BY <1>1, <2>2, <2>6, <2>8
<1> QED BY <1>4, <1>5

LEMMA RebuildKeeps ==
  ASSUME Inv, NEW deltas \in Batches, Rebuild(deltas)
  PROVE  Inv'
<1>1. PICK g : Keeps(pages, root, content, captured, g)
  BY DEF Inv
<1>2. \E l : Keeps(pages', root', content', captured', l)
  BY <1>1, RebuildMakes
<1>3. builds < MaxBuilds /\ builds' = builds + 1 /\ ops' = ops
  BY DEF Rebuild
<1>4. ops' \in 0..MaxOps /\ builds' \in 0..MaxBuilds
  BY <1>3, BTreeAssumption DEF Inv
<1> QED BY <1>2, <1>4 DEF Inv

LEMMA NextKeeps == Inv /\ [Next]_vars => Inv'
<1> SUFFICES ASSUME Inv, [Next]_vars PROVE Inv'
  OBVIOUS
<1>1. CASE UNCHANGED vars
  BY <1>1 DEF vars, Inv
<1>2. ASSUME NEW key \in TreeKeys, Delete(key) PROVE Inv'
  BY <1>2, DeleteKeeps
<1>3. ASSUME NEW key \in TreeKeys, NEW v \in Values, Insert(key, v) PROVE Inv'
  BY <1>3, InsertKeeps
<1>4. ASSUME NEW key \in TreeKeys, NEW v \in Values, InsertFails(key, v) PROVE Inv'
  BY <1>4, InsertFailsKeeps
<1>5. ASSUME NEW deltas \in Batches, Rebuild(deltas) PROVE Inv'
  BY <1>5, RebuildKeeps
<1> QED BY <1>1, <1>2, <1>3, <1>4, <1>5 DEF Next

\* Every page agrees with its record, and every captured root with what was
\* captured, whatever was inserted, deleted, cut off, or failed since.
THEOREM Invariance == Spec => []Inv
BY InitKeeps, NextKeeps, PTL DEF Spec

-----------------------------------------------------------------------------
(***************************************************************************)
(* What the runs check                                                     *)
(***************************************************************************)

\* What TypeOK says of a page.
TypedPage(file, p) ==
  LET n == file[p]
  IN  CASE n.kind = "leaf" ->
             \A e \in ToSet(n.entries) :
               /\ e.key \in TreeKeys
               /\ e.head \in {InvalidPageID} \cup 1..(p - 1)
        [] n.kind = "internal" ->
             /\ Len(n.children) = Len(n.keys) + 1
             /\ ToSet(n.children) \subseteq 1..(p - 1)
        [] n.kind = "overflow" -> n.next \in 1..Len(file) \cup {InvalidPageID}
        [] OTHER -> n = Damaged

\* Pages that agree with their records have their types.
LEMMA PagesTyped ==
  ASSUME NEW file, NEW g, FileHolds(file, g), NEW p \in 1..Len(file)
  PROVE  TypedPage(file, p)
<1> DEFINE n == file[p]
<1>1. CASE n.kind = "leaf"
  <2>1. LeafHolds(file, p, n, g[p]) /\ Len(file) \in Nat
    BY <1>1, KindsAre DEF FileHolds
  <2>2. DOMAIN n.entries = 1..Len(n.entries)
    BY <2>1 DEF LeafHolds, LeafPages
  <2>3. \A e \in ToSet(n.entries) : e.key \in TreeKeys /\ e.head \in {InvalidPageID} \cup 1..(p - 1)
    <3> TAKE e \in ToSet(n.entries)
    <3>1. PICK i \in DOMAIN n.entries : n.entries[i] = e
      BY <2>2 DEF ToSet
    <3>2. EntryHolds(file, p, e, g[p].map[e.key])
      BY <2>1, <3>1 DEF LeafHolds
    <3> QED BY <3>2 DEF EntryHolds, Entry
  <2> HIDE DEF n
  <2> QED BY <1>1, <2>3 DEF TypedPage, n
<1>2. CASE n.kind = "internal"
  <2>1. InternalHolds(file, p, n, g[p], g) /\ DOMAIN n.children = 1..Len(n.children)
        /\ \A i \in 1..Len(n.children) : n.children[i] \in 1..(p - 1)
    BY <1>2, KindsAre
  <2>2. Len(n.children) = Len(n.keys) + 1
    BY <2>1 DEF InternalHolds
  <2>3. ToSet(n.children) \subseteq 1..(p - 1)
    BY <2>1 DEF ToSet
  <2> HIDE DEF n
  <2> QED BY <1>2, <2>2, <2>3 DEF TypedPage, n
<1>3. CASE n.kind = "overflow"
  <2>1. n.next \in 1..Len(file) \cup {InvalidPageID}
    BY <1>3 DEF FileHolds
  <2> HIDE DEF n
  <2> QED BY <1>3, <2>1 DEF TypedPage, n
<1>4. CASE n.kind \notin {"leaf", "internal", "overflow"}
  <2>1. n = Damaged
    BY <1>4, KindsAre
  <2> HIDE DEF n
  <2> QED BY <1>4, <2>1 DEF TypedPage, n
<1> QED BY <1>1, <1>2, <1>3, <1>4

LEMMA TypesHold == Inv => TypeOK
<1> SUFFICES ASSUME Inv PROVE TypeOK
  OBVIOUS
<1>1. PICK g : Keeps(pages, root, content, captured, g)
  BY DEF Inv
<1>2. FileHolds(pages, g) /\ \A s \in DOMAIN captured : IsRoot(pages, s)
  BY <1>1 DEF Keeps
<1>3. \A p \in PageIDs : TypedPage(pages, p)
  BY <1>2, PagesTyped DEF PageIDs
<1>4. root \in PageIDs \cup {InvalidPageID} /\ DOMAIN content \subseteq TreeKeys
  BY <1>1, ContentIs DEF IsRoot, PageIDs
<1>5. DOMAIN captured \subseteq PageIDs
  BY <1>2 DEF IsRoot, PageIDs
<1>6. ops \in 0..MaxOps /\ builds \in 0..MaxBuilds
  BY DEF Inv
<1> QED BY <1>3, <1>4, <1>5, <1>6 DEF TypeOK, TypedPage, PageIDs

\* The pages of a file have their types, also those an error leaves behind: what
\* a node points to is older than it, an internal node has a child more than
\* separators, and a chain stays in the file (node.go; pager.go, Alloc).
THEOREM TypeCorrect == Spec => []TypeOK
BY Invariance, TypesHold, PTL

\* The scan of a captured root whose tree was not cut off lists what it held.
LEMMA RootsList ==
  ASSUME Inv, NEW r \in DOMAIN captured, Whole(pages, r)
  PROVE  Lists(Scan(pages, r, <<>>), captured[r])
<1>1. PICK g : Keeps(pages, root, content, captured, g)
  BY DEF Inv
<1>2. FileHolds(pages, g) /\ IsRoot(pages, r) /\ captured[r] = g[r].map
  BY <1>1 DEF Keeps
<1> DEFINE map == g[r].map
           none == <<>>
<1>3. DOMAIN map \subseteq TreeKeys
  <2>1. IsRecord(g[r])
    BY <1>2, KindsAre DEF IsRoot
  <2> QED BY <2>1 DEF IsRecord
<1>4. WithPrefix(map, none) = DOMAIN map /\ none \in Bytes
  <2> HIDE DEF map
  <2> QED BY <1>3, AllHaveNoPrefix
<1> HIDE DEF none
<1>5. Shows(Scan(pages, r, none), map, DOMAIN map)
  BY <1>2, <1>4, ScanShows
<1>6. Lists(Scan(pages, r, none), map)
  <2> HIDE DEF map
  <2> QED BY <1>5, ListsWhatIsShown
<1> QED BY <1>2, <1>6 DEF none

\* Every root ever captured reads, forever, as what it held when it was captured,
\* provided no page of its own tree was cut off (btree.go: no live page is
\* overwritten); what befell other roots' pages does not matter.
SoundRootsKeepContent ==
  \A r \in DOMAIN captured :
    Whole(pages, r) => Lists(Scan(pages, r, <<>>), captured[r])

THEOREM RootsReadBack == Spec => []SoundRootsKeepContent
<1>1. Inv => SoundRootsKeepContent
  BY RootsList DEF SoundRootsKeepContent
<1> QED BY <1>1, Invariance, PTL

\* As long as every captured tree fits its pages, every captured root keeps its
\* content: inserts, deletes, failed inserts and rebuilds never disturb it.
THEOREM RootsKeepTheirContent == Spec => [](NodesFit => RootsKeepContent)
<1>1. Inv /\ NodesFit => RootsKeepContent
  BY RootsList DEF RootsKeepContent, NodesFit
<1> QED BY <1>1, Invariance, PTL

\* A prefix of a key is bytes.
LEMMA PrefixesAreBytes == KeyPrefixes \subseteq Bytes
<1> SUFFICES ASSUME NEW p \in KeyPrefixes PROVE p \in Bytes
  OBVIOUS
<1>1. PICK k \in TreeKeys : \E n \in 1..Len(k) : p = SubSeq(k, 1, n)
  BY DEF KeyPrefixes
<1>2. k \in Seq(0..(Base - 1))
  BY TreeKeysAre DEF Bytes
<1>3. p \in Seq(0..(Base - 1))
  <2>1. PICK n \in 1..Len(k) : p = SubSeq(k, 1, n)
    BY <1>1
  <2> DEFINE S == 0..(Base - 1)
  <2>2. k \in Seq(S)
    BY <1>2
  <2> HIDE DEF S
  <2>3. SubSeq(k, 1, n) \in Seq(S)
    BY <2>1, <2>2, SubSeqProperties
  <2> QED BY <2>1, <2>3 DEF S
<1> QED BY <1>3 DEF Bytes

\* A lookup and a scan of a kept tree, if no page of it is damaged.
LEMMA ReadsAreTheContent ==
  ASSUME Inv, Whole(pages, root)
  PROVE  ReadsAgree
<1>1. PICK g : Keeps(pages, root, content, captured, g)
  BY DEF Inv
<1>2. ASSUME NEW k \in TreeKeys
      PROVE  Get(pages, root, k) = IF k \in DOMAIN content THEN content[k] ELSE NoValue
  <2>1. CASE root = InvalidPageID
    BY <1>1, <2>1 DEF Keeps, Get
  <2>2. CASE root # InvalidPageID
    <3>1. IsRoot(pages, root) /\ content = g[root].map /\ FileHolds(pages, g)
      BY <1>1, <2>2, ContentIs DEF Keeps
    <3> QED BY <3>1, GetIs
  <2> QED BY <2>1, <2>2
<1>3. ASSUME NEW p \in KeyPrefixes
      PROVE  Lists(Scan(pages, root, p),
                   Restrict(content, {k \in DOMAIN content : IsPrefix(p, k)}))
  <2> DEFINE s == Scan(pages, root, p)
             keys == WithPrefix(content, p)
             m == Restrict(content, keys)
  <2>1. p \in Bytes
    BY PrefixesAreBytes
  <2>2. Shows(s, content, keys)
    BY <1>1, <2>1, ScanOfKept
  <2>3. DOMAIN m = keys /\ \A k \in keys : m[k] = content[k]
    BY DEF Restrict
  <2> HIDE DEF s, m, keys
  <2>4. Lists(s, m)
    BY <2>2, <2>3, ListsWhatIsShown
  <2> QED BY <2>4 DEF s, m, keys, WithPrefix
<1> QED BY <1>2, <1>3 DEF ReadsAgree

\* While the tree's own pages are not cut off, a lookup finds a key exactly when
\* it was inserted last and not deleted, and a scan yields exactly the keys of
\* its prefix, in order (btree.go, Get, childIndex and Scan; prefixUpper).
THEOREM ReadsAgreeWithContent == Spec => [](Whole(pages, root) => ReadsAgree)
<1>1. Inv => (Whole(pages, root) => ReadsAgree)
  BY ReadsAreTheContent
<1> QED BY <1>1, Invariance, PTL

LEMMA MergesAreOverridden ==
  ASSUME Inv, Whole(pages, root)
  PROVE  MergeOverrides
<1>1. PICK g : Keeps(pages, root, content, captured, g)
  BY DEF Inv
<1> SUFFICES ASSUME NEW deltas \in Batches
             PROVE  Lists(Merged(Scan(pages, root, <<>>), deltas), Overridden(content, deltas))
  BY DEF MergeOverrides
<1> DEFINE s == Merged(Scan(pages, root, <<>>), deltas)
           over == Overridden(content, deltas)
<1>2. Shows(s, over, DOMAIN over)
  BY <1>1, MergeOfKept
<1> HIDE DEF s, over
<1>3. Lists(s, over)
  BY <1>2, ListsWhatIsShown
<1> QED BY <1>3 DEF s, over

\* The two streams of mergeBuild are merged, for every log, into the tree's map
\* with the log's changes: every live key once and in order, so that the builder
\* refuses none (checkpoint.go, mergeBuild).
THEOREM MergesOverride == Spec => [](Whole(pages, root) => MergeOverrides)
<1>1. Inv => (Whole(pages, root) => MergeOverrides)
  BY MergesAreOverridden
<1> QED BY <1>1, Invariance, PTL

\* The keys of the tree tell classes from objects, and decode to what they are of.
LEMMA KeysDecode ==
  /\ \A c \in Classes :
       /\ KeyOfClass(c) \in TreeKeys
       /\ IsClassKey(KeyOfClass(c)) /\ ~IsObjectKey(KeyOfClass(c))
       /\ DecodeClassKey(KeyOfClass(c)) = c
  /\ \A o \in Objects :
       /\ KeyOfObject(o) \in TreeKeys /\ ClassOf(o) \in Classes
       /\ IsObjectKey(KeyOfObject(o)) /\ ~IsClassKey(KeyOfObject(o))
       /\ DecodeObjectKey(KeyOfObject(o)) = o
  /\ \A k \in TreeKeys : \/ \E c \in Classes : k = KeyOfClass(c)
                         \/ \E o \in Objects : k = KeyOfObject(o)
<1>1. \A o \in Objects : /\ o.project \in Projects /\ o.class \in Names /\ o.id \in Ids
                         /\ o = [project |-> o.project, class |-> o.class, id |-> o.id]
  BY BTreeAssumption
<1>2. ASSUME NEW c \in Classes
      PROVE  /\ IsClassKey(KeyOfClass(c)) /\ ~IsObjectKey(KeyOfClass(c))
             /\ DecodeClassKey(KeyOfClass(c)) = c
  <2>1. c.project \in Projects /\ c.class \in Names /\ c = [project |-> c.project, class |-> c.class]
    BY <1>1 DEF Classes, ClassOf
  <2> QED BY <2>1, ClassKeysDecode DEF KeyOfClass
<1>3. ASSUME NEW o \in Objects
      PROVE  /\ IsObjectKey(KeyOfObject(o)) /\ ~IsClassKey(KeyOfObject(o))
             /\ DecodeObjectKey(KeyOfObject(o)) = o
  BY <1>1, ObjectKeysDecode DEF KeyOfObject
<1>4. \A k \in TreeKeys : \/ \E c \in Classes : k = KeyOfClass(c)
                          \/ \E o \in Objects : k = KeyOfObject(o)
  BY DEF TreeKeys
<1>5. \A c \in Classes : KeyOfClass(c) \in TreeKeys
  BY DEF TreeKeys
<1>6. \A o \in Objects : KeyOfObject(o) \in TreeKeys /\ ClassOf(o) \in Classes
  BY DEF TreeKeys, Classes
<1> QED BY <1>2, <1>3, <1>4, <1>5, <1>6

\* The keys of what a scan shows are those it should show.
LEMMA KeysShown ==
  ASSUME NEW s, NEW map, NEW keys, Shows(s, map, keys)
  PROVE  /\ \A q \in ToSet(s) : q.key \in keys
         /\ \A k \in keys : \E q \in ToSet(s) : q.key = k
<1>1. DOMAIN s = 1..Len(s) /\ \A i \in 1..Len(s) : s[i].key \in keys
  BY DEF Shows
<1>2. \A k \in keys : \E i \in 1..Len(s) : s[i].key = k
  BY DEF Shows
<1>3. \A q \in ToSet(s) : q.key \in keys
  BY <1>1 DEF ToSet
<1>4. \A k \in keys : \E q \in ToSet(s) : q.key = k
  BY <1>1, <1>2 DEF ToSet
<1> QED BY <1>3, <1>4

\* The classes and the objects read back.
LEMMA LoadedIs ==
  ASSUME Inv, Whole(pages, root)
  PROVE  Loaded = {c \in Classes : KeyOfClass(c) \in DOMAIN content}
<1>1. PICK g : Keeps(pages, root, content, captured, g)
  BY DEF Inv
<1> DEFINE p == <<nsClass>>
           s == Scan(pages, root, p)
           keys == WithPrefix(content, p)
<1>2. p \in Bytes /\ Len(p) = 1 /\ p[1] = nsClass
  BY KeysAssumption DEF Bytes, nsClass
<1>3. DOMAIN content \subseteq TreeKeys
  BY <1>1, ContentIs
<1> HIDE DEF p
<1>4. Shows(s, content, keys)
  BY <1>1, <1>2, ScanOfKept
<1> HIDE DEF s
<1>5. /\ \A q \in ToSet(s) : q.key \in keys
      /\ \A k \in keys : \E q \in ToSet(s) : q.key = k
  BY <1>4, KeysShown
<1>6. ASSUME NEW k \in DOMAIN content, IsClassKey(k) PROVE k \in keys
  <2>1. k \in Bytes
    BY <1>3, TreeKeysAre
  <2>2. Len(p) <= Len(k) /\ \A i \in 1..Len(p) : p[i] = k[i]
    BY <1>2, <1>6 DEF IsClassKey
  <2>3. IsPrefix(p, k)
    BY <1>2, <2>1, <2>2, PrefixIs
  <2> QED BY <2>3 DEF WithPrefix
<1>7. keys \subseteq DOMAIN content
  BY DEF WithPrefix
<1> HIDE DEF keys
<1>8. ASSUME NEW q \in ToSet(s), IsClassKey(q.key)
      PROVE  DecodeClassKey(q.key) \in Classes /\ KeyOfClass(DecodeClassKey(q.key)) \in DOMAIN content
  <2>1. q.key \in DOMAIN content /\ q.key \in TreeKeys
    BY <1>3, <1>5, <1>7
  <2>2. PICK c \in Classes : q.key = KeyOfClass(c)
    BY <1>8, <2>1, KeysDecode
  <2> QED BY <2>1, <2>2, KeysDecode
<1>9. ASSUME NEW c \in Classes, KeyOfClass(c) \in DOMAIN content
      PROVE  \E q \in ToSet(s) : IsClassKey(q.key) /\ DecodeClassKey(q.key) = c
  <2>1. IsClassKey(KeyOfClass(c)) /\ DecodeClassKey(KeyOfClass(c)) = c
    BY KeysDecode
  <2>2. KeyOfClass(c) \in keys
    BY <1>6, <1>9, <2>1
  <2> QED BY <1>5, <2>1, <2>2
<1>10. Loaded = {DecodeClassKey(q.key) : q \in {x \in ToSet(s) : IsClassKey(x.key)}}
  BY DEF Loaded, s, p
<1> QED BY <1>8, <1>9, <1>10

LEMMA ObservedIs ==
  ASSUME Inv, Whole(pages, root)
  PROVE  Observed = {o \in Objects : KeyOfObject(o) \in DOMAIN content}
<1>1. PICK g : Keeps(pages, root, content, captured, g)
  BY DEF Inv
<1> DEFINE p == <<>>
           s == Scan(pages, root, p)
<1>3. DOMAIN content \subseteq TreeKeys
  BY <1>1, ContentIs
<1>4. WithPrefix(content, p) = DOMAIN content /\ p \in Bytes
  BY <1>3, AllHaveNoPrefix
<1> HIDE DEF p
<1>5. Shows(s, content, DOMAIN content)
  BY <1>1, <1>4, ScanOfKept
<1> HIDE DEF s
<1>6. /\ \A q \in ToSet(s) : q.key \in DOMAIN content
      /\ \A k \in DOMAIN content : \E q \in ToSet(s) : q.key = k
  BY <1>5, KeysShown
<1>7. ASSUME NEW q \in ToSet(s), IsObjectKey(q.key)
      PROVE  DecodeObjectKey(q.key) \in Objects /\ KeyOfObject(DecodeObjectKey(q.key)) \in DOMAIN content
  <2>1. q.key \in DOMAIN content /\ q.key \in TreeKeys
    BY <1>3, <1>6
  <2>2. PICK o \in Objects : q.key = KeyOfObject(o)
    BY <1>7, <2>1, KeysDecode
  <2> QED BY <2>1, <2>2, KeysDecode
<1>8. ASSUME NEW o \in Objects, KeyOfObject(o) \in DOMAIN content
      PROVE  \E q \in ToSet(s) : IsObjectKey(q.key) /\ DecodeObjectKey(q.key) = o
  BY <1>6, <1>8, KeysDecode
<1>9. Observed = {DecodeObjectKey(q.key) : q \in {x \in ToSet(s) : IsObjectKey(x.key)}}
  BY DEF Observed, s, p
<1> QED BY <1>7, <1>8, <1>9

\* Where a class is listed, the key is that of one of its objects, stored; and
\* each of them has its place, in the order of the ids.
LEMMA ListedIs ==
  ASSUME Inv, Whole(pages, root), NEW c \in Classes, NEW pairs,
         pairs = Scan(pages, root, ObjectPrefix(c.project, c.class))
  PROVE  /\ \A i \in ListedAt(c, pairs) :
              /\ DecodeObjectKey(pairs[i].key) \in Objects
              /\ KeyOfObject(DecodeObjectKey(pairs[i].key)) \in DOMAIN content
              /\ ClassOf(DecodeObjectKey(pairs[i].key)) = c
         /\ \A o \in Objects : KeyOfObject(o) \in DOMAIN content /\ ClassOf(o) = c =>
              \E i \in ListedAt(c, pairs) : DecodeObjectKey(pairs[i].key) = o
         /\ \A i, j \in ListedAt(c, pairs) :
              i < j => DecodeObjectKey(pairs[i].key).id < DecodeObjectKey(pairs[j].key).id
<1>1. PICK g : Keeps(pages, root, content, captured, g)
  BY DEF Inv
<1> DEFINE p == ObjectPrefix(c.project, c.class)
           keys == WithPrefix(content, p)
<1>2. c.project \in Projects /\ c.class \in Names
  BY BTreeAssumption DEF Classes, ClassOf
<1>3. DOMAIN content \subseteq TreeKeys
  BY <1>1, ContentIs
<1>4. /\ p \in Bytes
      /\ \A id \in Ids : IsPrefix(p, ObjectKey(c.project, c.class, id))
      /\ \A x, y \in Ids :
           Less(ObjectKey(c.project, c.class, x), ObjectKey(c.project, c.class, y)) <=> x < y
  BY <1>2, KeysAreBytes, ObjectKeysInOrder
<1>5. pairs = Scan(pages, root, p)
  OBVIOUS
<1> HIDE DEF p
<1>6. Shows(pairs, content, keys)
  BY <1>1, <1>4, <1>5, ScanOfKept
<1>7. keys \subseteq DOMAIN content
  BY DEF WithPrefix
<1>8. \A o \in Objects : /\ o.id \in Ids /\ ClassOf(o).project = o.project
                         /\ ClassOf(o).class = o.class
  BY BTreeAssumption DEF ClassOf
<1>9. ASSUME NEW o \in Objects, ClassOf(o) = c
      PROVE  KeyOfObject(o) = ObjectKey(c.project, c.class, o.id)
  BY <1>8, <1>9 DEF KeyOfObject
<1>10. \A o \in Objects : KeyOfObject(o) \in DOMAIN content /\ ClassOf(o) = c => KeyOfObject(o) \in keys
  BY <1>4, <1>8, <1>9 DEF WithPrefix
<1> HIDE DEF keys
<1>11. /\ DOMAIN pairs = 1..Len(pairs)
       /\ \A i, j \in 1..Len(pairs) : i < j => Less(pairs[i].key, pairs[j].key)
       /\ \A i \in 1..Len(pairs) : pairs[i].key \in keys
       /\ \A k \in keys : \E i \in 1..Len(pairs) : pairs[i].key = k
  BY <1>6 DEF Shows
<1>12. ASSUME NEW i \in ListedAt(c, pairs)
       PROVE  \E o \in Objects : /\ pairs[i].key = KeyOfObject(o) /\ o = DecodeObjectKey(pairs[i].key)
                                 /\ KeyOfObject(o) \in DOMAIN content /\ ClassOf(o) = c
                                 /\ i \in 1..Len(pairs)
  <2>1. i \in 1..Len(pairs) /\ IsObjectKey(pairs[i].key) /\ ClassOf(DecodeObjectKey(pairs[i].key)) = c
    BY <1>11 DEF ListedAt
  <2>2. pairs[i].key \in DOMAIN content /\ pairs[i].key \in TreeKeys
    BY <1>3, <1>7, <1>11, <2>1
  <2>3. PICK o \in Objects : pairs[i].key = KeyOfObject(o)
    BY <2>1, <2>2, KeysDecode
  <2>4. o = DecodeObjectKey(pairs[i].key)
    BY <2>3, KeysDecode
  <2> QED BY <2>1, <2>2, <2>3, <2>4
<1>13. ASSUME NEW o \in Objects, KeyOfObject(o) \in DOMAIN content, ClassOf(o) = c
       PROVE  \E i \in ListedAt(c, pairs) : DecodeObjectKey(pairs[i].key) = o
  <2>1. PICK i \in 1..Len(pairs) : pairs[i].key = KeyOfObject(o)
    BY <1>10, <1>11, <1>13
  <2>2. IsObjectKey(pairs[i].key) /\ DecodeObjectKey(pairs[i].key) = o
    BY <2>1, KeysDecode
  <2>3. i \in ListedAt(c, pairs)
    BY <1>11, <1>13, <2>2 DEF ListedAt
  <2> QED BY <2>2, <2>3
<1>14. ASSUME NEW i \in ListedAt(c, pairs), NEW j \in ListedAt(c, pairs), i < j
       PROVE  DecodeObjectKey(pairs[i].key).id < DecodeObjectKey(pairs[j].key).id
  <2>1. PICK a \in Objects : /\ pairs[i].key = KeyOfObject(a) /\ a = DecodeObjectKey(pairs[i].key)
                             /\ ClassOf(a) = c /\ i \in 1..Len(pairs)
    BY <1>12
  <2>2. PICK b \in Objects : /\ pairs[j].key = KeyOfObject(b) /\ b = DecodeObjectKey(pairs[j].key)
                             /\ ClassOf(b) = c /\ j \in 1..Len(pairs)
    BY <1>12
  <2>3. Less(KeyOfObject(a), KeyOfObject(b))
    BY <1>11, <1>14, <2>1, <2>2
  <2>4. Less(ObjectKey(c.project, c.class, a.id), ObjectKey(c.project, c.class, b.id))
    BY <1>9, <2>1, <2>2, <2>3
  <2>5. a.id \in Ids /\ b.id \in Ids
    BY <1>8
  <2> QED BY <1>4, <2>1, <2>2, <2>4, <2>5
<1> QED BY <1>12, <1>13, <1>14

LEMMA KeysAreIdentified ==
  ASSUME Inv, Whole(pages, root)
  PROVE  KeysIdentify
<1> DEFINE stored == {o \in Objects : KeyOfObject(o) \in DOMAIN content}
<1>1. Loaded = {c \in Classes : KeyOfClass(c) \in DOMAIN content} /\ Observed = stored
  BY LoadedIs, ObservedIs
<1>2. ASSUME NEW c \in Classes, NEW pairs,
             pairs = Scan(pages, root, ObjectPrefix(c.project, c.class))
      PROVE  /\ {DecodeObjectKey(pairs[i].key).id : i \in ListedAt(c, pairs)} =
                  {o.id : o \in {x \in stored : ClassOf(x) = c}}
             /\ \A i, j \in ListedAt(c, pairs) :
                  i < j => DecodeObjectKey(pairs[i].key).id < DecodeObjectKey(pairs[j].key).id
  <2>1. /\ \A i \in ListedAt(c, pairs) :
             /\ DecodeObjectKey(pairs[i].key) \in Objects
             /\ KeyOfObject(DecodeObjectKey(pairs[i].key)) \in DOMAIN content
             /\ ClassOf(DecodeObjectKey(pairs[i].key)) = c
        /\ \A o \in Objects : KeyOfObject(o) \in DOMAIN content /\ ClassOf(o) = c =>
             \E i \in ListedAt(c, pairs) : DecodeObjectKey(pairs[i].key) = o
        /\ \A i, j \in ListedAt(c, pairs) :
             i < j => DecodeObjectKey(pairs[i].key).id < DecodeObjectKey(pairs[j].key).id
    BY <1>2, ListedIs
  <2>2. \A i \in ListedAt(c, pairs) :
          /\ DecodeObjectKey(pairs[i].key) \in stored
          /\ ClassOf(DecodeObjectKey(pairs[i].key)) = c
    BY <2>1
  <2>3. \A o \in stored : ClassOf(o) = c =>
          \E i \in ListedAt(c, pairs) : DecodeObjectKey(pairs[i].key) = o
    BY <2>1
  <2> HIDE DEF stored
  <2> QED BY <2>1, <2>2, <2>3
<1> HIDE DEF stored
<1> QED BY <1>1, <1>2 DEF KeysIdentify, stored

\* While the tree's own pages are not cut off, a boot finds every class and every
\* object that was stored, under its own project and class, and a class lists
\* its own objects in the order of their ids, whatever the names of projects and
\* classes and however their keys share prefixes (record.go, the key layout).
THEOREM KeysIdentifyObjects == Spec => [](Whole(pages, root) => KeysIdentify)
<1>1. Inv => (Whole(pages, root) => KeysIdentify)
  BY KeysAreIdentified
<1> QED BY <1>1, Invariance, PTL

\* The nodes of a page, and the chains of its entries, are in the file.
LEMMA NodesAreInFile ==
  ASSUME NEW file, NEW g, FileHolds(file, g), NEW id \in 1..Len(file)
  PROVE  Nodes(file, id) \subseteq 1..Len(file)
<1>1. PICK r : Reaches(file, r) /\ Nodes(file, id) = r[id]
  BY NodesOf
<1> DEFINE N == Len(file)
           Bad == {p \in 1..N : ~(r[p] \subseteq 1..N)}
<1>2. N \in Nat
  BY DEF FileHolds
<1>3. Bad = {}
  <2> SUFFICES ASSUME Bad # {} PROVE FALSE
    OBVIOUS
  <2>1. PICK p \in Bad : \A y \in Bad : p <= y
    <3>1. Bad \subseteq Nat
      OBVIOUS
    <3> HIDE DEF Bad
    <3> QED BY <3>1, Least
  <2>2. p \in 1..N /\ ~(r[p] \subseteq 1..N)
    OBVIOUS
  <2>3. \A q \in 1..(p - 1) : q \in 1..N /\ ~(p <= q)
    BY <1>2, <2>2
  <2>4. \A q \in 1..(p - 1) : r[q] \subseteq 1..N
    <3>1. \A q \in 1..N : ~(r[q] \subseteq 1..N) => q \in Bad
      OBVIOUS
    <3> HIDE DEF Bad
    <3> QED BY <2>1, <2>3, <3>1
  <2> HIDE DEF Bad
  <2>5. CASE file[p].kind = "internal"
    <3>1. \A c \in ToSet(file[p].children) : c \in 1..(p - 1)
      BY <2>2, <2>5, KindsAre DEF ToSet
    <3>2. r[p] = {p} \cup UNION {r[c] : c \in ToSet(file[p].children)}
      BY <1>1, <2>2, <2>5 DEF Reaches
    <3>3. UNION {r[c] : c \in ToSet(file[p].children)} \subseteq 1..N
      BY <2>4, <3>1
    <3> QED BY <2>2, <3>2, <3>3
  <2>6. CASE file[p].kind # "internal"
    <3>1. r[p] = {p} \cup {}
      BY <1>1, <2>2, <2>6 DEF Reaches
    <3> QED BY <2>2, <3>1
  <2> QED BY <2>5, <2>6
<1> QED BY <1>1, <1>3

\* A node's children are among the nodes its own page is one of.
LEMMA NodesPassOn ==
  ASSUME NEW file, NEW g, FileHolds(file, g), NEW id \in 1..Len(file),
         NEW q \in Nodes(file, id), file[q].kind = "internal"
  PROVE  ToSet(file[q].children) \subseteq Nodes(file, id)
<1>1. PICK r : Reaches(file, r) /\ Nodes(file, id) = r[id]
  BY NodesOf
<1> DEFINE N == Len(file)
           Passes(S) == \A x \in S : file[x].kind = "internal" => ToSet(file[x].children) \subseteq S
           Bad == {p \in 1..N : ~Passes(r[p])}
<1>2. N \in Nat
  BY DEF FileHolds
<1>3. Bad = {}
  <2> SUFFICES ASSUME Bad # {} PROVE FALSE
    OBVIOUS
  <2>1. PICK p \in Bad : \A y \in Bad : p <= y
    <3>1. Bad \subseteq Nat
      OBVIOUS
    <3> HIDE DEF Bad
    <3> QED BY <3>1, Least
  <2>2. p \in 1..N /\ ~Passes(r[p])
    OBVIOUS
  <2>3. \A c \in 1..(p - 1) : c \in 1..N /\ ~(p <= c)
    BY <1>2, <2>2
  <2>4. \A c \in 1..(p - 1) : Passes(r[c])
    <3>1. \A c \in 1..N : ~Passes(r[c]) => c \in Bad
      OBVIOUS
    <3> HIDE DEF Bad, Passes
    <3> QED BY <2>1, <2>3, <3>1
  <2> HIDE DEF Bad
  <2>5. CASE file[p].kind = "internal"
    <3> DEFINE C == ToSet(file[p].children)
    <3>1. \A c \in C : c \in 1..(p - 1)
      BY <2>2, <2>5, KindsAre DEF ToSet
    <3>2. r[p] = {p} \cup UNION {r[c] : c \in C}
      BY <1>1, <2>2, <2>5 DEF Reaches
    <3>3. \A c \in C : c \in r[c]
      BY <1>1, <2>3, <3>1 DEF Reaches
    <3>4. ASSUME NEW x \in r[p], file[x].kind = "internal", NEW y \in ToSet(file[x].children)
          PROVE  y \in r[p]
      <4>1. CASE x = p
        <5>1. y \in C
          BY <3>4, <4>1
        <5> HIDE DEF C
        <5> QED BY <3>2, <3>3, <5>1
      <4>2. CASE x # p
        <5> HIDE DEF C
        <5>1. PICK c \in C : x \in r[c]
          BY <3>2, <4>2
        <5>2. Passes(r[c])
          BY <2>4, <3>1
        <5>3. y \in r[c]
          BY <3>4, <5>1, <5>2
        <5> QED BY <3>2, <5>3
      <4> QED BY <4>1, <4>2
    <3> QED BY <2>2, <3>4
  <2>6. CASE file[p].kind # "internal"
    <3>1. r[p] = {p} \cup {}
      BY <1>1, <2>2, <2>6 DEF Reaches
    <3> QED BY <2>2, <2>6, <3>1
  <2> QED BY <2>5, <2>6
<1>4. Passes(r[id])
  BY <1>3
<1> HIDE DEF Passes
<1>5. Passes(Nodes(file, id))
  BY <1>1, <1>4
<1> QED BY <1>5 DEF Passes

\* The chains of a tree's entries are before the leaves the entries are in.
LEMMA ChainsAre ==
  ASSUME NEW file, NEW g, FileHolds(file, g), NEW id \in 1..Len(file),
         NEW e \in Entries(file, id), e.head # InvalidPageID
  PROVE  \E p \in 1..Len(file), v \in Values : IsChain(file, p, e, v)
<1>1. Nodes(file, id) \subseteq 1..Len(file)
  BY NodesAreInFile
<1>2. Len(file) \in Nat /\ file \in Seq(Page)
  BY DEF FileHolds
<1>3. PICK p \in Nodes(file, id) : e \in OwnEntries(file[p])
  BY DEF Entries
<1>4. p \in 1..Len(file) /\ file[p].kind = "leaf" /\ e \in ToSet(file[p].entries)
  BY <1>1, <1>3 DEF OwnEntries
<1> DEFINE v == g[p].map[e.key]
<1>5. LeafHolds(file, p, file[p], g[p])
  BY <1>4, KindsAre
<1>6. EntryHolds(file, p, e, v)
  <2>1. DOMAIN file[p].entries = 1..Len(file[p].entries)
    BY <1>5 DEF LeafHolds, LeafPages
  <2>2. PICK i \in DOMAIN file[p].entries : file[p].entries[i] = e
    BY <1>4, <2>1 DEF ToSet
  <2> QED BY <1>5, <2>2 DEF LeafHolds
<1> HIDE DEF v
<1>7. IsChain(file, p, e, v)
  BY <1>2, <1>4, <1>6, ChainIs
<1> QED BY <1>4, <1>6, <1>7 DEF EntryHolds

LEMMA ReachesTheFile ==
  ASSUME NEW file, NEW g, FileHolds(file, g), NEW id \in 1..Len(file)
  PROVE  /\ Reachable(file, id) \subseteq 1..Len(file)
         /\ \A x \in Reachable(file, id) : x \in Nodes(file, id) \/ file[x].kind = "overflow"
<1>1. Nodes(file, id) \subseteq 1..Len(file)
  BY NodesAreInFile
<1>2. id # InvalidPageID /\ Len(file) \in Nat
  BY DEF InvalidPageID, FileHolds
<1>3. ASSUME NEW e \in Entries(file, id), e.head # InvalidPageID
      PROVE  \A x \in ToSet(Chain(file, e.head)) : x \in 1..Len(file) /\ file[x].kind = "overflow"
  <2>1. PICK p \in 1..Len(file), v \in Values : IsChain(file, p, e, v)
    BY <1>3, ChainsAre
  <2> DEFINE P == Parts(v)
             chain == Chain(file, e.head)
  <2>2. P \in Nat
    BY PartsAre
  <2>3. /\ chain = [n \in 1..P |-> e.head + n - 1]
        /\ \A n \in 1..P : /\ e.head + n - 1 \in 1..(p - 1)
                           /\ file[e.head + n - 1].kind = "overflow"
    BY <2>1 DEF IsChain
  <2> HIDE DEF P, chain
  <2>4. Len(chain) = P /\ DOMAIN chain = 1..P
    BY <2>2, <2>3
  <2>5. \A n \in 1..P : chain[n] \in 1..(p - 1) /\ file[chain[n]].kind = "overflow"
    BY <2>3
  <2>6. \A x \in ToSet(chain) : x \in 1..(p - 1) /\ file[x].kind = "overflow"
    BY <2>4, <2>5 DEF ToSet
  <2>7. 1..(p - 1) \subseteq 1..Len(file)
    BY <1>2, <2>1
  <2> QED BY <2>6, <2>7 DEF chain
<1> QED BY <1>1, <1>2, <1>3 DEF Reachable

\* Where nothing but the root is held by no page, the root reaches every page: what
\* holds a page is after it, so the last page not reached would be held by one that is.
LEMMA CoveredIsReached ==
  ASSUME NEW file, NEW g, FileHolds(file, g), NEW id, IsRoot(file, id),
         Covered(file, {id}, {})
  PROVE  1..Len(file) \subseteq Reachable(file, id)
<1> DEFINE N == Len(file)
           tree == Nodes(file, id)
           all == Reachable(file, id)
           Missing == {m \in 0..N : N - m \in 1..N /\ N - m \notin all}
<1>1. N \in Nat /\ file \in Seq(Page) /\ id \in 1..N /\ id # InvalidPageID
  BY DEF IsRoot, FileHolds, InvalidPageID
<1>2. /\ all \subseteq 1..N
      /\ \A x \in all : x \in tree \/ file[x].kind = "overflow"
  BY <1>1, ReachesTheFile
<1>3. tree \subseteq all
  BY <1>1 DEF Reachable
<1>4. id \in tree
  <2>1. PICK r : Reaches(file, r) /\ Nodes(file, id) = r[id]
    BY NodesOf
  <2> QED BY <1>1, <2>1 DEF Reaches
<1>5. ASSUME NEW q \in tree, file[q].kind = "internal"
      PROVE  ToSet(file[q].children) \subseteq all
  BY <1>1, <1>3, <1>5, NodesPassOn
<1>6. ASSUME NEW q \in tree, file[q].kind = "leaf", NEW e \in ToSet(file[q].entries),
             NEW x, Spills(file, q, e, x)
      PROVE  x \in all
  <2>1. PICK v \in Values : /\ EntryHolds(file, q, e, v) /\ e.head # InvalidPageID
                            /\ x \in e.head..(e.head + Parts(v) - 1)
    BY <1>6 DEF Spills
  <2>2. q \in 1..N
    BY <1>2, <1>3
  <2> DEFINE P == Parts(v)
             chain == Chain(file, e.head)
  <2>3. IsChain(file, q, e, v)
    BY <1>1, <2>1, <2>2, ChainIs
  <2>4. chain = [n \in 1..P |-> e.head + n - 1]
    BY <2>3 DEF IsChain
  <2>5. P \in Nat /\ e.head \in Nat
    BY <2>1, PartsAre DEF EntryHolds
  <2>6. x \in e.head..(e.head + P - 1)
    BY <2>1
  <2> HIDE DEF P, chain
  <2>7. x - e.head + 1 \in 1..P /\ e.head + (x - e.head + 1) - 1 = x
    BY <2>5, <2>6
  <2>8. Len(chain) = P /\ chain[x - e.head + 1] = x
    BY <2>4, <2>5, <2>7
  <2>9. x \in ToSet(chain)
    BY <2>7, <2>8 DEF ToSet
  <2>10. e \in Entries(file, id)
    BY <1>6 DEF Entries, OwnEntries
  <2> QED BY <1>1, <2>1, <2>9, <2>10 DEF Reachable, chain
<1> SUFFICES Missing = {}
  <2> SUFFICES ASSUME NEW x \in 1..N, x \notin all PROVE Missing # {}
    BY <1>1
  <2>1. N - x \in 0..N /\ N - (N - x) = x
    BY <1>1
  <2>2. N - x \in Missing
    BY <2>1
  <2> QED BY <2>2
<1> SUFFICES ASSUME Missing # {} PROVE FALSE
  OBVIOUS
<1> HIDE DEF tree, all
<1>7. PICK m \in Missing : \A y \in Missing : m <= y
  <2>1. Missing \subseteq Nat
    BY <1>1
  <2> HIDE DEF Missing
  <2> QED BY <2>1, Least
<1> DEFINE x == N - m
<1>8. m \in 0..N /\ x \in 1..N /\ x \notin all
  OBVIOUS
<1>9. \A q \in 1..N : x < q => q \in all
  <2> SUFFICES ASSUME NEW q \in 1..N, x < q, q \notin all PROVE FALSE
    OBVIOUS
  <2>1. N - q \in 0..N /\ N - (N - q) = q /\ ~(m <= N - q)
    BY <1>1, <1>8
  <2>2. N - q \in Missing
    BY <2>1
  <2> QED BY <1>7, <2>1, <2>2
<1> HIDE DEF Missing, x
<1>10. x # id
  BY <1>3, <1>4, <1>8
<1>11. Held(file, x)
  BY <1>8, <1>10 DEF Covered, N
<1>12. PICK q \in 1..N :
          \/ file[q].kind = "internal" /\ x \in ToSet(file[q].children)
          \/ file[q].kind = "leaf" /\ \E e \in ToSet(file[q].entries) : Spills(file, q, e, x)
  BY <1>11 DEF Held, N
<1>13. x < q
  <2>1. CASE file[q].kind = "internal" /\ x \in ToSet(file[q].children)
    <3>1. x \in 1..(q - 1)
      BY <1>12, <2>1, KindsAre DEF ToSet, N
    <3> QED BY <1>1, <3>1
  <2>2. CASE \E e \in ToSet(file[q].entries) : Spills(file, q, e, x)
    <3>0. PICK e \in ToSet(file[q].entries) : Spills(file, q, e, x)
      BY <2>2
    <3>1. PICK v \in Values : /\ EntryHolds(file, q, e, v) /\ e.head # InvalidPageID
                              /\ x \in e.head..(e.head + Parts(v) - 1)
      BY <3>0 DEF Spills
    <3> DEFINE P == Parts(v)
               h == e.head
    <3>2. P \in Nat /\ h \in Nat /\ h + P <= q /\ x \in h..(h + P - 1)
      BY <3>1, PartsAre DEF EntryHolds
    <3> HIDE DEF P, h
    <3> QED BY <1>1, <3>2
  <2> QED BY <1>12, <2>1, <2>2
<1>14. q \in tree
  <2>1. q \in all
    BY <1>9, <1>13
  <2> QED BY <1>2, <1>12, <2>1
<1> QED BY <1>5, <1>6, <1>8, <1>12, <1>14

\* One tree's pages are those of its file.
LEMMA OneTreeReached ==
  ASSUME NEW file, NEW g, FileHolds(file, g), NEW id, OneTree(file, id)
  PROVE  Reachable(file, id) = DOMAIN file
<1>1. CASE id = InvalidPageID
  <2>1. DOMAIN <<>> = {}
    OBVIOUS
  <2> QED BY <1>1, <2>1 DEF OneTree, Reachable
<1>2. CASE id # InvalidPageID
  <2>1. IsRoot(file, id) /\ Covered(file, {id}, {})
    BY <1>2 DEF OneTree
  <2>2. Reachable(file, id) \subseteq 1..Len(file)
    BY <2>1, ReachesTheFile DEF IsRoot
  <2>3. 1..Len(file) \subseteq Reachable(file, id)
    BY <2>1, CoveredIsReached
  <2>4. DOMAIN file = 1..Len(file)
    BY DEF FileHolds
  <2> QED BY <2>2, <2>3, <2>4
<1> QED BY <1>1, <1>2

\* A file of which no page is damaged holds whole trees only.
LEMMA SoundIsWhole ==
  ASSUME NEW file, NEW g, FileHolds(file, g), Sound(file), NEW id, IsRoot(file, id)
  PROVE  Whole(file, id)
BY ReachesTheFile DEF Sound, Whole, IsRoot

NoPageDamaged == Sound(pages)

LEMMA SoundFits == Inv /\ NoPageDamaged => NodesFit
<1> SUFFICES ASSUME Inv, Sound(pages) PROVE NodesFit
  BY DEF NoPageDamaged
<1>1. PICK g : Keeps(pages, root, content, captured, g)
  BY DEF Inv
<1>2. FileHolds(pages, g) /\ \A r \in DOMAIN captured : IsRoot(pages, r)
  BY <1>1 DEF Keeps
<1>3. \A r \in DOMAIN captured : Whole(pages, r)
  BY <1>2, SoundIsWhole
<1> QED BY <1>3 DEF NodesFit

\* What a build writes is sound.
LEMMA RebuildIsSound ==
  ASSUME Inv, NEW deltas \in Batches, Rebuild(deltas)
  PROVE  NoPageDamaged'
<1>1. PICK g : Keeps(pages, root, content, captured, g)
  BY DEF Inv
<1>2. \E l : Keeps(pages', root', content', captured', l) /\ Sound(pages')
  BY <1>1, RebuildMakes
<1> QED BY <1>2 DEF NoPageDamaged

\* What inserts, deletes and failed writes have made of a file does not matter to
\* the next: no page of a generation just built is cut off, for any sizes of its
\* keys and values (build.go: a leaf is flushed before it is too large, and a
\* parent takes two children at least, which fit).
THEOREM GenerationsFit == Spec => BuildsFit
<1>1. Inv /\ [Next]_vars => [builds' # builds => NoPageDamaged']_vars
  <2> SUFFICES ASSUME Inv, [Next]_vars, builds' # builds PROVE NoPageDamaged'
    OBVIOUS
  <2>1. CASE UNCHANGED vars
    BY <2>1 DEF vars
  <2>2. ASSUME NEW key \in TreeKeys, Delete(key) PROVE FALSE
    BY <2>2 DEF Delete
  <2>3. ASSUME NEW key \in TreeKeys, NEW v \in Values, Insert(key, v) \/ InsertFails(key, v)
        PROVE  FALSE
    BY <2>3 DEF Insert, InsertFails
  <2>4. ASSUME NEW deltas \in Batches, Rebuild(deltas) PROVE NoPageDamaged'
    BY <2>4, RebuildIsSound
  <2> QED BY <2>1, <2>2, <2>3, <2>4 DEF Next
<1>2. Inv /\ NoPageDamaged => NodesFit
  BY SoundFits
<1> QED BY <1>1, <1>2, Invariance, PTL DEF Spec, BuildsFit

LEMMA RebuildReaches ==
  ASSUME Inv, NEW deltas \in Batches, Rebuild(deltas)
  PROVE  Reachable(pages', root') = DOMAIN pages'
<1>1. PICK g : Keeps(pages, root, content, captured, g)
  BY DEF Inv
<1>2. PICK l : Keeps(pages', root', content', captured', l)
  BY <1>1, RebuildMakes
<1>3. OneTree(pages', root')
  BY <1>1, RebuildMakes
<1>4. FileHolds(pages', l)
  BY <1>2 DEF Keeps
<1> QED BY <1>3, <1>4, OneTreeReached

\* A generation holds nothing but its tree: every page of a file just built is a node
\* that the root reaches, or is in the chain of one of its entries, and no page of the
\* tree is missing from the file, for any sizes of keys and values (build.go: a child
\* is written before its parent, a chain before its leaf, and nothing is left over).
THEOREM GenerationsCompact == Spec => RebuildCompacts
<1>1. Inv /\ [Next]_vars => [builds' # builds => Reachable(pages', root') = DOMAIN pages']_vars
  <2> SUFFICES ASSUME Inv, [Next]_vars, builds' # builds
               PROVE  Reachable(pages', root') = DOMAIN pages'
    OBVIOUS
  <2>1. CASE UNCHANGED vars
    BY <2>1 DEF vars
  <2>2. ASSUME NEW key \in TreeKeys, Delete(key) PROVE FALSE
    BY <2>2 DEF Delete
  <2>3. ASSUME NEW key \in TreeKeys, NEW v \in Values, Insert(key, v) \/ InsertFails(key, v)
        PROVE  FALSE
    BY <2>3 DEF Insert, InsertFails
  <2>4. ASSUME NEW deltas \in Batches, Rebuild(deltas)
        PROVE  Reachable(pages', root') = DOMAIN pages'
    BY <2>4, RebuildReaches
  <2> QED BY <2>1, <2>2, <2>3, <2>4 DEF Next
<1> QED BY <1>1, Invariance, PTL DEF Spec, RebuildCompacts

\* The program changes a tree by checkpoints alone.
RebuildsOnly == Init /\ [][\E deltas \in Batches : Rebuild(deltas)]_vars

\* In a program that checkpoints and never inserts into a tree in place, as the
\* server does, no tree ever has a page cut off: what holds of whole trees above
\* then holds of every tree.
THEOREM CheckpointsFit == RebuildsOnly => [](NodesFit /\ RootsKeepContent)
<1> DEFINE Step == [\E deltas \in Batches : Rebuild(deltas)]_vars
<1>1. Init => Inv /\ NoPageDamaged
  <2>1. Init => NoPageDamaged
    <3>1. Len(<<>>) = 0 /\ \A i \in 1..0 : FALSE
      OBVIOUS
    <3> QED BY <3>1 DEF Init, NoPageDamaged, Sound
  <2> QED BY <2>1, InitKeeps
<1>2. Inv /\ NoPageDamaged /\ Step => Inv' /\ NoPageDamaged'
  <2> SUFFICES ASSUME Inv, NoPageDamaged, Step PROVE Inv' /\ NoPageDamaged'
    OBVIOUS
  <2>1. CASE UNCHANGED vars
    BY <2>1 DEF vars, Inv, NoPageDamaged
  <2>2. ASSUME NEW deltas \in Batches, Rebuild(deltas) PROVE Inv' /\ NoPageDamaged'
    BY <2>2, RebuildKeeps, RebuildIsSound
  <2> QED BY <2>1, <2>2
<1>3. Inv /\ NoPageDamaged => NodesFit /\ RootsKeepContent
  <2>1. Inv /\ NodesFit => RootsKeepContent
    BY RootsList DEF RootsKeepContent, NodesFit
  <2> QED BY <2>1, SoundFits
<1> QED BY <1>1, <1>2, <1>3, PTL DEF RebuildsOnly
=============================================================================
