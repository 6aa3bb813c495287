--------------------------- MODULE StorageProofs ---------------------------
(***************************************************************************)
(* For any keys, bounds and survivable faults: facts about replaying a log *)
(* over a generation, the invariant of the durable core, one lemma per     *)
(* action, the safety properties it gives, and that the durable core       *)
(* implements the abstract map.                                            *)
(***************************************************************************)
EXTENDS Storage, WellFoundedInduction, TLAPS

-----------------------------------------------------------------------------
(* Facts about replaying a log, for every log *)

Below == {s \in Nat \X Nat : s[1] < s[2]}

(***************************************************************************)
(* The order of log positions is well-founded.                             *)
(***************************************************************************)
LEMMA BelowWellFounded == IsWellFoundedOn(Below, Nat)
<1>1. IsWellFoundedOn(OpToRel(<, Nat), Nat)
  BY NatLessThanWellFounded
<1> QED BY <1>1 DEF OpToRel, Below

(***************************************************************************)
(* A non-empty set of log positions has a last one: the loops of replayWAL *)
(* and parseWALDeltas leave each key at its last writer.                   *)
(***************************************************************************)
LEMMA LastPosition ==
  ASSUME NEW n \in Nat, NEW S \in SUBSET (1 .. n), S # {}
  PROVE  Max(S) \in S /\ \A j \in S : j <= Max(S)
<1> DEFINE T == {n - i : i \in S}
<1>1. \A i \in S : i \in Int /\ n - i \in Nat
  OBVIOUS
<1>2. T \subseteq Nat
  BY <1>1
<1>3. T # {}
  OBVIOUS
<1>4. PICK t \in T : \A y \in T : <<y, t>> \notin Below
  <2> HIDE DEF T
  <2> QED BY <1>2, <1>3, BelowWellFounded, WFMin
<1>5. PICK m \in S : t = n - m
  BY <1>4
<1>6. ASSUME NEW j \in S PROVE m >= j
  <2>1. <<n - j, t>> \notin Below
    BY <1>4
  <2>2. n - j \in Nat /\ t \in Nat
    BY <1>1, <1>4
  <2>3. ~(n - j < t)
    BY <2>1, <2>2 DEF Below
  <2> QED BY <2>3, <1>5, <1>1
<1>7. /\ Max(S) \in S
      /\ \A y \in S : Max(S) >= y
  BY <1>6 DEF Max
<1> QED BY <1>7, <1>1

(***************************************************************************)
(* The writers of a key are positions of the log.                          *)
(***************************************************************************)
LEMMA WritersAreRecords ==
  ASSUME NEW recs \in Seq(Record), NEW k \in Key, NEW a \in Nat
  PROVE  /\ Writers(recs, k, a) \subseteq 1 .. Len(recs)
         /\ \A i \in Writers(recs, k, a) :
               /\ recs[i] \in Record /\ recs[i].tx \in Nat
               /\ recs[i].tx > a /\ k \in recs[i].keys
<1>1. ASSUME NEW i \in DOMAIN recs
      PROVE  i \in 1 .. Len(recs) /\ recs[i] \in Record /\ recs[i].tx \in Nat
  <2>1. i \in 1 .. Len(recs) /\ recs[i] \in Record
    OBVIOUS
  <2> QED BY <2>1 DEF Record
<1> QED BY <1>1 DEF Writers

(***************************************************************************)
(* The last writer of a key, when it has one, governs it.                  *)
(***************************************************************************)
LEMMA LastWriter ==
  ASSUME NEW base \in Generation, NEW recs \in Seq(Record), NEW k \in Key,
         Writers(recs, k, base.applied) # {}
  PROVE  \E m \in Writers(recs, k, base.applied) :
            /\ Replayed(base, recs)[k] = recs[m].tx
            /\ \A j \in Writers(recs, k, base.applied) : j <= m
<1> DEFINE W == Writers(recs, k, base.applied)
<1>1. base.applied \in Nat
  BY DEF Generation
<1>2. W \subseteq 1 .. Len(recs) /\ Len(recs) \in Nat
  BY <1>1, WritersAreRecords
<1>3. Max(W) \in W /\ \A j \in W : j <= Max(W)
  <2>1. W # {}
    OBVIOUS
  <2> HIDE DEF W
  <2> QED BY <1>2, <2>1, LastPosition
<1>4. Replayed(base, recs)[k] = recs[Max(W)].tx
  BY DEF Replayed
<1> QED BY <1>3, <1>4

(***************************************************************************)
(* A key nobody writes keeps what the base has for it.                     *)
(***************************************************************************)
LEMMA NoWriter ==
  ASSUME NEW base \in Generation, NEW recs \in Seq(Record), NEW k \in Key,
         Writers(recs, k, base.applied) = {}
  PROVE  Replayed(base, recs)[k] = base.db[k]
BY DEF Replayed

(***************************************************************************)
(* Replaying yields a TxID for every key.                                  *)
(***************************************************************************)
LEMMA ReplayedType ==
  ASSUME NEW base \in Generation, NEW recs \in Seq(Record)
  PROVE  Replayed(base, recs) \in [Key -> Nat]
<1>1. ASSUME NEW k \in Key PROVE Replayed(base, recs)[k] \in Nat
  <2>0. base.applied \in Nat /\ base.db[k] \in Nat
    BY DEF Generation
  <2>1. CASE Writers(recs, k, base.applied) = {}
    BY <2>0, <2>1, NoWriter
  <2>2. CASE Writers(recs, k, base.applied) # {}
    BY <2>0, <2>2, LastWriter, WritersAreRecords, SMTT(30)
  <2> QED BY <2>1, <2>2
<1>2. Replayed(base, recs) = [k \in Key |-> Replayed(base, recs)[k]]
  BY DEF Replayed
<1> QED BY <1>1, <1>2

(***************************************************************************)
(* A log already folded into the base changes nothing: the skip rule makes *)
(* folding it again idempotent.                                            *)
(***************************************************************************)
LEMMA ReplayedFolded ==
  ASSUME NEW base \in Generation, NEW recs \in Seq(Record),
         \A i \in DOMAIN recs : recs[i].tx <= base.applied
  PROVE  Replayed(base, recs) = base.db
<1>1. base.applied \in Nat /\ base.db \in [Key -> Nat]
  BY DEF Generation
<1>2. ASSUME NEW k \in Key PROVE Replayed(base, recs)[k] = base.db[k]
  <2>1. Writers(recs, k, base.applied) = {}
    BY <1>1, WritersAreRecords DEF Writers
  <2> QED BY <2>1, NoWriter
<1>3. Replayed(base, recs) \in [Key -> Nat]
  BY ReplayedType
<1> QED BY <1>1, <1>2, <1>3

(***************************************************************************)
(* In an increasing log the governing TxID of a key is at least that of    *)
(* every record above the base that writes it.                             *)
(***************************************************************************)
LEMMA ReplayedCovers ==
  ASSUME NEW base \in Generation, NEW recs \in Seq(Record), Increasing(recs),
         NEW k \in Key, NEW i \in DOMAIN recs,
         base.applied < recs[i].tx, k \in recs[i].keys
  PROVE  recs[i].tx <= Replayed(base, recs)[k]
<1>0. base.applied \in Nat
  BY DEF Generation
<1>1. i \in Writers(recs, k, base.applied)
  BY <1>0 DEF Writers, Record
<1>2. PICK m \in Writers(recs, k, base.applied) :
         Replayed(base, recs)[k] = recs[m].tx /\ i <= m
  BY <1>1, LastWriter
<1>3. m \in DOMAIN recs /\ recs[m].tx \in Nat /\ recs[i].tx \in Nat
  BY <1>0, <1>1, WritersAreRecords
<1>4. i < m => recs[i].tx < recs[m].tx
  BY <1>3 DEF Increasing
<1>5. i = m \/ i < m
  BY <1>2, <1>3
<1> QED BY <1>2, <1>3, <1>4, <1>5

(***************************************************************************)
(* Replaying never moves a key back behind what the base has for it.       *)
(***************************************************************************)
LEMMA ReplayedGrows ==
  ASSUME NEW base \in Generation, NEW recs \in Seq(Record), NEW k \in Key,
         base.db[k] <= base.applied
  PROVE  base.db[k] <= Replayed(base, recs)[k]
<1>0. base.applied \in Nat /\ base.db[k] \in Nat
  BY DEF Generation
<1>1. CASE Writers(recs, k, base.applied) = {}
  BY <1>0, <1>1, NoWriter
<1>2. CASE Writers(recs, k, base.applied) # {}
  <2>1. PICK m \in Writers(recs, k, base.applied) :
           Replayed(base, recs)[k] = recs[m].tx
    BY <1>2, LastWriter
  <2>2. recs[m].tx \in Nat /\ base.applied < recs[m].tx
    BY <1>0, <2>1, WritersAreRecords
  <2> QED BY <1>0, <2>1, <2>2
<1> QED BY <1>1, <1>2

(***************************************************************************)
(* Nor behind what a prefix of an increasing log makes of it.              *)
(***************************************************************************)
LEMMA ReplayedPrefix ==
  ASSUME NEW base \in Generation, NEW recs \in Seq(Record), Increasing(recs),
         NEW n \in 0 .. Len(recs), NEW k \in Key, base.db[k] <= base.applied
  PROVE  Replayed(base, SubSeq(recs, 1, n))[k] <= Replayed(base, recs)[k]
<1> DEFINE pre == SubSeq(recs, 1, n)
<1>1. pre \in Seq(Record) /\ Len(pre) = n /\ \A i \in 1 .. n : pre[i] = recs[i]
  OBVIOUS
<1>2. base.applied \in Nat /\ base.db[k] \in Nat
  BY DEF Generation
<1> SUFFICES Replayed(base, pre)[k] <= Replayed(base, recs)[k]
  OBVIOUS
<1> HIDE DEF pre
<1>3. CASE Writers(pre, k, base.applied) = {}
  BY <1>1, <1>3, NoWriter, ReplayedGrows
<1>4. CASE Writers(pre, k, base.applied) # {}
  <2>1. PICK m \in Writers(pre, k, base.applied) :
           Replayed(base, pre)[k] = pre[m].tx
    BY <1>1, <1>4, LastWriter
  <2>2. /\ m \in 1 .. n /\ pre[m] = recs[m]
        /\ base.applied < recs[m].tx /\ k \in recs[m].keys
    BY <1>1, <1>2, <2>1, WritersAreRecords
  <2>3. m \in DOMAIN recs
    BY <2>2
  <2> QED BY <2>1, <2>2, <2>3, ReplayedCovers
<1> QED BY <1>3, <1>4

(***************************************************************************)
(* Every TxID Replayed yields is of the base or of a record.               *)
(***************************************************************************)
LEMMA ReplayedBound ==
  ASSUME NEW base \in Generation, NEW recs \in Seq(Record), NEW k \in Key,
         NEW n \in Nat, base.db[k] <= n,
         \A i \in DOMAIN recs : recs[i].tx <= n
  PROVE  Replayed(base, recs)[k] <= n
<1>0. base.applied \in Nat
  BY DEF Generation
<1>1. CASE Writers(recs, k, base.applied) = {}
  BY <1>1, NoWriter
<1>2. CASE Writers(recs, k, base.applied) # {}
  <2>1. PICK m \in Writers(recs, k, base.applied) :
           Replayed(base, recs)[k] = recs[m].tx
    BY <1>2, LastWriter
  <2>2. m \in DOMAIN recs
    BY <1>0, <2>1, WritersAreRecords
  <2> QED BY <2>1, <2>2
<1> QED BY <1>1, <1>2

(***************************************************************************)
(* The highest TxID of an increasing log: at least the floor and every     *)
(* record, and one of them.                                                *)
(***************************************************************************)
LEMMA HighestBounds ==
  ASSUME NEW floor \in Nat, NEW recs \in Seq(Record), Increasing(recs)
  PROVE  /\ Highest(floor, recs) \in Nat
         /\ floor <= Highest(floor, recs)
         /\ \A i \in DOMAIN recs : recs[i].tx <= Highest(floor, recs)
         /\ \/ Highest(floor, recs) = floor
            \/ \E i \in DOMAIN recs : Highest(floor, recs) = recs[i].tx
<1> DEFINE T == {recs[i].tx : i \in DOMAIN recs}
           S == {floor} \union T
<1>1. \A i \in DOMAIN recs : recs[i] \in Record /\ recs[i].tx \in Nat
  <2>1. \A i \in DOMAIN recs : recs[i] \in Record
    OBVIOUS
  <2> QED BY <2>1 DEF Record
<1>2. S \subseteq Nat
  BY <1>1
<1>3. \E x \in S : \A y \in S : x >= y
  <2>1. CASE recs = <<>>
    BY <2>1, <1>2
  <2>2. CASE recs # <<>>
    <3> DEFINE last == recs[Len(recs)].tx
    <3>1. Len(recs) \in DOMAIN recs /\ DOMAIN recs = 1 .. Len(recs)
      BY <2>2
    <3>2. \A i \in DOMAIN recs : recs[i].tx <= last
      <4> TAKE i \in DOMAIN recs
      <4>1. i = Len(recs) \/ i < Len(recs)
        BY <3>1
      <4>2. i < Len(recs) => recs[i].tx < last
        BY <3>1 DEF Increasing
      <4> QED BY <1>1, <3>1, <4>1, <4>2
    <3>3. last \in S /\ last \in Nat
      BY <1>1, <3>1
    <3>4. CASE floor <= last
      BY <1>1, <3>2, <3>3, <3>4
    <3>5. CASE last < floor
      BY <1>1, <3>2, <3>3, <3>5
    <3> HIDE DEF last, S, T
    <3>6. floor <= last \/ last < floor
      BY <3>3
    <3> QED BY <3>4, <3>5, <3>6
  <2> QED BY <2>1, <2>2
<1>4. Max(S) \in S /\ \A y \in S : Max(S) >= y
  BY <1>3 DEF Max
<1>5. Highest(floor, recs) = Max(S)
  BY DEF Highest
<1> QED BY <1>1, <1>2, <1>4, <1>5

(***************************************************************************)
(* BuildGeneration makes a generation, bounded by its LastAppliedTxID.     *)
(***************************************************************************)
LEMMA FoldType ==
  ASSUME NEW base \in Generation, NEW recs \in Seq(Record), Increasing(recs)
  PROVE  Fold(base, recs) \in Generation /\ Fold(base, recs).there
<1>1. base.applied \in Nat
  BY DEF Generation
<1> QED BY <1>1, ReplayedType, HighestBounds DEF Fold, Generation

(***************************************************************************)
(* BuildGeneration's generation has no TxID above its LastAppliedTxID.     *)
(***************************************************************************)
LEMMA FoldBounded ==
  ASSUME NEW base \in Generation, NEW recs \in Seq(Record), Increasing(recs),
         NEW k \in Key, base.db[k] <= base.applied
  PROVE  Fold(base, recs).db[k] <= Fold(base, recs).applied
<1>1. base.applied \in Nat /\ base.db[k] \in Nat
  BY DEF Generation
<1>2. /\ Highest(base.applied, recs) \in Nat
      /\ base.db[k] <= Highest(base.applied, recs)
      /\ \A i \in DOMAIN recs : recs[i].tx <= Highest(base.applied, recs)
  BY <1>1, HighestBounds, SMTT(30)
<1> QED BY <1>2, ReplayedBound DEF Fold

(***************************************************************************)
(* Folding a log that is already in the base gives the base back: a        *)
(* leftover retired log is a no-op (recovery.go:12).                       *)
(***************************************************************************)
LEMMA FoldFolded ==
  ASSUME NEW base \in Generation, base.there,
         NEW recs \in Seq(Record), Increasing(recs),
         \A i \in DOMAIN recs : recs[i].tx <= base.applied
  PROVE  Fold(base, recs) = base
<1>1. /\ base.applied \in Nat
      /\ base = [there |-> base.there, db |-> base.db, applied |-> base.applied]
      /\ base.there = TRUE
  BY DEF Generation
<1>2. Replayed(base, recs) = base.db
  BY ReplayedFolded
<1>3. Highest(base.applied, recs) = base.applied
  <2>1. \A i \in DOMAIN recs : recs[i].tx \in Nat
    <3>1. \A i \in DOMAIN recs : recs[i] \in Record
      OBVIOUS
    <3> QED BY <3>1 DEF Record
  <2> QED BY <1>1, <2>1, HighestBounds
<1> QED BY <1>1, <1>2, <1>3 DEF Fold

(***************************************************************************)
(* Replaying a log that lies above the base may stop after any record and  *)
(* go on over what it has: a map that grows record by record.              *)
(***************************************************************************)
LEMMA ReplayedSplit ==
  ASSUME NEW base \in Generation, NEW recs \in Seq(Record),
         \A i \in DOMAIN recs : base.applied < recs[i].tx,
         NEW n \in 0 .. Len(recs), NEW m \in 0 .. n
  PROVE  Replayed(base, SubSeq(recs, 1, n)) =
            Replayed([NoGeneration EXCEPT !.db = Replayed(base, SubSeq(recs, 1, m))],
                     SubSeq(recs, m + 1, n))
<1> DEFINE all == SubSeq(recs, 1, n)
           pre == SubSeq(recs, 1, m)
           suf == SubSeq(recs, m + 1, n)
           mid == [NoGeneration EXCEPT !.db = Replayed(base, pre)]
<1>1. /\ all \in Seq(Record) /\ Len(all) = n /\ DOMAIN all = 1 .. n
      /\ pre \in Seq(Record) /\ Len(pre) = m /\ DOMAIN pre = 1 .. m
      /\ suf \in Seq(Record) /\ Len(suf) = n - m /\ DOMAIN suf = 1 .. n - m
      /\ \A i \in 1 .. n : all[i] = recs[i]
      /\ \A i \in 1 .. m : pre[i] = recs[i]
      /\ \A i \in 1 .. n - m : suf[i] = recs[m + i]
  OBVIOUS
<1>2. \A i \in 1 .. n : /\ recs[i] \in Record /\ recs[i].tx \in Nat \ {0}
                        /\ base.applied < recs[i].tx
  <2>1. \A i \in 1 .. n : i \in DOMAIN recs /\ recs[i] \in Record
    OBVIOUS
  <2> QED BY <2>1 DEF Record
<1> HIDE DEF all, pre, suf
<1>3. mid \in Generation /\ mid.applied = 0 /\ mid.db = Replayed(base, pre)
  BY <1>1, ReplayedType DEF NoGeneration, Generation
<1> HIDE DEF mid
<1>4. base.applied \in Nat
  BY DEF Generation
<1>5. ASSUME NEW k \in Key
      PROVE  Replayed(base, all)[k] = Replayed(mid, suf)[k]
  <2>1. /\ Writers(all, k, base.applied) = {i \in 1 .. n : k \in recs[i].keys}
        /\ Writers(pre, k, base.applied) = {i \in 1 .. m : k \in recs[i].keys}
        /\ Writers(suf, k, mid.applied) = {i \in 1 .. n - m : k \in recs[m + i].keys}
    BY <1>1, <1>2, <1>3, <1>4, SMTT(30) DEF Writers
  <2>2. CASE Writers(suf, k, mid.applied) # {}
    <3>1. PICK y \in Writers(suf, k, mid.applied) :
             /\ Replayed(mid, suf)[k] = suf[y].tx
             /\ \A j \in Writers(suf, k, mid.applied) : j <= y
      BY <2>2, <1>1, <1>3, LastWriter
    <3>2. y \in 1 .. n - m /\ m + y \in Writers(all, k, base.applied)
      BY <2>1, <3>1
    <3>3. PICK x \in Writers(all, k, base.applied) :
             /\ Replayed(base, all)[k] = all[x].tx
             /\ \A j \in Writers(all, k, base.applied) : j <= x
      BY <3>2, <1>1, LastWriter
    <3>4. x \in 1 .. n /\ m + y <= x
      BY <2>1, <3>2, <3>3
    <3>5. x - m \in 1 .. n - m /\ m + (x - m) = x
      BY <3>2, <3>4
    <3>6. x - m \in Writers(suf, k, mid.applied)
      BY <2>1, <3>3, <3>5
    <3>7. x - m <= y
      BY <3>1, <3>6
    <3>8. x = m + y
      BY <3>2, <3>4, <3>7
    <3> QED BY <1>1, <3>1, <3>2, <3>3, <3>4, <3>8
  <2>3. CASE Writers(suf, k, mid.applied) = {}
    <3>1. Replayed(mid, suf)[k] = Replayed(base, pre)[k]
      <4>1. Replayed(mid, suf)[k] = mid.db[k]
        BY <2>3, <1>1, <1>3, NoWriter
      <4> QED BY <1>3, <4>1
    <3>2. Writers(all, k, base.applied) = Writers(pre, k, base.applied)
      <4>1. ASSUME NEW i \in 1 .. n, k \in recs[i].keys PROVE i \in 1 .. m
        <5>1. CASE i > m
          <6>1. i - m \in 1 .. n - m /\ m + (i - m) = i
            BY <5>1
          <6> QED BY <2>1, <2>3, <4>1, <6>1
        <5> QED BY <5>1
      <4> QED BY <2>1, <4>1
    <3>3. CASE Writers(pre, k, base.applied) = {}
      BY <3>1, <3>2, <3>3, <1>1, NoWriter
    <3>4. CASE Writers(pre, k, base.applied) # {}
      <4>1. PICK x \in Writers(all, k, base.applied) :
               /\ Replayed(base, all)[k] = all[x].tx
               /\ \A j \in Writers(all, k, base.applied) : j <= x
        BY <3>2, <3>4, <1>1, LastWriter
      <4>2. PICK z \in Writers(pre, k, base.applied) :
               /\ Replayed(base, pre)[k] = pre[z].tx
               /\ \A j \in Writers(pre, k, base.applied) : j <= z
        BY <3>4, <1>1, LastWriter
      <4>3. x \in 1 .. m /\ z \in 1 .. m /\ x <= z /\ z <= x
        BY <2>1, <3>2, <4>1, <4>2
      <4>4. x = z
        BY <4>3
      <4> QED BY <1>1, <3>1, <4>1, <4>2, <4>3, <4>4
    <3> QED BY <3>3, <3>4
  <2> QED BY <2>2, <2>3
<1>6. Replayed(base, all) \in [Key -> Nat] /\ Replayed(mid, suf) \in [Key -> Nat]
  BY <1>1, <1>3, ReplayedType
<1>7. Replayed(base, all) = Replayed(mid, suf)
  BY <1>5, <1>6
<1> QED BY <1>7 DEF all, pre, suf, mid

-----------------------------------------------------------------------------
(* The invariant *)

(***************************************************************************)
(* Committed depends on no more than this.                                 *)
(***************************************************************************)
content == <<Base.db, Base.applied, retired.recs, Durable>>

(***************************************************************************)
(* A step that changes neither generation in force, nor the retired log,   *)
(* nor the fsynced prefix changes nothing durable.                         *)
(***************************************************************************)
LEMMA SameContent ==
  ASSUME content' = content
  PROVE  Committed' = Committed
<1>1. Fold(Base, retired.recs)' = Fold(Base, retired.recs)
  BY DEF content, Fold, Replayed
<1> QED BY <1>1 DEF content, Committed

(***************************************************************************)
(* An empty log changes nothing.                                           *)
(***************************************************************************)
LEMMA NoRecords ==
  /\ <<>> \in Seq(Record) /\ Increasing(<<>>)
  /\ \A base \in Generation :
        /\ Replayed(base, <<>>) = base.db
        /\ base.there => Fold(base, <<>>) = base
<1>1. <<>> \in Seq(Record) /\ DOMAIN <<>> = {}
  OBVIOUS
<1>2. Increasing(<<>>)
  BY <1>1 DEF Increasing
<1> QED BY <1>1, <1>2, ReplayedFolded, FoldFolded

(***************************************************************************)
(* The generation in force, empty before the first boot has created one.   *)
(***************************************************************************)
LEMMA BaseType ==
  ASSUME StorageInv
  PROVE  /\ Base \in Generation /\ Base.applied \in Nat
         /\ \A k \in Key : Base.db[k] <= Base.applied
         /\ current # -1 => Base = gens[current] /\ Base.there
<1>1. CASE current = -1
  BY <1>1 DEF Base, NoGeneration, Generation
<1>2. CASE current # -1
  BY <1>2, StorageAssumption DEF StorageInv, TypeOK, FilesShape, Base,
     Generation
<1> QED BY <1>1, <1>2

(***************************************************************************)
(* The fsynced prefix is a log.                                            *)
(***************************************************************************)
LEMMA DurableType ==
  ASSUME TypeOK
  PROVE  /\ Durable \in Seq(Record) /\ Len(Durable) = synced
         /\ \A i \in 1 .. synced : Durable[i] = wal.recs[i]
<1>1. wal.recs \in Seq(Record) /\ synced \in 0 .. Len(wal.recs)
  BY DEF TypeOK, LogFile
<1> QED BY <1>1 DEF Durable

(***************************************************************************)
(* What is durable of a key is a TxID.                                     *)
(***************************************************************************)
LEMMA CommittedType ==
  ASSUME StorageInv
  PROVE  Committed \in [Key -> Nat]
<1>1. retired.recs \in Seq(Record) /\ Increasing(retired.recs)
  BY DEF StorageInv, TypeOK, LogFile, LogOrdered
<1>2. Fold(Base, retired.recs) \in Generation
  BY <1>1, BaseType, FoldType
<1> QED BY <1>2, DurableType, ReplayedType DEF Committed, StorageInv

(***************************************************************************)
(* A step that acknowledges nothing and changes nothing durable keeps      *)
(* AckedSurvive.                                                           *)
(***************************************************************************)
LEMMA AckedKept ==
  ASSUME StorageInv, acked' = acked, Committed' = Committed
  PROVE  AckedSurvive'
BY DEF StorageInv, AckedSurvive

(***************************************************************************)
(* TxIDs and keys of the records of both logs.                             *)
(***************************************************************************)
LEMMA RecordTypes ==
  ASSUME TypeOK
  PROVE  /\ wal.recs \in Seq(Record) /\ retired.recs \in Seq(Record)
         /\ \A i \in DOMAIN wal.recs :
               wal.recs[i] \in Record /\ wal.recs[i].tx \in Nat
         /\ \A i \in DOMAIN retired.recs :
               retired.recs[i] \in Record /\ retired.recs[i].tx \in Nat
<1>1. wal.recs \in Seq(Record) /\ retired.recs \in Seq(Record)
  BY DEF TypeOK, LogFile
<1>2. /\ \A i \in DOMAIN wal.recs : wal.recs[i] \in Record
      /\ \A i \in DOMAIN retired.recs : retired.recs[i] \in Record
  BY <1>1
<1> QED BY <1>1, <1>2 DEF Record

(***************************************************************************)
(* The retired log folded over the current generation is a generation, all *)
(* of the log lies above it, and where the retired log is in the base      *)
(* already it is the base.                                                 *)
(***************************************************************************)
Folded == Fold(Base, retired.recs)

(***************************************************************************)
(* The retired log folded over the generation in force.                    *)
(***************************************************************************)
LEMMA FoldedFacts ==
  ASSUME StorageInv
  PROVE  /\ Folded \in Generation /\ Folded.applied \in Nat
         /\ \A k \in Key : Folded.db[k] <= Folded.applied
         /\ \A j \in DOMAIN wal.recs : Folded.applied < wal.recs[j].tx
         /\ current # -1 /\ FoldedIn => Folded = Base
<1>1. Base \in Generation /\ Base.applied \in Nat
  BY BaseType
<1>2. Increasing(retired.recs) /\ retired.recs \in Seq(Record)
  BY RecordTypes DEF StorageInv, LogOrdered
<1>3. Folded \in Generation /\ \A k \in Key : Folded.db[k] <= Folded.applied
  BY <1>1, <1>2, BaseType, FoldType, FoldBounded DEF Folded
<1>4. Folded.applied = Highest(Base.applied, retired.recs)
  BY DEF Folded, Fold
<1>5. \A j \in DOMAIN wal.recs : Folded.applied < wal.recs[j].tx
  BY <1>1, <1>2, <1>4, HighestBounds DEF StorageInv, LogOrdered
<1>6. current # -1 /\ FoldedIn => Folded = Base
  BY <1>1, <1>2, BaseType, FoldFolded DEF Folded, FoldedIn
<1> QED BY <1>3, <1>5, <1>6 DEF Generation

(***************************************************************************)
(* A prefix of an increasing log is increasing.                            *)
(***************************************************************************)
LEMMA IncreasingPrefix ==
  ASSUME NEW recs \in Seq(Record), Increasing(recs), NEW n \in 0 .. Len(recs)
  PROVE  Increasing(SubSeq(recs, 1, n)) /\ SubSeq(recs, 1, n) \in Seq(Record)
<1>1. /\ SubSeq(recs, 1, n) \in Seq(Record)
      /\ DOMAIN SubSeq(recs, 1, n) = 1 .. n
      /\ \A i \in 1 .. n : SubSeq(recs, 1, n)[i] = recs[i] /\ i \in DOMAIN recs
  OBVIOUS
<1>2. DOMAIN recs = 1 .. Len(recs)
  OBVIOUS
<1>3. ASSUME NEW i \in 1 .. n, NEW j \in 1 .. n, i < j
      PROVE  SubSeq(recs, 1, n)[i].tx < SubSeq(recs, 1, n)[j].tx
  BY <1>1, <1>3 DEF Increasing
<1> QED BY <1>1, <1>3 DEF Increasing

(***************************************************************************)
(* The more of the log is durable, the later the record governing a key.   *)
(***************************************************************************)
Rebuilt(n) == Replayed(Folded, SubSeq(wal.recs, 1, n))

(***************************************************************************)
(* A longer prefix of the log rebuilds, for each key, the same or a later  *)
(* record.                                                                 *)
(***************************************************************************)
LEMMA RebuiltGrows ==
  ASSUME StorageInv, NEW n \in synced .. Len(wal.recs), NEW k \in Key
  PROVE  Committed[k] <= Rebuilt(n)[k] /\ Rebuilt(n)[k] \in Nat
<1> DEFINE recs == SubSeq(wal.recs, 1, n)
<1>1. /\ wal.recs \in Seq(Record) /\ Increasing(wal.recs)
      /\ synced \in 0 .. n /\ n \in 0 .. Len(wal.recs)
  BY RecordTypes DEF StorageInv, TypeOK, LogOrdered
<1>2. recs \in Seq(Record) /\ Increasing(recs) /\ Len(recs) = n
  BY <1>1, IncreasingPrefix
<1>3. SubSeq(recs, 1, synced) = Durable
  BY <1>1 DEF Durable
<1>4. Replayed(Folded, SubSeq(recs, 1, synced))[k] <= Replayed(Folded, recs)[k]
  <2> HIDE DEF recs
  <2> QED BY <1>1, <1>2, FoldedFacts, ReplayedPrefix
<1>5. Replayed(Folded, recs) \in [Key -> Nat]
  <2> HIDE DEF recs
  <2> QED BY <1>2, FoldedFacts, ReplayedType
<1> QED BY <1>3, <1>4, <1>5 DEF Committed, Folded, Rebuilt

(***************************************************************************)
(* So does a step after which every key is governed by the same or a later *)
(* record.                                                                 *)
(***************************************************************************)
LEMMA AckedGrows ==
  ASSUME StorageInv, acked' = acked,
         \A k \in Key : Committed'[k] \in Nat /\ Committed[k] <= Committed'[k]
  PROVE  AckedSurvive'
<1>1. \A r \in acked : r.tx \in Nat /\ r.keys \subseteq Key
  BY DEF StorageInv, TypeOK, Record
<1>2. \A k \in Key : Committed[k] \in Nat
  BY CommittedType
<1> QED BY <1>1, <1>2 DEF StorageInv, AckedSurvive

(***************************************************************************)
(* An append that errs takes TxIDs and leaves the log as it is.            *)
(***************************************************************************)
LEMMA AppendFailsKeeps ==
  ASSUME StorageInv, Survivable, NEW n \in 1 .. MaxBatch, AppendFails(n)
  PROVE  StorageInv'
<1>1. content' = content
  BY StorageAssumption DEF AppendFails, content, Durable, Base, Survivable,
     StorageInv
<1>2. AckedSurvive'
  BY <1>1, SameContent, AckedKept DEF AppendFails
<1>3. TypeOK'
  BY StorageAssumption DEF AppendFails, disk, Survivable, StorageInv, TypeOK,
     LogFile
<1>4. FilesShape'
  BY StorageAssumption DEF AppendFails, Survivable, StorageInv, FilesShape
<1>5. ProcessShape'
  BY StorageAssumption DEF AppendFails, Survivable, StorageInv, ProcessShape
<1>6. TxShape'
  <2>1. /\ nextTx \in Nat /\ nextTx' = nextTx + n /\ nextTx <= nextTx'
        /\ wal'.recs = wal.recs /\ retired' = retired /\ mode' = mode
        /\ Base'.applied = Base.applied
    BY <1>1 DEF AppendFails, StorageInv, TypeOK, LogFile, content
  <2> QED BY <2>1, BaseType, RecordTypes DEF StorageInv, TxShape, AppendFails
<1>7. LogOrdered'
  BY StorageAssumption DEF AppendFails, Survivable, StorageInv, LogOrdered,
     Base
<1>8. RetiredShape'
  BY StorageAssumption DEF AppendFails, Survivable, StorageInv, RetiredShape,
     FoldedIn, Base
<1>9. BatchShape'
  BY StorageAssumption DEF AppendFails, Survivable, StorageInv, BatchShape
<1> QED BY <1>2, <1>3, <1>4, <1>5, <1>6, <1>7, <1>8, <1>9 DEF StorageInv

(***************************************************************************)
(* A failed fsync acknowledges nothing.                                    *)
(***************************************************************************)
LEMMA SyncFailsKeeps ==
  ASSUME StorageInv, Survivable, SyncFails
  PROVE  StorageInv'
<1>1. content' = content
  BY StorageAssumption DEF SyncFails, disk, content, Durable, Base, StorageInv
<1>2. AckedSurvive'
  BY <1>1, SameContent, AckedKept DEF SyncFails
<1>3. TypeOK'
  BY StorageAssumption DEF SyncFails, StorageInv, TypeOK
<1>4. FilesShape'
  BY StorageAssumption DEF SyncFails, disk, StorageInv, FilesShape
<1>5. ProcessShape'
  BY StorageAssumption DEF SyncFails, disk, StorageInv, ProcessShape
<1>6. TxShape'
  BY StorageAssumption DEF SyncFails, disk, StorageInv, TxShape, Base
<1>7. LogOrdered'
  BY StorageAssumption DEF SyncFails, disk, StorageInv, LogOrdered, Base
<1>8. RetiredShape'
  BY StorageAssumption DEF SyncFails, disk, StorageInv, RetiredShape, FoldedIn,
     Base
<1>9. BatchShape'
  BY StorageAssumption DEF SyncFails, StorageInv, BatchShape
<1> QED BY <1>2, <1>3, <1>4, <1>5, <1>6, <1>7, <1>8, <1>9 DEF StorageInv

(***************************************************************************)
(* Readers are pointed at the generation CURRENT names.                    *)
(***************************************************************************)
LEMMA SwapKeeps ==
  ASSUME StorageInv, Survivable, Swap
  PROVE  StorageInv'
<1>1. content' = content
  BY StorageAssumption DEF Swap, disk, content, Durable, Base, StorageInv
<1>2. AckedSurvive'
  BY <1>1, SameContent, AckedKept DEF Swap
<1>3. TypeOK'
  BY StorageAssumption DEF Swap, disk, StorageInv, TypeOK, Steps
<1>4. FilesShape'
  BY StorageAssumption DEF Swap, disk, StorageInv, FilesShape
<1>5. ProcessShape'
  BY StorageAssumption DEF Swap, disk, StorageInv, ProcessShape, TypeOK,
     FilesShape
<1>6. TxShape'
  BY StorageAssumption DEF Swap, disk, StorageInv, TxShape, Base
<1>7. LogOrdered'
  BY StorageAssumption DEF Swap, disk, StorageInv, LogOrdered, Base
<1>8. RetiredShape'
  BY StorageAssumption DEF Swap, disk, StorageInv, RetiredShape, FoldedIn, Base
<1>9. BatchShape'
  BY StorageAssumption DEF Swap, disk, StorageInv, BatchShape
<1> QED BY <1>2, <1>3, <1>4, <1>5, <1>6, <1>7, <1>8, <1>9 DEF StorageInv

(***************************************************************************)
(* SwapTo errs: readers stay where they were.                              *)
(***************************************************************************)
LEMMA SwapFailsKeeps ==
  ASSUME StorageInv, Survivable, SwapFails
  PROVE  StorageInv'
<1>1. content' = content
  BY StorageAssumption DEF SwapFails, disk, content, Durable, Base, StorageInv
<1>2. AckedSurvive'
  BY <1>1, SameContent, AckedKept DEF SwapFails
<1>3. TypeOK'
  BY StorageAssumption DEF SwapFails, disk, StorageInv, TypeOK, Steps
<1>4. FilesShape'
  BY StorageAssumption DEF SwapFails, disk, StorageInv, FilesShape
<1>5. ProcessShape'
  BY StorageAssumption DEF SwapFails, disk, StorageInv, ProcessShape
<1>6. TxShape'
  BY StorageAssumption DEF SwapFails, disk, StorageInv, TxShape, Base
<1>7. LogOrdered'
  BY StorageAssumption DEF SwapFails, disk, StorageInv, LogOrdered, Base
<1>8. RetiredShape'
  BY StorageAssumption DEF SwapFails, disk, StorageInv, RetiredShape, FoldedIn,
     Base
<1>9. BatchShape'
  BY StorageAssumption DEF SwapFails, disk, StorageInv, BatchShape
<1> QED BY <1>2, <1>3, <1>4, <1>5, <1>6, <1>7, <1>8, <1>9 DEF StorageInv

(***************************************************************************)
(* The fresh log is empty: there is nothing of it to lose.                 *)
(***************************************************************************)
LEMMA RotateOpenKeeps ==
  ASSUME StorageInv, Survivable, RotateOpen
  PROVE  StorageInv'
<1>1. content' = content
  BY StorageAssumption DEF RotateOpen, content, Durable, Base, EmptyLog,
     StorageInv, ProcessShape
<1>2. AckedSurvive'
  BY <1>1, SameContent, AckedKept DEF RotateOpen
<1>3. TypeOK'
  BY StorageAssumption DEF RotateOpen, EmptyLog, StorageInv, TypeOK, Modes,
     LogFile, ProcessShape
<1>4. FilesShape'
  BY StorageAssumption DEF RotateOpen, EmptyLog, StorageInv, FilesShape
<1>5. ProcessShape'
  BY StorageAssumption DEF RotateOpen, EmptyLog, StorageInv, ProcessShape
<1>6. TxShape'
  BY StorageAssumption DEF RotateOpen, EmptyLog, StorageInv, TxShape, Base
<1>7. LogOrdered'
  BY StorageAssumption DEF RotateOpen, EmptyLog, StorageInv, LogOrdered,
     ProcessShape
<1>8. RetiredShape'
  BY StorageAssumption DEF RotateOpen, StorageInv, RetiredShape
<1>9. BatchShape'
  BY StorageAssumption DEF RotateOpen, StorageInv, BatchShape, ProcessShape
<1> QED BY <1>2, <1>3, <1>4, <1>5, <1>6, <1>7, <1>8, <1>9 DEF StorageInv

(***************************************************************************)
(* A boot begins.                                                          *)
(***************************************************************************)
LEMMA BootKeeps ==
  ASSUME StorageInv, Survivable, Boot
  PROVE  StorageInv'
<1>1. content' = content
  BY StorageAssumption DEF Boot, disk, content, Durable, Base, StorageInv
<1>2. AckedSurvive'
  BY <1>1, SameContent, AckedKept DEF Boot
<1>3. TypeOK'
  BY StorageAssumption DEF Boot, disk, StorageInv, TypeOK, Modes
<1>4. FilesShape'
  BY StorageAssumption DEF Boot, disk, StorageInv, FilesShape
<1>5. ProcessShape'
  BY StorageAssumption DEF Boot, StorageInv, ProcessShape
<1>6. TxShape'
  BY StorageAssumption DEF Boot, StorageInv, TxShape
<1>7. LogOrdered'
  BY StorageAssumption DEF Boot, disk, StorageInv, LogOrdered, Base
<1>8. RetiredShape'
  BY StorageAssumption DEF Boot, disk, StorageInv, RetiredShape, TypeOK,
     ProcessShape, FoldedIn, Base
<1>9. BatchShape'
  BY StorageAssumption DEF Boot, disk, StorageInv, BatchShape
<1> QED BY <1>2, <1>3, <1>4, <1>5, <1>6, <1>7, <1>8, <1>9 DEF StorageInv

(***************************************************************************)
(* The empty generation 0 is created, or found.                            *)
(***************************************************************************)
LEMMA InitDataKeeps ==
  ASSUME StorageInv, Survivable, InitData
  PROVE  StorageInv'
<1>1. content' = content
  BY StorageAssumption DEF InitData, content, Durable, Base, StorageInv,
     FilesShape
<1>2. AckedSurvive'
  BY <1>1, SameContent, AckedKept DEF InitData
<1>3. TypeOK'
  <2>1. EmptyGeneration \in Generation
    BY DEF EmptyGeneration, NoGeneration, Generation
  <2> QED BY <2>1, StorageAssumption DEF InitData, StorageInv, TypeOK, Modes
<1>4. FilesShape'
  <2>1. \A k \in Key : EmptyGeneration.db[k] <= EmptyGeneration.applied
    BY DEF EmptyGeneration, NoGeneration
  <2>2. current = -1 /\ 0 \in 0 .. MaxGen
    BY StorageAssumption DEF InitData, StorageInv, FilesShape
  <2> QED BY <2>1, <2>2 DEF InitData, StorageInv, TypeOK, FilesShape
<1>5. ProcessShape'
  BY StorageAssumption DEF InitData, StorageInv, ProcessShape
<1>6. TxShape'
  BY StorageAssumption DEF InitData, StorageInv, TxShape
<1>7. LogOrdered'
  BY StorageAssumption DEF InitData, StorageInv, LogOrdered, FilesShape
<1>8. RetiredShape'
  BY StorageAssumption DEF InitData, StorageInv, RetiredShape, ProcessShape
<1>9. BatchShape'
  BY StorageAssumption DEF InitData, StorageInv, BatchShape
<1> QED BY <1>2, <1>3, <1>4, <1>5, <1>6, <1>7, <1>8, <1>9 DEF StorageInv

(***************************************************************************)
(* CURRENT names generation 0, which is empty.                             *)
(***************************************************************************)
LEMMA InitCurrentKeeps ==
  ASSUME StorageInv, Survivable, InitCurrent
  PROVE  StorageInv'
<1>1. content' = content
  <2>1. current = -1 /\ gens[0] = EmptyGeneration
    BY DEF InitCurrent, StorageInv, FilesShape
  <2>2. Base = NoGeneration /\ Base' = EmptyGeneration
    BY <2>1 DEF InitCurrent, Base
  <2>3. Base'.db = Base.db /\ Base'.applied = Base.applied
    BY <2>2 DEF EmptyGeneration
  <2> QED BY <2>3 DEF InitCurrent, content, Durable, StorageInv, TypeOK
<1>2. AckedSurvive'
  BY <1>1, SameContent, AckedKept DEF InitCurrent
<1>3. TypeOK'
  <2>1. wal' \in LogFile /\ wal'.recs = wal.recs
    BY DEF InitCurrent, StorageInv, TypeOK, LogFile
  <2>2. current' \in -1 .. MaxGen
    BY StorageAssumption DEF InitCurrent
  <2> QED BY <2>1, <2>2 DEF InitCurrent, StorageInv, TypeOK, Modes
<1>4. FilesShape'
  BY StorageAssumption DEF InitCurrent, EmptyGeneration, NoGeneration, NoLog,
     StorageInv, FilesShape
<1>5. ProcessShape'
  BY StorageAssumption DEF InitCurrent, StorageInv, ProcessShape
<1>6. TxShape'
  BY StorageAssumption DEF InitCurrent, StorageInv, TxShape
<1>7. LogOrdered'
  BY StorageAssumption DEF InitCurrent, StorageInv, LogOrdered, FilesShape
<1>8. RetiredShape'
  BY StorageAssumption DEF InitCurrent, StorageInv, RetiredShape, ProcessShape
<1>9. BatchShape'
  BY StorageAssumption DEF InitCurrent, StorageInv, BatchShape
<1> QED BY <1>2, <1>3, <1>4, <1>5, <1>6, <1>7, <1>8, <1>9 DEF StorageInv

(***************************************************************************)
(* A kill ends the process and leaves the files.                           *)
(***************************************************************************)
LEMMA KillKeeps ==
  ASSUME StorageInv, Survivable, Kill
  PROVE  StorageInv'
<1>1. content' = content
  BY StorageAssumption DEF Kill, disk, content, Durable, Base, StorageInv
<1>2. AckedSurvive'
  BY <1>1, SameContent, AckedKept DEF Kill
<1>3. TypeOK'
  <2>1. mode' \in Modes /\ ck' \in Steps /\ mapped' \in -1 .. MaxGen
    BY StorageAssumption DEF Kill, ProcessEnds, Modes, Steps
  <2> QED BY <2>1 DEF Kill, ProcessEnds, disk, StorageInv, TypeOK
<1>4. FilesShape'
  BY StorageAssumption DEF Kill, disk, StorageInv, FilesShape, MayCrash,
     ProcessEnds
<1>5. ProcessShape'
  BY StorageAssumption DEF Kill, StorageInv, ProcessShape, ProcessEnds
<1>6. TxShape'
  BY DEF Kill, ProcessEnds, TxShape
<1>7. LogOrdered'
  BY StorageAssumption DEF Kill, disk, StorageInv, LogOrdered, Base
<1>8. RetiredShape'
  BY StorageAssumption DEF Kill, StorageInv, RetiredShape, ProcessEnds
<1>9. BatchShape'
  BY StorageAssumption DEF Kill, StorageInv, BatchShape, ProcessEnds
<1> QED BY <1>2, <1>3, <1>4, <1>5, <1>6, <1>7, <1>8, <1>9 DEF StorageInv

(***************************************************************************)
(* Generations below the one in force are removed.                         *)
(***************************************************************************)
LEMMA CleanupKeeps ==
  ASSUME StorageInv, Survivable, Cleanup
  PROVE  StorageInv'
<1>1. content' = content
  BY StorageAssumption DEF Cleanup, content, Durable, Base, Without,
     StorageInv, TypeOK
<1>2. AckedSurvive'
  BY <1>1, SameContent, AckedKept DEF Cleanup
<1>3. TypeOK'
  BY StorageAssumption DEF Cleanup, Without, NoGeneration, StorageInv, TypeOK,
     Steps, Generation
<1>4. FilesShape'
  BY StorageAssumption DEF Cleanup, Without, NoGeneration, StorageInv,
     FilesShape, TypeOK
<1>5. ProcessShape'
  BY StorageAssumption DEF Cleanup, Without, StorageInv, ProcessShape
<1>6. TxShape'
  BY StorageAssumption DEF Cleanup, Without, StorageInv, TxShape, TypeOK, Base
<1>7. LogOrdered'
  BY StorageAssumption DEF Cleanup, Without, StorageInv, LogOrdered, TypeOK,
     Base
<1>8. RetiredShape'
  BY StorageAssumption DEF Cleanup, Without, StorageInv, RetiredShape, TypeOK,
     FoldedIn, Base
<1>9. BatchShape'
  BY StorageAssumption DEF Cleanup, StorageInv, BatchShape
<1> QED BY <1>2, <1>3, <1>4, <1>5, <1>6, <1>7, <1>8, <1>9 DEF StorageInv

(***************************************************************************)
(* Generations above the one in force are removed.                         *)
(***************************************************************************)
LEMMA PurgeKeeps ==
  ASSUME StorageInv, Survivable, Purge
  PROVE  StorageInv'
<1>1. content' = content
  BY StorageAssumption DEF Purge, content, Base, Without, StorageInv, TypeOK
<1>2. AckedSurvive'
  BY <1>1, SameContent, AckedKept DEF Purge
<1>3. TypeOK'
  BY StorageAssumption DEF Purge, Without, NoGeneration, StorageInv, TypeOK,
     Modes, Generation
<1>4. FilesShape'
  BY StorageAssumption DEF Purge, Without, NoGeneration, StorageInv,
     FilesShape, TypeOK
<1>5. ProcessShape'
  BY StorageAssumption DEF Purge, StorageInv, ProcessShape
<1>6. TxShape'
  BY StorageAssumption DEF Purge, StorageInv, TxShape
<1>7. LogOrdered'
  BY StorageAssumption DEF Purge, Without, StorageInv, LogOrdered, TypeOK, Base
<1>8. RetiredShape'
  BY StorageAssumption DEF Purge, StorageInv, RetiredShape, ProcessShape
<1>9. BatchShape'
  BY StorageAssumption DEF Purge, StorageInv, BatchShape
<1> QED BY <1>2, <1>3, <1>4, <1>5, <1>6, <1>7, <1>8, <1>9 DEF StorageInv

(***************************************************************************)
(* The log is cut to what can be read, and the sequencer resumes past it.  *)
(***************************************************************************)
LEMMA ReplayKeeps ==
  ASSUME StorageInv, Survivable, Replay
  PROVE  StorageInv'
<1>1. content' = content
  BY StorageAssumption DEF Replay, content, Durable, Base, StorageInv, TypeOK
<1>2. AckedSurvive'
  BY <1>1, SameContent, AckedKept DEF Replay
<1>3. TypeOK'
  <2>1. gens[current] \in Generation /\ gens[current].applied \in Nat
    BY StorageAssumption DEF Replay, StorageInv, TypeOK, FilesShape, Generation
  <2>2. nextTx' \in Nat
    BY <2>1, RecordTypes, HighestBounds DEF Replay, StorageInv, LogOrdered
  <2>3. wal' \in LogFile /\ wal'.recs = wal.recs
    BY DEF Replay, StorageInv, TypeOK, LogFile
  <2> QED BY <2>2, <2>3 DEF Replay, StorageInv, TypeOK, Modes
<1>4. FilesShape'
  BY StorageAssumption DEF Replay, StorageInv, FilesShape
<1>5. ProcessShape'
  BY StorageAssumption DEF Replay, StorageInv, ProcessShape, TypeOK, FilesShape
<1>6. TxShape'
  <2>1. current # -1 /\ Base = gens[current] /\ Base.applied \in Nat
    BY BaseType DEF Replay, StorageInv, FilesShape
  <2>2. nextTx' = Highest(Base.applied, wal.recs)
    BY <2>1 DEF Replay
  <2>3. retired.recs = <<>>
    BY DEF Replay, StorageInv, ProcessShape, FilesShape
  <2>4. /\ Base.applied <= nextTx'
        /\ \A i \in DOMAIN wal.recs : wal.recs[i].tx <= nextTx'
    BY <2>1, <2>2, RecordTypes, HighestBounds DEF StorageInv, LogOrdered
  <2>5. Base'.applied = Base.applied /\ wal'.recs = wal.recs /\ retired'.recs = <<>>
    BY <1>1, <2>3 DEF content, Replay, StorageInv
  <2> QED BY <2>4, <2>5 DEF TxShape
<1>7. LogOrdered'
  BY StorageAssumption DEF Replay, StorageInv, LogOrdered, Base
<1>8. RetiredShape'
  BY StorageAssumption DEF Replay, StorageInv, RetiredShape, ProcessShape,
     FilesShape, FoldedIn
<1>9. BatchShape'
  BY StorageAssumption DEF Replay, StorageInv, BatchShape
<1> QED BY <1>2, <1>3, <1>4, <1>5, <1>6, <1>7, <1>8, <1>9 DEF StorageInv

(***************************************************************************)
(* Recovery publishes the generation CURRENT will name.                    *)
(***************************************************************************)
LEMMA FoldKeeps ==
  ASSUME StorageInv, Survivable, FoldRetired
  PROVE  StorageInv'
<1> DEFINE next == Fold(gens[current], retired.recs)
<1>0. /\ current # -1 /\ next \in Generation
      /\ \A k \in Key : next.db[k] <= next.applied
  <2>1. current # -1
    BY DEF FoldRetired, StorageInv, FilesShape
  <2>2. Base = gens[current]
    BY <2>1, BaseType
  <2> QED BY <2>1, <2>2, BaseType, RecordTypes, FoldType, FoldBounded DEF
     StorageInv, LogOrdered
<1> HIDE DEF next
<1>1. content' = content
  BY StorageAssumption DEF FoldRetired, content, Durable, Base, PublishNext,
     StorageInv, TypeOK
<1>2. AckedSurvive'
  BY <1>1, SameContent, AckedKept DEF FoldRetired
<1>3. TypeOK'
  <2>1. next \in Generation /\ current + 1 \in 0 .. MaxGen
    BY <1>0, StorageAssumption DEF FoldRetired, PublishNext, StorageInv, TypeOK
  <2>2. gens' \in [0 .. MaxGen -> Generation]
    BY <2>1 DEF next, FoldRetired, PublishNext, StorageInv, TypeOK
  <2> QED BY <2>2 DEF FoldRetired, PublishNext, StorageInv, TypeOK, Modes
<1>4. FilesShape'
  <2>1. gens' = [gens EXCEPT ![current + 1] = next] /\ gens \in [0 .. MaxGen -> Generation]
    BY DEF next, FoldRetired, PublishNext, StorageInv, TypeOK
  <2>2. current # current + 1
    BY DEF StorageInv, TypeOK
  <2> QED BY <1>0, <2>1, <2>2 DEF FoldRetired, PublishNext, StorageInv, TypeOK,
     FilesShape
<1>5. ProcessShape'
  BY StorageAssumption DEF FoldRetired, PublishNext, StorageInv, ProcessShape
<1>6. TxShape'
  BY StorageAssumption DEF FoldRetired, StorageInv, TxShape
<1>7. LogOrdered'
  BY StorageAssumption DEF FoldRetired, PublishNext, StorageInv, LogOrdered,
     TypeOK, Base
<1>8. RetiredShape'
  BY StorageAssumption DEF next, FoldRetired, PublishNext, StorageInv,
     RetiredShape, TypeOK, ProcessShape, FilesShape, FoldedIn, Base
<1>9. BatchShape'
  BY StorageAssumption DEF FoldRetired, PublishNext, StorageInv, BatchShape
<1> QED BY <1>2, <1>3, <1>4, <1>5, <1>6, <1>7, <1>8, <1>9 DEF StorageInv

(***************************************************************************)
(* So does a checkpoint, with writers going on.                            *)
(***************************************************************************)
LEMMA PublishKeeps ==
  ASSUME StorageInv, Survivable, Publish
  PROVE  StorageInv'
<1> DEFINE next == Fold(gens[current], retired.recs)
<1>0. /\ current # -1 /\ next \in Generation
      /\ \A k \in Key : next.db[k] <= next.applied
  <2>1. current # -1
    BY DEF Publish, StorageInv, FilesShape
  <2>2. Base = gens[current]
    BY <2>1, BaseType
  <2> QED BY <2>1, <2>2, BaseType, RecordTypes, FoldType, FoldBounded DEF
     StorageInv, LogOrdered
<1> HIDE DEF next
<1>1. content' = content
  BY StorageAssumption DEF Publish, content, Durable, Base, PublishNext,
     StorageInv, TypeOK
<1>2. AckedSurvive'
  BY <1>1, SameContent, AckedKept DEF Publish
<1>3. TypeOK'
  <2>1. next \in Generation
    BY <1>0
  <2>2. current + 1 \in 0 .. MaxGen
    BY StorageAssumption DEF Publish, StorageInv, TypeOK, ProcessShape
  <2>3. gens' \in [0 .. MaxGen -> Generation]
    BY <2>1, <2>2 DEF next, Publish, PublishNext, StorageInv, TypeOK
  <2> QED BY <2>3 DEF Publish, PublishNext, StorageInv, TypeOK, Steps
<1>4. FilesShape'
  <2>1. gens' = [gens EXCEPT ![current + 1] = next] /\ gens \in [0 .. MaxGen -> Generation]
    BY DEF next, Publish, PublishNext, StorageInv, TypeOK
  <2>2. current # current + 1
    BY DEF StorageInv, TypeOK
  <2> QED BY <1>0, <2>1, <2>2 DEF Publish, PublishNext, StorageInv, TypeOK,
     FilesShape
<1>5. ProcessShape'
  BY StorageAssumption DEF Publish, PublishNext, StorageInv, ProcessShape,
     TypeOK
<1>6. TxShape'
  BY StorageAssumption DEF Publish, PublishNext, StorageInv, TxShape, TypeOK,
     Base
<1>7. LogOrdered'
  BY StorageAssumption DEF Publish, PublishNext, StorageInv, LogOrdered,
     TypeOK, Base
<1>8. RetiredShape'
  BY StorageAssumption DEF next, Publish, PublishNext, StorageInv,
     RetiredShape, TypeOK, ProcessShape
<1>9. BatchShape'
  BY StorageAssumption DEF Publish, PublishNext, StorageInv, BatchShape
<1> QED BY <1>2, <1>3, <1>4, <1>5, <1>6, <1>7, <1>8, <1>9 DEF StorageInv

(***************************************************************************)
(* A request of the batch: the record is appended behind the prefix that   *)
(* is durable, with a TxID above all others.                               *)
(***************************************************************************)
LEMMA AppendRecordKeeps ==
  ASSUME StorageInv, Survivable,
         NEW K \in (SUBSET Key) \ {{}}, AppendRecord(K)
  PROVE  StorageInv'
<1> DEFINE r == [tx |-> nextTx + 1, keys |-> K]
<1>1. r \in Record /\ r.tx = nextTx + 1 /\ nextTx \in Nat /\ nextTx' = nextTx + 1
  BY DEF AppendRecord, StorageInv, TypeOK, Record
<1>2. /\ wal' = [wal EXCEPT !.recs = Append(@, r)]
      /\ wal.recs \in Seq(Record) /\ synced \in 0 .. Len(wal.recs)
  BY DEF AppendRecord, Appended, StorageInv, TypeOK, LogFile, ProcessShape
<1>3. /\ wal'.recs = Append(wal.recs, r)
      /\ wal'.there = wal.there /\ wal'.junk = wal.junk
      /\ wal' \in LogFile
  <2> HIDE DEF r
  <2>1. Append(wal.recs, r) \in Seq(Record)
    BY <1>1, <1>2
  <2>2. wal \in LogFile
    BY DEF StorageInv, TypeOK
  <2> QED BY <1>2, <2>1, <2>2 DEF LogFile
<1> HIDE DEF r
<1>4. /\ DOMAIN wal'.recs = 1 .. Len(wal.recs) + 1
      /\ Len(wal'.recs) = Len(wal.recs) + 1
      /\ wal'.recs[Len(wal.recs) + 1] = r
      /\ \A i \in 1 .. Len(wal.recs) : wal'.recs[i] = wal.recs[i]
      /\ DOMAIN wal.recs = 1 .. Len(wal.recs) /\ Len(wal.recs) \in Nat
  BY <1>1, <1>2, <1>3
<1>5. Durable' = Durable
  <2>1. SubSeq(Append(wal.recs, r), 1, synced) = SubSeq(wal.recs, 1, synced)
    BY <1>1, <1>2
  <2> QED BY <1>3, <2>1 DEF AppendRecord, Durable
<1>6. content' = content
  BY <1>5 DEF AppendRecord, content, Base
<1>7. AckedSurvive'
  BY <1>6, SameContent, AckedKept DEF AppendRecord
<1>8. TypeOK'
  <2>1. synced' \in 0 .. Len(wal'.recs)
    BY <1>2, <1>4 DEF AppendRecord
  <2>2. batch' \subseteq Record
    BY <1>1 DEF AppendRecord, StorageInv, TypeOK, r
  <2> QED BY <1>1, <1>3, <2>1, <2>2 DEF AppendRecord, StorageInv, TypeOK
<1>9. FilesShape'
  BY <1>3 DEF AppendRecord, StorageInv, FilesShape, ProcessShape
<1>10. ProcessShape'
  BY <1>3 DEF AppendRecord, StorageInv, ProcessShape
<1>11. TxShape'
  <2>1. Base'.applied = Base.applied /\ retired' = retired /\ mode = "up"
    BY <1>6 DEF AppendRecord, content
  <2>2. Base.applied <= nextTx' /\ Base.applied \in Nat
    BY <1>1, <2>1, BaseType DEF StorageInv, TxShape
  <2>3. ASSUME NEW i \in DOMAIN wal'.recs PROVE wal'.recs[i].tx <= nextTx'
    <3>1. CASE i = Len(wal.recs) + 1
      BY <1>1, <1>4, <3>1
    <3>2. CASE i \in DOMAIN wal.recs
      <4>1. wal.recs[i].tx \in Nat /\ wal.recs[i].tx <= nextTx
        BY <2>1, <3>2, RecordTypes DEF StorageInv, TxShape
      <4> QED BY <1>1, <1>4, <3>2, <4>1
    <3> QED BY <1>4, <3>1, <3>2
  <2>4. ASSUME NEW i \in DOMAIN retired.recs PROVE retired.recs[i].tx <= nextTx'
    BY <1>1, <2>1, RecordTypes DEF StorageInv, TxShape
  <2> QED BY <2>1, <2>2, <2>3, <2>4 DEF TxShape
<1>12. LogOrdered'
  <2>1. Base'.applied = Base.applied /\ retired' = retired
    BY <1>6 DEF AppendRecord, content
  <2>2. Base.applied < r.tx /\ \A i \in DOMAIN retired.recs : retired.recs[i].tx < r.tx
    BY <1>1, BaseType, RecordTypes DEF AppendRecord, StorageInv, TxShape
  <2>3. \A i \in DOMAIN wal.recs : wal.recs[i].tx < r.tx
    BY <1>1, RecordTypes DEF AppendRecord, StorageInv, TxShape
  <2>4. Increasing(wal'.recs)
    <3>1. Increasing(wal.recs)
      BY DEF StorageInv, LogOrdered
    <3>2. SUFFICES ASSUME NEW i \in DOMAIN wal'.recs,
                          NEW j \in DOMAIN wal'.recs, i < j
                   PROVE  wal'.recs[i].tx < wal'.recs[j].tx
      BY DEF Increasing
    <3>3. i \in DOMAIN wal.recs
      BY <1>4, <3>2
    <3>4. CASE j = Len(wal.recs) + 1
      BY <1>4, <2>3, <3>3, <3>4
    <3>5. CASE j \in DOMAIN wal.recs
      BY <1>4, <3>1, <3>2, <3>3, <3>5 DEF Increasing
    <3> QED BY <1>4, <3>4, <3>5
  <2> QED BY <1>4, <2>1, <2>2, <2>4 DEF StorageInv, LogOrdered
<1>13. RetiredShape'
  BY DEF AppendRecord, StorageInv, RetiredShape, FoldedIn, Base
<1>14. BatchShape'
  BY <1>2, <1>4, SMTT(30) DEF AppendRecord, StorageInv, BatchShape, r
<1> QED BY <1>7, <1>8, <1>9, <1>10, <1>11, <1>12, <1>13, <1>14 DEF StorageInv

(***************************************************************************)
(* An fsync makes all of the log durable.                                  *)
(***************************************************************************)
LEMMA SyncCommits ==
  ASSUME StorageInv, synced' = Len(wal.recs),
         UNCHANGED <<current, gens, wal, retired>>
  PROVE  Committed' = Rebuilt(Len(wal.recs))
BY DEF Committed, Folded, Rebuilt, Durable, Base

(***************************************************************************)
(* The fsync of a batch: what it makes durable covers every key of every   *)
(* record it acknowledges.                                                 *)
(***************************************************************************)
LEMMA SyncBatchKeeps ==
  ASSUME StorageInv, Survivable, SyncBatch
  PROVE  StorageInv'
<1>1. /\ wal.recs \in Seq(Record) /\ Len(wal.recs) \in synced .. Len(wal.recs)
      /\ SubSeq(wal.recs, 1, Len(wal.recs)) = wal.recs /\ Increasing(wal.recs)
  BY RecordTypes DEF StorageInv, TypeOK, LogOrdered
<1>2. Committed' = Replayed(Folded, wal.recs) /\ Committed' = Rebuilt(Len(wal.recs))
  BY <1>1, SyncCommits DEF SyncBatch, disk, Rebuilt
<1>3. ASSUME NEW r \in acked, NEW k \in r.keys PROVE Committed'[k] >= r.tx
  <2>1. k \in Key /\ r.tx \in Nat /\ Committed[k] >= r.tx
    BY DEF StorageInv, TypeOK, Record, AckedSurvive
  <2>2. Committed[k] <= Committed'[k] /\ Committed'[k] \in Nat /\ Committed[k] \in Nat
    BY <1>1, <1>2, <2>1, RebuiltGrows, CommittedType
  <2> QED BY <2>1, <2>2
<1>4. ASSUME NEW r \in batch, NEW k \in r.keys PROVE Committed'[k] >= r.tx
  <2>1. PICK i \in DOMAIN wal.recs : wal.recs[i] = r
    BY <1>1 DEF StorageInv, TypeOK, BatchShape
  <2>2. k \in Key /\ Folded.applied < r.tx /\ Folded \in Generation /\ r.tx \in Nat
    BY <2>1, FoldedFacts DEF StorageInv, TypeOK, Record
  <2>3. r.tx <= Replayed(Folded, wal.recs)[k]
    BY <1>1, <2>1, <2>2, ReplayedCovers
  <2>4. Replayed(Folded, wal.recs)[k] \in Nat
    BY <1>1, <2>2, ReplayedType
  <2> QED BY <1>2, <2>2, <2>3, <2>4
<1>5. AckedSurvive'
  BY <1>3, <1>4 DEF SyncBatch, AckedSurvive
<1>6. TypeOK'
  BY <1>1 DEF SyncBatch, StorageInv, TypeOK
<1>7. FilesShape' /\ ProcessShape' /\ TxShape' /\ LogOrdered'
  BY DEF SyncBatch, StorageInv, FilesShape, ProcessShape, TxShape, LogOrdered,
     Base
<1>8. RetiredShape' /\ BatchShape'
  BY DEF SyncBatch, StorageInv, RetiredShape, BatchShape, FoldedIn, Base
<1> QED BY <1>5, <1>6, <1>7, <1>8 DEF StorageInv

(***************************************************************************)
(* A rotation makes all of the log durable, and the retired log: what it   *)
(* overwrites is in the generation CURRENT names.                          *)
(***************************************************************************)
LEMMA RotationCommits ==
  ASSUME StorageInv, RotateRename
  PROVE  Committed' = Rebuilt(Len(wal.recs))
<1>1. /\ current # -1 /\ FoldedIn /\ Base' = Base
      /\ retired' = wal /\ wal' = NoLog /\ synced' = 0
  BY DEF RotateRename, StorageInv, FilesShape, RetiredShape, Base
<1>2. wal.recs \in Seq(Record) /\ Increasing(wal.recs)
  BY RecordTypes DEF StorageInv, LogOrdered
<1>3. Folded = Base /\ Base \in Generation
  BY <1>1, BaseType, FoldedFacts
<1>4. Committed' = Replayed(Base, wal.recs)
  <2>1. Durable' = <<>>
    BY <1>1 DEF Durable
  <2>2. /\ Fold(Base, wal.recs) \in Generation
        /\ Fold(Base, wal.recs).db = Replayed(Base, wal.recs)
    BY <1>2, <1>3, FoldType DEF Fold
  <2>3. Replayed(Fold(Base, wal.recs), <<>>) = Fold(Base, wal.recs).db
    BY <2>2, NoRecords
  <2> QED BY <1>1, <2>1, <2>2, <2>3 DEF Committed
<1>5. SubSeq(wal.recs, 1, Len(wal.recs)) = wal.recs
  BY <1>2
<1> QED BY <1>3, <1>4, <1>5 DEF Rebuilt

(***************************************************************************)
(* The step of the rotation that may be the last before a crash.           *)
(***************************************************************************)
LEMMA RotateRenameKeeps ==
  ASSUME StorageInv, Survivable, RotateRename
  PROVE  StorageInv'
<1>1. /\ current # -1 /\ FoldedIn /\ Base' = Base
      /\ retired' = wal /\ wal' = NoLog /\ synced' = 0
  BY DEF RotateRename, StorageInv, FilesShape, RetiredShape, Base
<1>2. /\ wal.recs \in Seq(Record) /\ Increasing(wal.recs)
      /\ synced \in 0 .. Len(wal.recs) /\ wal \in LogFile
  BY RecordTypes DEF StorageInv, TypeOK, LogOrdered
<1>6. AckedSurvive'
  <2>1. Len(wal.recs) \in synced .. Len(wal.recs)
    BY <1>2
  <2> QED BY <2>1, RotationCommits, RebuiltGrows, AckedGrows DEF RotateRename
<1>7. TypeOK'
  <2>1. wal' \in LogFile /\ synced' \in 0 .. Len(wal'.recs)
    BY <1>1, NoRecords DEF NoLog, LogFile
  <2> QED BY <1>1, <1>2, <2>1 DEF RotateRename, StorageInv, TypeOK, Steps
<1>8. FilesShape'
  BY <1>1 DEF RotateRename, NoLog, StorageInv, FilesShape, ProcessShape
<1>9. ProcessShape'
  BY <1>1, StorageAssumption DEF RotateRename, NoLog, StorageInv, ProcessShape,
     TypeOK
<1>10. TxShape'
  BY <1>1 DEF RotateRename, NoLog, StorageInv, TxShape
<1>11. LogOrdered'
  BY <1>1, <1>2 DEF NoLog, LogOrdered, Increasing
<1>12. RetiredShape'
  BY <1>1 DEF RotateRename, StorageInv, RetiredShape, LogOrdered
<1>13. BatchShape'
  BY DEF RotateRename, BatchShape
<1> QED BY <1>6, <1>7, <1>8, <1>9, <1>10, <1>11, <1>12, <1>13 DEF StorageInv

(***************************************************************************)
(* A rename that errs leaves a log that was fsynced.                       *)
(***************************************************************************)
LEMMA RotateRenameFailsKeeps ==
  ASSUME StorageInv, Survivable, RotateRenameFails
  PROVE  StorageInv'
<1>1. /\ wal.recs \in Seq(Record) /\ Len(wal.recs) \in synced .. Len(wal.recs)
      /\ SubSeq(wal.recs, 1, Len(wal.recs)) = wal.recs
  BY RecordTypes DEF StorageInv, TypeOK
<1>2. Committed' = Rebuilt(Len(wal.recs))
  BY SyncCommits DEF RotateRenameFails
<1>3. AckedSurvive'
  BY <1>1, <1>2, RebuiltGrows, AckedGrows DEF RotateRenameFails
<1>4. TypeOK'
  <2>1. synced' \in 0 .. Len(wal'.recs)
    BY <1>1 DEF RotateRenameFails
  <2> QED BY <2>1 DEF RotateRenameFails, StorageInv, TypeOK
<1>5. FilesShape' /\ ProcessShape' /\ TxShape' /\ LogOrdered'
  BY DEF RotateRenameFails, StorageInv, FilesShape, ProcessShape, TxShape,
     LogOrdered, Base
<1>6. RetiredShape' /\ BatchShape'
  BY DEF RotateRenameFails, StorageInv, RetiredShape, BatchShape
<1> QED BY <1>3, <1>4, <1>5, <1>6 DEF StorageInv

(***************************************************************************)
(* The rename undone: what was to be folded is the log again, durable.     *)
(***************************************************************************)
LEMMA UndoneContent ==
  ASSUME StorageInv, RotateOpenFails, wal' = retired, retired' = NoLog,
         synced' = Len(retired.recs)
  PROVE  Committed' = Committed
<1>1. Base' = Base /\ Base \in Generation /\ Base.there
  BY BaseType DEF RotateOpenFails, StorageInv, FilesShape, Base
<1>2. retired.recs \in Seq(Record) /\ wal.recs = <<>>
  BY RecordTypes DEF RotateOpenFails, StorageInv, ProcessShape
<1>3. Committed = Replayed(Base, retired.recs)
  <2>1. Durable = <<>>
    BY <1>2, DurableType DEF StorageInv, TypeOK
  <2>2. Replayed(Folded, <<>>) = Folded.db
    BY FoldedFacts, NoRecords
  <2> QED BY <2>1, <2>2 DEF Committed, Folded, Fold
<1>4. Committed' = Replayed(Base, retired.recs)
  <2>1. Durable' = retired.recs /\ retired'.recs = <<>>
    BY <1>2 DEF Durable, NoLog
  <2>2. Fold(Base, <<>>) = Base
    BY <1>1, NoRecords
  <2> QED BY <1>1, <2>1, <2>2 DEF Committed
<1> QED BY <1>3, <1>4

(***************************************************************************)
(* The old writer is back, or none is.                                     *)
(***************************************************************************)
LEMMA RotateOpenFailsKeeps ==
  ASSUME StorageInv, Survivable, RotateOpenFails
  PROVE  StorageInv'
<1>1. CASE UNCHANGED <<wal, retired, synced, dirent, writerOpen>>
  <2>1. content' = content
    BY <1>1 DEF RotateOpenFails, content, Base, Durable
  <2>2. AckedSurvive'
    BY <2>1, SameContent, AckedKept DEF RotateOpenFails
  <2>3. TypeOK' /\ FilesShape' /\ ProcessShape' /\ TxShape' /\ LogOrdered'
    BY <1>1 DEF RotateOpenFails, StorageInv, TypeOK, Steps, FilesShape,
       ProcessShape, TxShape, LogOrdered, Base
  <2>4. RetiredShape' /\ BatchShape'
    BY <1>1 DEF RotateOpenFails, StorageInv, ProcessShape, RetiredShape,
       BatchShape
  <2> QED BY <2>2, <2>3, <2>4 DEF StorageInv
<1>2. CASE /\ wal' = retired /\ retired' = NoLog
           /\ synced' = Len(retired.recs) /\ dirent' = "synced"
           /\ writerOpen' \in BOOLEAN
  <2>1. /\ current # -1 /\ Base' = Base /\ Base \in Generation /\ Base.there
        /\ Base.applied \in Nat
    BY BaseType DEF RotateOpenFails, StorageInv, FilesShape, Base
  <2>2. /\ retired.recs \in Seq(Record) /\ Increasing(retired.recs)
        /\ retired \in LogFile /\ wal.recs = <<>>
    BY RecordTypes DEF RotateOpenFails, StorageInv, TypeOK, LogOrdered,
       ProcessShape
  <2>5. AckedSurvive'
    BY <1>2, UndoneContent, AckedKept DEF RotateOpenFails
  <2>6. TypeOK'
    <3>1. retired' \in LogFile /\ synced' \in 0 .. Len(wal'.recs)
      BY <1>2, <2>2 DEF NoLog, LogFile
    <3> QED BY <1>2, <2>2, <3>1 DEF RotateOpenFails, StorageInv, TypeOK, Steps
  <2>7. FilesShape'
    BY <1>2 DEF RotateOpenFails, NoLog, StorageInv, FilesShape
  <2>8. ProcessShape'
    BY <1>2 DEF RotateOpenFails, StorageInv, FilesShape, ProcessShape
  <2>9. TxShape'
    BY <1>2, <2>1 DEF RotateOpenFails, NoLog, StorageInv, TxShape
  <2>10. LogOrdered'
    BY <1>2, <2>1, <2>2 DEF RotateOpenFails, NoLog, StorageInv, LogOrdered,
       RetiredShape
  <2>11. RetiredShape' /\ BatchShape'
    BY <1>2 DEF RotateOpenFails, NoLog, StorageInv, ProcessShape, RetiredShape,
       BatchShape, FoldedIn
  <2> QED BY <2>5, <2>6, <2>7, <2>8, <2>9, <2>10, <2>11 DEF StorageInv
<1> QED BY <1>1, <1>2 DEF RotateOpenFails

(***************************************************************************)
(* The switch: the generation that becomes the base is the retired log     *)
(* folded over the old one.                                                *)
(***************************************************************************)
LEMMA SwitchContent ==
  ASSUME StorageInv, current # -1, current' = current + 1, current + 1 <= MaxGen,
         gens[current + 1] = Fold(gens[current], retired.recs),
         UNCHANGED <<gens, wal, retired, synced>>
  PROVE  Committed' = Committed /\ Base' = Folded /\ FoldedIn'
<1>1. Base = gens[current] /\ Base.applied \in Nat
  BY BaseType
<1>2. Base' = Folded
  BY <1>1 DEF Base, Folded, StorageInv, TypeOK
<1>3. Increasing(retired.recs) /\ retired.recs \in Seq(Record)
  BY RecordTypes DEF StorageInv, LogOrdered
<1>4. FoldedIn'
  <2>1. Folded.applied = Highest(Base.applied, retired.recs)
    BY DEF Folded, Fold
  <2> QED BY <1>1, <1>2, <1>3, <2>1, HighestBounds DEF FoldedIn
<1>5. Fold(Folded, retired.recs) = Folded
  <2>1. Folded \in Generation /\ Folded.there
    BY FoldedFacts DEF Folded, Fold
  <2>2. \A i \in DOMAIN retired.recs : retired.recs[i].tx <= Folded.applied
    BY <1>2, <1>4 DEF FoldedIn
  <2> QED BY <1>3, <2>1, <2>2, FoldFolded
<1> QED BY <1>2, <1>4, <1>5 DEF Committed, Durable, Folded

(***************************************************************************)
(* The switch of a checkpoint.                                             *)
(***************************************************************************)
LEMMA SwitchCurrentKeeps ==
  ASSUME StorageInv, Survivable, SwitchCurrent
  PROVE  StorageInv'
<1>1. /\ current # -1 /\ current' = current + 1 /\ current + 1 <= MaxGen
      /\ gens[current + 1] = Fold(gens[current], retired.recs)
      /\ UNCHANGED <<gens, wal, retired, synced>>
  BY StorageAssumption DEF SwitchCurrent, StorageInv, TypeOK, FilesShape,
     ProcessShape, RetiredShape
<1>2. Committed' = Committed /\ Base' = Folded /\ FoldedIn'
  BY <1>1, SwitchContent
<1>3. AckedSurvive'
  BY <1>2, AckedKept DEF SwitchCurrent
<1>4. TypeOK'
  BY <1>1 DEF SwitchCurrent, StorageInv, TypeOK, Steps
<1>5. FilesShape'
  BY <1>1 DEF SwitchCurrent, Fold, StorageInv, TypeOK, FilesShape
<1>6. ProcessShape'
  BY <1>1, StorageAssumption DEF SwitchCurrent, StorageInv, TypeOK,
     ProcessShape
<1>7. TxShape'
  <2>1. Folded.applied = Highest(Base.applied, retired.recs)
    BY DEF Folded, Fold
  <2>2. Base.applied <= Folded.applied /\ Folded.applied \in Nat /\ Base.applied \in Nat
    BY <2>1, BaseType, RecordTypes, HighestBounds DEF StorageInv, LogOrdered
  <2>3. Folded.applied = Base.applied
          \/ \E i \in DOMAIN retired.recs : Folded.applied = retired.recs[i].tx
    BY <2>1, BaseType, RecordTypes, HighestBounds DEF StorageInv, LogOrdered
  <2> QED BY <1>1, <1>2, <2>2, <2>3 DEF SwitchCurrent, StorageInv, TxShape
<1>8. LogOrdered'
  BY <1>1, <1>2, FoldedFacts DEF StorageInv, LogOrdered
<1>9. RetiredShape'
  BY <1>2 DEF SwitchCurrent, StorageInv, RetiredShape
<1>10. BatchShape'
  BY DEF SwitchCurrent, StorageInv, BatchShape
<1> QED BY <1>3, <1>4, <1>5, <1>6, <1>7, <1>8, <1>9, <1>10 DEF StorageInv

(***************************************************************************)
(* The switch of a recovery.                                               *)
(***************************************************************************)
LEMMA SwitchRecoveredKeeps ==
  ASSUME StorageInv, Survivable, SwitchRecovered
  PROVE  StorageInv'
<1>1. /\ current # -1 /\ current' = current + 1 /\ current + 1 <= MaxGen
      /\ gens[current + 1] = Fold(gens[current], retired.recs)
      /\ UNCHANGED <<gens, wal, retired, synced>>
  BY StorageAssumption DEF SwitchRecovered, StorageInv, TypeOK, FilesShape,
     ProcessShape, RetiredShape
<1>2. Committed' = Committed /\ Base' = Folded /\ FoldedIn'
  BY <1>1, SwitchContent
<1>3. AckedSurvive'
  BY <1>2, AckedKept DEF SwitchRecovered
<1>4. TypeOK'
  BY <1>1 DEF SwitchRecovered, StorageInv, TypeOK, Modes
<1>5. FilesShape'
  BY <1>1 DEF SwitchRecovered, Fold, StorageInv, TypeOK, FilesShape
<1>6. ProcessShape'
  BY <1>1, StorageAssumption DEF SwitchRecovered, StorageInv, ProcessShape
<1>7. TxShape'
  <2>1. Folded.applied = Highest(Base.applied, retired.recs)
    BY DEF Folded, Fold
  <2>2. Base.applied <= Folded.applied /\ Folded.applied \in Nat /\ Base.applied \in Nat
    BY <2>1, BaseType, RecordTypes, HighestBounds DEF StorageInv, LogOrdered
  <2>3. Folded.applied = Base.applied
          \/ \E i \in DOMAIN retired.recs : Folded.applied = retired.recs[i].tx
    BY <2>1, BaseType, RecordTypes, HighestBounds DEF StorageInv, LogOrdered
  <2> QED BY <1>1, <1>2, <2>2, <2>3 DEF SwitchRecovered, StorageInv, TxShape
<1>8. LogOrdered'
  BY <1>1, <1>2, FoldedFacts DEF StorageInv, LogOrdered
<1>9. RetiredShape'
  BY <1>2 DEF SwitchRecovered, StorageInv, ProcessShape, RetiredShape
<1>10. BatchShape'
  BY DEF SwitchRecovered, StorageInv, BatchShape
<1> QED BY <1>3, <1>4, <1>5, <1>6, <1>7, <1>8, <1>9, <1>10 DEF StorageInv

(***************************************************************************)
(* The retired log is removed once the generation has its records.         *)
(***************************************************************************)
LEMMA DropContent ==
  ASSUME StorageInv, current # -1, FoldedIn, retired' = NoLog,
         UNCHANGED <<current, gens, wal, synced>>
  PROVE  Committed' = Committed /\ Base' = Base
<1>1. Base' = Base /\ Durable' = Durable /\ retired'.recs = <<>>
  BY DEF Base, Durable, NoLog
<1>2. Fold(Base, <<>>) = Base
  BY BaseType, NoRecords
<1>3. Folded = Base
  BY FoldedFacts
<1> QED BY <1>1, <1>2, <1>3 DEF Committed, Folded

(***************************************************************************)
(* Recovery removes the retired log.                                       *)
(***************************************************************************)
LEMMA DropRetiredKeeps ==
  ASSUME StorageInv, Survivable, DropRetired, retired' = NoLog
  PROVE  StorageInv'
<1>1. current # -1 /\ FoldedIn
  BY DEF DropRetired, StorageInv, FilesShape, RetiredShape
<1>2. Committed' = Committed /\ Base' = Base
  BY <1>1, DropContent DEF DropRetired
<1>3. AckedSurvive'
  BY <1>2, AckedKept DEF DropRetired
<1>4. TypeOK'
  BY DEF DropRetired, NoLog, LogFile, StorageInv, TypeOK, Modes
<1>5. FilesShape' /\ ProcessShape'
  BY DEF DropRetired, NoLog, StorageInv, FilesShape, ProcessShape
<1>6. TxShape' /\ LogOrdered'
  BY <1>2 DEF DropRetired, NoLog, Increasing, StorageInv, TxShape, LogOrdered
<1>7. RetiredShape' /\ BatchShape'
  BY <1>2 DEF DropRetired, NoLog, StorageInv, ProcessShape, RetiredShape,
     BatchShape, FoldedIn
<1> QED BY <1>3, <1>4, <1>5, <1>6, <1>7 DEF StorageInv

(***************************************************************************)
(* A checkpoint removes the retired log.                                   *)
(***************************************************************************)
LEMMA RemoveRetiredKeeps ==
  ASSUME StorageInv, Survivable, RemoveRetired, retired' = NoLog
  PROVE  StorageInv'
<1>1. current # -1 /\ FoldedIn
  BY DEF RemoveRetired, StorageInv, ProcessShape, RetiredShape
<1>2. Committed' = Committed /\ Base' = Base
  BY <1>1, DropContent DEF RemoveRetired
<1>3. AckedSurvive'
  BY <1>2, AckedKept DEF RemoveRetired
<1>4. TypeOK'
  BY DEF RemoveRetired, NoLog, LogFile, StorageInv, TypeOK, Steps
<1>5. FilesShape' /\ ProcessShape'
  BY DEF RemoveRetired, NoLog, StorageInv, FilesShape, ProcessShape
<1>6. TxShape' /\ LogOrdered'
  BY <1>2 DEF RemoveRetired, NoLog, Increasing, StorageInv, TxShape, LogOrdered
<1>7. RetiredShape' /\ BatchShape'
  BY <1>2 DEF RemoveRetired, NoLog, StorageInv, RetiredShape, BatchShape,
     FoldedIn
<1> QED BY <1>3, <1>4, <1>5, <1>6, <1>7 DEF StorageInv

(***************************************************************************)
(* A removal that errs leaves a retired log that is folded in already.     *)
(***************************************************************************)
LEMMA RemoveFailsKeeps ==
  ASSUME StorageInv, Survivable, RemoveRetired, retired' = retired
  PROVE  StorageInv'
<1>1. content' = content
  BY DEF RemoveRetired, content, Base, Durable
<1>2. AckedSurvive'
  BY <1>1, SameContent, AckedKept DEF RemoveRetired
<1>3. TypeOK' /\ FilesShape' /\ ProcessShape' /\ TxShape' /\ LogOrdered'
  BY DEF RemoveRetired, StorageInv, TypeOK, Steps, FilesShape, ProcessShape,
     TxShape, LogOrdered, Base
<1>4. RetiredShape' /\ BatchShape'
  BY DEF RemoveRetired, StorageInv, RetiredShape, BatchShape, FoldedIn, Base
<1> QED BY <1>2, <1>3, <1>4 DEF StorageInv

(***************************************************************************)
(* What a power loss leaves of the log is durable.                         *)
(***************************************************************************)
LEMMA LossCommits ==
  ASSUME StorageInv, NEW n \in synced .. Len(wal.recs), NEW torn \in BOOLEAN,
         wal' = TornLog(n, torn), synced' = n,
         UNCHANGED <<current, gens, retired>>
  PROVE  wal'.recs = SubSeq(wal.recs, 1, n) /\ Committed' = Rebuilt(n)
<1>1. wal.recs \in Seq(Record) /\ n \in 0 .. Len(wal.recs) /\ wal \in LogFile
  BY RecordTypes DEF StorageInv, TypeOK
<1>2. wal'.recs = SubSeq(wal.recs, 1, n)
  BY <1>1 DEF TornLog, LogFile
<1>3. Durable' = SubSeq(wal.recs, 1, n)
  <2>1. SubSeq(SubSeq(wal.recs, 1, n), 1, n) = SubSeq(wal.recs, 1, n)
    BY <1>1
  <2> QED BY <1>2, <2>1 DEF Durable
<1>4. Base' = Base
  BY DEF Base
<1> QED BY <1>2, <1>3, <1>4 DEF Committed, Folded, Rebuilt

(***************************************************************************)
(* A power loss leaves a prefix that holds all that was fsynced.           *)
(***************************************************************************)
LEMMA PowerLossKeeps ==
  ASSUME StorageInv, Survivable, PowerLoss
  PROVE  StorageInv'
<1>1. PICK n \in synced .. Len(wal.recs), torn \in BOOLEAN :
         wal' = TornLog(n, torn) /\ synced' = n /\ UNCHANGED retired
  BY DEF PowerLoss, Survivable
<1> DEFINE recs == SubSeq(wal.recs, 1, n)
<1>2. /\ wal.recs \in Seq(Record) /\ n \in 0 .. Len(wal.recs)
      /\ Increasing(wal.recs) /\ wal \in LogFile
  BY RecordTypes DEF StorageInv, TypeOK, LogOrdered
<1>3. /\ recs \in Seq(Record) /\ Increasing(recs) /\ Len(recs) = n
      /\ DOMAIN recs = 1 .. n /\ SubSeq(recs, 1, n) = recs
      /\ \A i \in 1 .. n : recs[i] = wal.recs[i] /\ i \in DOMAIN wal.recs
  BY <1>2, IncreasingPrefix
<1>4. wal' = [wal EXCEPT !.recs = recs, !.junk = torn /\ wal.there]
  BY <1>1 DEF TornLog
<1> HIDE DEF recs
<1>5. /\ wal'.recs = recs /\ wal'.there = wal.there /\ wal' \in LogFile
      /\ Base' = Base /\ retired' = retired
  BY <1>1, <1>2, <1>3, <1>4 DEF PowerLoss, Base, LogFile
<1>6. Committed' = Rebuilt(n)
  BY <1>1, LossCommits DEF PowerLoss
<1>7. AckedSurvive'
  BY <1>6, RebuiltGrows, AckedGrows DEF PowerLoss
<1>8. TypeOK'
  <2>1. mode' \in Modes /\ ck' \in Steps /\ mapped' \in -1 .. MaxGen
    BY StorageAssumption DEF PowerLoss, ProcessEnds, Modes, Steps
  <2>2. synced' \in 0 .. Len(wal'.recs)
    BY <1>1, <1>2, <1>3, <1>5
  <2> QED BY <1>5, <2>1, <2>2 DEF PowerLoss, ProcessEnds, StorageInv, TypeOK
<1>9. FilesShape'
  <2>1. wal.recs = <<>> => recs = <<>>
    BY <1>2, <1>3
  <2> QED BY <1>5, <2>1 DEF PowerLoss, MayCrash, ProcessEnds, StorageInv,
     FilesShape
<1>10. ProcessShape' /\ TxShape' /\ BatchShape'
  BY DEF PowerLoss, ProcessEnds, ProcessShape, TxShape, BatchShape
<1>11. LogOrdered'
  BY <1>3, <1>5 DEF StorageInv, LogOrdered
<1>12. RetiredShape'
  BY DEF PowerLoss, ProcessEnds, RetiredShape
<1> QED BY <1>7, <1>8, <1>9, <1>10, <1>11, <1>12 DEF StorageInv

(***************************************************************************)
(* Nothing changes in a stuttering step.                                   *)
(***************************************************************************)
LEMMA StutterKeeps ==
  ASSUME StorageInv, UNCHANGED vars
  PROVE  StorageInv'
BY DEF vars, disk, process, StorageInv, TypeOK, FilesShape, ProcessShape,
   TxShape, LogOrdered, RetiredShape, BatchShape, AckedSurvive, Base, FoldedIn,
   Committed, Durable

(***************************************************************************)
(* The invariant holds of a directory never opened.                        *)
(***************************************************************************)
LEMMA InitHolds == Init => StorageInv
<1> SUFFICES ASSUME Init PROVE StorageInv
  OBVIOUS
<1>1. NoLog \in LogFile /\ NoGeneration \in Generation /\ NoLog.recs = <<>>
  BY NoRecords DEF NoLog, LogFile, NoGeneration, Generation
<1>2. TypeOK
  <2>1. -1 \in -1 .. MaxGen /\ 0 \in 0 .. Len(wal.recs)
    BY <1>1, StorageAssumption DEF Init
  <2> QED BY <1>1, <2>1 DEF Init, TypeOK, Modes, Steps
<1>3. FilesShape
  BY DEF Init, FilesShape, NoLog, NoGeneration
<1>4. ProcessShape /\ TxShape /\ RetiredShape /\ BatchShape
  BY DEF Init, ProcessShape, TxShape, RetiredShape, BatchShape
<1>5. LogOrdered
  BY <1>1, NoRecords DEF Init, LogOrdered
<1>6. AckedSurvive
  BY DEF Init, AckedSurvive
<1> QED BY <1>2, <1>3, <1>4, <1>5, <1>6 DEF StorageInv

(***************************************************************************)
(* Every step keeps the invariant: one case per action.                    *)
(***************************************************************************)
LEMMA InvStep ==
  ASSUME StorageInv, Survivable, [Next]_vars
  PROVE  StorageInv'
<1>1. CASE \E K \in (SUBSET Key) \ {{}} : AppendRecord(K)
  BY <1>1, AppendRecordKeeps
<1>2. CASE \E n \in 1 .. MaxBatch : AppendFails(n)
  BY <1>2, AppendFailsKeeps
<1>3. CASE SyncBatch
  BY <1>3, SyncBatchKeeps
<1>4. CASE SyncFails
  BY <1>4, SyncFailsKeeps
<1>5. CASE RotateRename
  BY <1>5, RotateRenameKeeps
<1>6. CASE RotateRenameFails
  BY <1>6, RotateRenameFailsKeeps
<1>7. CASE RotateOpen
  BY <1>7, RotateOpenKeeps
<1>8. CASE RotateOpenFails
  BY <1>8, RotateOpenFailsKeeps
<1>9. CASE Publish
  BY <1>9, PublishKeeps
<1>10. CASE SwitchCurrent
  BY <1>10, SwitchCurrentKeeps
<1>11. CASE Swap
  BY <1>11, SwapKeeps
<1>12. CASE SwapFails
  BY <1>12, SwapFailsKeeps
<1>13. CASE RemoveRetired
  BY <1>13, RemoveRetiredKeeps, RemoveFailsKeeps DEF RemoveRetired
<1>14. CASE Cleanup
  BY <1>14, CleanupKeeps
<1>15. CASE Boot
  BY <1>15, BootKeeps
<1>16. CASE InitData
  BY <1>16, InitDataKeeps
<1>17. CASE InitCurrent
  BY <1>17, InitCurrentKeeps
<1>18. CASE Purge
  BY <1>18, PurgeKeeps
<1>19. CASE FoldRetired
  BY <1>19, FoldKeeps
<1>20. CASE SwitchRecovered
  BY <1>20, SwitchRecoveredKeeps
<1>21. CASE DropRetired
  BY <1>21, DropRetiredKeeps DEF DropRetired
<1>22. CASE Replay
  BY <1>22, ReplayKeeps
<1>23. CASE Kill
  BY <1>23, KillKeeps
<1>24. CASE PowerLoss
  BY <1>24, PowerLossKeeps
<1>25. ~BuildFails /\ ~SwitchFails
  BY DEF Survivable, BuildFails, SwitchFails
<1>26. CASE UNCHANGED vars
  BY <1>26, StutterKeeps
<1> QED
  BY <1>1, <1>2, <1>3, <1>4, <1>5, <1>6, <1>7, <1>8, <1>9, <1>10, <1>11, <1>12,
     <1>13, <1>14, <1>15, <1>16, <1>17, <1>18, <1>19, <1>20, <1>21, <1>22,
     <1>23, <1>24, <1>25, <1>26 DEF Next, Sequence, Checkpoint, Recover, Crash

(***************************************************************************)
(* Whatever the interleaving of batches, checkpoint steps, kills, power    *)
(* losses and survivable I/O errors, the invariant holds.                  *)
(***************************************************************************)
THEOREM Invariant ==
  ASSUME Survivable
  PROVE  Spec => []StorageInv
<1>1. Init => StorageInv
  BY InitHolds
<1>2. StorageInv /\ [Next]_vars => StorageInv'
  BY InvStep
<1> QED BY <1>1, <1>2, PTL DEF Spec

(***************************************************************************)
(* Every variable keeps its type: CURRENT names a generation, the fsynced  *)
(* prefix never exceeds the log.                                           *)
(***************************************************************************)
THEOREM TypeCorrect ==
  ASSUME Survivable
  PROVE  Spec => []TypeOK
<1>1. StorageInv => TypeOK
  BY DEF StorageInv
<1> QED BY <1>1, Invariant, PTL

(***************************************************************************)
(* No acknowledged write is ever lost (recovery.go:11).                    *)
(***************************************************************************)
THEOREM AckedWritesSurvive ==
  ASSUME Survivable
  PROVE  Spec => []AckedSurvive
<1>1. StorageInv => AckedSurvive
  BY DEF StorageInv
<1> QED BY <1>1, Invariant, PTL

(***************************************************************************)
(* The skip rule of replay hides nothing (recovery.go:193).                *)
(***************************************************************************)
THEOREM LogsStayOrdered ==
  ASSUME Survivable
  PROVE  Spec => []LogOrdered
<1>1. StorageInv => LogOrdered
  BY DEF StorageInv
<1> QED BY <1>1, Invariant, PTL

(***************************************************************************)
(* Every boot serves every acknowledged write: what replayWAL reads over   *)
(* the mapped generation is at least what is durable.                      *)
(***************************************************************************)
THEOREM BootsServeAcked ==
  ASSUME Survivable
  PROVE  Spec => []BootServesAcked
<1>1. StorageInv => BootServesAcked
  <2> SUFFICES ASSUME StorageInv, mode = "replay",
                      NEW r \in acked, NEW k \in r.keys
               PROVE  Replayed(gens[current], wal.recs)[k] >= r.tx
    BY DEF BootServesAcked
  <2>1. /\ k \in Key /\ r.tx \in Nat /\ Committed[k] >= r.tx
    BY DEF StorageInv, TypeOK, Record, AckedSurvive
  <2>2. current # -1 /\ FoldedIn /\ Base = gens[current]
    BY BaseType DEF StorageInv, FilesShape, ProcessShape, FoldedIn
  <2>3. Folded = gens[current]
    BY <2>2, FoldedFacts
  <2>4. /\ Len(wal.recs) \in synced .. Len(wal.recs)
        /\ SubSeq(wal.recs, 1, Len(wal.recs)) = wal.recs
    BY RecordTypes DEF StorageInv, TypeOK
  <2>5. /\ Committed[k] <= Rebuilt(Len(wal.recs))[k]
        /\ Rebuilt(Len(wal.recs))[k] \in Nat /\ Committed[k] \in Nat
    BY <2>1, <2>4, RebuiltGrows, CommittedType
  <2>6. Rebuilt(Len(wal.recs)) = Replayed(gens[current], wal.recs)
    BY <2>3, <2>4 DEF Rebuilt
  <2> QED BY <2>1, <2>5, <2>6
<1> QED BY <1>1, Invariant, PTL

(***************************************************************************)
(* The sequencer resumes past every TxID on disk or acknowledged, so that  *)
(* none is reused (recovery.go:168).                                       *)
(***************************************************************************)
THEOREM TxIDsStayFresh ==
  ASSUME Survivable
  PROVE  Spec => []FreshTx
<1>1. StorageInv => FreshTx
  <2> SUFFICES ASSUME StorageInv, mode = "up" PROVE FreshTx
    BY DEF FreshTx
  <2>1. /\ current # -1 /\ Base = gens[current]
        /\ Base.applied <= nextTx /\ Base.applied \in Nat
        /\ \A i \in DOMAIN wal.recs : wal.recs[i].tx <= nextTx
        /\ \A i \in DOMAIN retired.recs : retired.recs[i].tx <= nextTx
    BY BaseType DEF StorageInv, FilesShape, TxShape
  <2>2. nextTx \in Nat
    BY DEF StorageInv, TypeOK
  <2>3. ASSUME NEW r \in acked PROVE r.tx <= nextTx
    <3>1. PICK k \in r.keys : k \in Key /\ Committed[k] >= r.tx
      BY DEF StorageInv, TypeOK, Record, AckedSurvive
    <3>2. \A i \in DOMAIN Durable : Durable[i].tx <= nextTx
      BY <2>1, DurableType DEF StorageInv, TypeOK
    <3>3. Folded.db[k] \in Nat /\ Folded.db[k] <= nextTx
      <4>1. Folded.applied <= nextTx
        BY <2>1, <2>2, RecordTypes, HighestBounds DEF Folded, Fold, StorageInv,
           LogOrdered
      <4>2. /\ Folded \in Generation /\ Folded.applied \in Nat
            /\ Folded.db[k] <= Folded.applied
        BY <3>1, FoldedFacts
      <4> QED BY <2>2, <3>1, <4>1, <4>2 DEF Generation
    <3>4. Committed[k] <= nextTx
      BY <2>2, <3>1, <3>2, <3>3, DurableType, FoldedFacts, ReplayedBound DEF
         Committed, Folded, StorageInv
    <3>5. r.tx \in Nat /\ Committed[k] \in Nat
      BY <3>1, CommittedType DEF StorageInv, TypeOK, Record
    <3> QED BY <2>2, <3>1, <3>4, <3>5
  <2> QED BY <2>1, <2>3 DEF FreshTx
<1> QED BY <1>1, Invariant, PTL

-----------------------------------------------------------------------------
(* The abstract map *)
(***************************************************************************)
(* The map after the first pending records is what a boot would rebuild    *)
(* from that much of the log.                                              *)
(***************************************************************************)
LEMMA MapReplays ==
  /\ Map!NoGeneration = NoGeneration
  /\ \A base, recs : Map!Replayed(base, recs) = Replayed(base, recs)
<1>1. \A S : Map!Max(S) = Max(S)
  BY DEF Map!Max, Max
<1>2. \A recs, k, a : Map!Writers(recs, k, a) = Writers(recs, k, a)
  BY DEF Map!Writers, Writers
<1> QED BY <1>1, <1>2 DEF Map!Replayed, Replayed, Map!NoGeneration, NoGeneration

(***************************************************************************)
(* The records behind the map are those behind the fsynced prefix.         *)
(***************************************************************************)
LEMMA PendingType ==
  ASSUME StorageInv
  PROVE  /\ Pending \in Seq(Record) /\ Len(Pending) = Len(wal.recs) - synced
         /\ DOMAIN Pending = 1 .. Len(wal.recs) - synced
         /\ \A i \in 1 .. Len(wal.recs) - synced : Pending[i] = wal.recs[synced + i]
         /\ synced \in 0 .. Len(wal.recs) /\ Len(wal.recs) \in Nat
<1>1. wal.recs \in Seq(Record) /\ synced \in 0 .. Len(wal.recs)
  BY RecordTypes DEF StorageInv, TypeOK
<1> QED BY <1>1 DEF Pending

(***************************************************************************)
(* What a boot would rebuild from the first n records of the log is the map*)
(* after as many of the pending ones as that is.                           *)
(***************************************************************************)
LEMMA RebuiltIsCommitted ==
  ASSUME StorageInv, NEW n \in synced .. Len(wal.recs)
  PROVE  Rebuilt(n) = Map!CommittedUpTo(n - synced)
<1>1. wal.recs \in Seq(Record) /\ synced \in 0 .. n /\ n \in 0 .. Len(wal.recs)
  BY RecordTypes DEF StorageInv, TypeOK
<1>2. /\ Folded \in Generation
      /\ \A i \in DOMAIN wal.recs : Folded.applied < wal.recs[i].tx
  BY FoldedFacts
<1>3. Rebuilt(n) =
         Replayed([NoGeneration EXCEPT
                      !.db = Replayed(Folded, SubSeq(wal.recs, 1, synced))],
                  SubSeq(wal.recs, synced + 1, n))
  BY <1>1, <1>2, ReplayedSplit DEF Rebuilt
<1>4. Replayed(Folded, SubSeq(wal.recs, 1, synced)) = Committed
  BY DEF Committed, Folded, Durable
<1>5. SubSeq(Pending, 1, n - synced) = SubSeq(wal.recs, synced + 1, n)
  BY <1>1 DEF Pending
<1> QED BY <1>3, <1>4, <1>5, MapReplays DEF Map!CommittedUpTo

-----------------------------------------------------------------------------
(***************************************************************************)
(* A step of the map, or none.                                             *)
(***************************************************************************)
mapVars == <<Committed, Pending, acked>>

(***************************************************************************)
(* What leaves the content, the log and its fsynced prefix alone is        *)
(* invisible.                                                              *)
(***************************************************************************)
LEMMA Invisible ==
  ASSUME Committed' = Committed, wal'.recs = wal.recs, synced' = synced,
         acked' = acked
  PROVE  UNCHANGED mapVars
BY DEF mapVars, Pending

(***************************************************************************)
(* Errors, and checkpoint steps around a new generation, are.              *)
(***************************************************************************)
LEMMA CheckpointInvisible ==
  ASSUME StorageInv,
         \/ \E n \in 1 .. MaxBatch : AppendFails(n)
         \/ SyncFails \/ RotateOpen \/ Publish \/ SwitchCurrent
         \/ Swap \/ SwapFails \/ RemoveRetired \/ Cleanup
  PROVE  UNCHANGED mapVars
<1>0. wal \in LogFile
  BY DEF StorageInv, TypeOK
<1>1. ASSUME NEW n \in 1 .. MaxBatch, AppendFails(n) PROVE UNCHANGED mapVars
  <2>1. wal'.recs = wal.recs
    BY <1>0, <1>1 DEF AppendFails, LogFile
  <2>2. content' = content
    BY <1>1, <2>1 DEF AppendFails, content, Durable, Base
  <2> QED BY <1>1, <2>1, <2>2, SameContent, Invisible DEF AppendFails
<1>2. CASE SyncFails \/ Swap \/ SwapFails
  <2>1. content' = content /\ UNCHANGED <<wal, synced, acked>>
    BY <1>2 DEF SyncFails, Swap, SwapFails, disk, content, Durable, Base
  <2> QED BY <2>1, SameContent, Invisible
<1>3. CASE RotateOpen
  <2>1. wal.recs = <<>> /\ wal'.recs = <<>>
    BY <1>3 DEF RotateOpen, EmptyLog, StorageInv, ProcessShape
  <2>2. content' = content
    BY <1>3, <2>1 DEF RotateOpen, content, Durable, Base
  <2> QED BY <1>3, <2>1, <2>2, SameContent, Invisible DEF RotateOpen
<1>4. CASE Publish
  <2>1. gens'[current] = gens[current] /\ current # -1
    BY <1>4 DEF Publish, PublishNext, StorageInv, TypeOK, FilesShape
  <2>2. content' = content
    BY <1>4, <2>1 DEF Publish, PublishNext, content, Durable, Base
  <2> QED BY <1>4, <2>2, SameContent, Invisible DEF Publish, PublishNext
<1>5. CASE SwitchCurrent
  <2>1. /\ current # -1 /\ current + 1 <= MaxGen
        /\ gens[current + 1] = Fold(gens[current], retired.recs)
    BY <1>5, StorageAssumption DEF SwitchCurrent, StorageInv, TypeOK,
       FilesShape, ProcessShape, RetiredShape
  <2> QED BY <1>5, <2>1, SwitchContent, Invisible DEF SwitchCurrent
<1>6. CASE RemoveRetired
  <2>1. CASE retired' = retired
    <3>1. content' = content
      BY <1>6, <2>1 DEF RemoveRetired, content, Durable, Base
    <3> QED BY <1>6, <3>1, SameContent, Invisible DEF RemoveRetired
  <2>2. CASE retired' = NoLog
    <3>1. current # -1 /\ FoldedIn
      BY <1>6 DEF RemoveRetired, StorageInv, FilesShape, ProcessShape,
         RetiredShape
    <3> QED BY <1>6, <2>2, <3>1, DropContent, Invisible DEF RemoveRetired
  <2> QED BY <1>6, <2>1, <2>2 DEF RemoveRetired
<1>7. CASE Cleanup
  <2>1. content' = content
    BY <1>7, StorageAssumption DEF Cleanup, content, Durable, Base, Without,
       StorageInv, TypeOK
  <2> QED BY <1>7, <2>1, SameContent, Invisible DEF Cleanup
<1> QED BY <1>1, <1>2, <1>3, <1>4, <1>5, <1>6, <1>7

(***************************************************************************)
(* So is every step of a boot, and the end of a process.                   *)
(***************************************************************************)
LEMMA RecoverInvisible ==
  ASSUME StorageInv, Recover \/ Kill
  PROVE  UNCHANGED mapVars
<1>0. wal \in LogFile
  BY DEF StorageInv, TypeOK
<1>1. CASE Boot \/ Kill
  <2>1. content' = content /\ UNCHANGED <<wal, synced, acked>>
    BY <1>1 DEF Boot, Kill, disk, content, Durable, Base
  <2> QED BY <2>1, SameContent, Invisible
<1>2. CASE InitData
  <2>1. current = -1
    BY <1>2 DEF InitData, StorageInv, FilesShape
  <2>2. content' = content
    BY <1>2, <2>1 DEF InitData, content, Durable, Base
  <2> QED BY <1>2, <2>2, SameContent, Invisible DEF InitData
<1>3. CASE InitCurrent
  <2>1. wal'.recs = wal.recs
    BY <1>0, <1>3 DEF InitCurrent, LogFile
  <2>2. Base = NoGeneration /\ Base' = EmptyGeneration
    BY <1>3 DEF InitCurrent, StorageInv, FilesShape, Base
  <2>3. content' = content
    BY <1>3, <2>1, <2>2 DEF InitCurrent, content, Durable, EmptyGeneration,
       NoGeneration
  <2> QED BY <1>3, <2>1, <2>3, SameContent, Invisible DEF InitCurrent
<1>4. CASE Purge
  <2>1. content' = content
    BY <1>4, StorageAssumption DEF Purge, content, Durable, Base, Without,
       StorageInv, TypeOK
  <2> QED BY <1>4, <2>1, SameContent, Invisible DEF Purge
<1>5. CASE FoldRetired
  <2>1. gens'[current] = gens[current] /\ current # -1
    BY <1>5 DEF FoldRetired, PublishNext, StorageInv, TypeOK, FilesShape
  <2>2. content' = content
    BY <1>5, <2>1 DEF FoldRetired, PublishNext, content, Durable, Base
  <2> QED BY <1>5, <2>2, SameContent, Invisible DEF FoldRetired, PublishNext
<1>6. CASE SwitchRecovered
  <2>1. /\ current # -1 /\ current + 1 <= MaxGen
        /\ gens[current + 1] = Fold(gens[current], retired.recs)
    BY <1>6, StorageAssumption DEF SwitchRecovered, StorageInv, TypeOK,
       FilesShape, ProcessShape, RetiredShape
  <2> QED BY <1>6, <2>1, SwitchContent, Invisible DEF SwitchRecovered
<1>7. CASE DropRetired
  <2>1. current # -1 /\ FoldedIn
    BY <1>7 DEF DropRetired, StorageInv, FilesShape, RetiredShape
  <2> QED BY <1>7, <2>1, DropContent, Invisible DEF DropRetired
<1>8. CASE Replay
  <2>1. wal'.recs = wal.recs
    BY <1>0, <1>8 DEF Replay, LogFile
  <2>2. content' = content
    BY <1>8, <2>1 DEF Replay, content, Durable, Base
  <2> QED BY <1>8, <2>1, <2>2, SameContent, Invisible DEF Replay
<1> QED BY <1>1, <1>2, <1>3, <1>4, <1>5, <1>6, <1>7, <1>8 DEF Recover

-----------------------------------------------------------------------------
(***************************************************************************)
(* No TxID in the map or behind it is above the sequencer's counter.       *)
(***************************************************************************)
LEMMA UsedTxBounded ==
  ASSUME StorageInv, mode = "up"
  PROVE  \A u \in Map!UsedTx : u \in Nat /\ u <= nextTx
<1>1. /\ nextTx \in Nat
      /\ Base.applied <= nextTx /\ Base.applied \in Nat
      /\ \A i \in DOMAIN wal.recs : wal.recs[i].tx <= nextTx
      /\ \A i \in DOMAIN retired.recs : retired.recs[i].tx <= nextTx
  BY BaseType DEF StorageInv, TypeOK, TxShape
<1>2. Folded.applied <= nextTx
  BY <1>1, RecordTypes, HighestBounds DEF Folded, Fold, StorageInv, LogOrdered
<1>3. ASSUME NEW k \in Key PROVE Committed[k] \in Nat /\ Committed[k] <= nextTx
  <2>1. Folded \in Generation /\ Folded.db[k] <= nextTx
    <3>1. /\ Folded \in Generation /\ Folded.applied \in Nat
          /\ Folded.db[k] <= Folded.applied
      BY FoldedFacts
    <3>2. Folded.db[k] \in Nat
      BY <3>1 DEF Generation
    <3> QED BY <1>1, <1>2, <3>1, <3>2
  <2>2. /\ Durable \in Seq(Record)
        /\ \A i \in DOMAIN Durable : Durable[i].tx <= nextTx
    BY <1>1, DurableType DEF StorageInv, TypeOK
  <2>3. Committed[k] <= nextTx
    BY <1>1, <2>1, <2>2, ReplayedBound DEF Committed, Folded
  <2> QED BY <2>3, CommittedType
<1>4. ASSUME NEW i \in DOMAIN Pending
      PROVE  Pending[i].tx \in Nat /\ Pending[i].tx <= nextTx
  <2>1. synced + i \in DOMAIN wal.recs /\ Pending[i] = wal.recs[synced + i]
    BY PendingType, RecordTypes DEF StorageInv
  <2> QED BY <1>1, <2>1, RecordTypes DEF StorageInv
<1> QED BY <1>3, <1>4 DEF Map!UsedTx

(***************************************************************************)
(* A record appended is written behind the map.                            *)
(***************************************************************************)
LEMMA AppendWrites ==
  ASSUME StorageInv, NEW K \in (SUBSET Key) \ {{}}, AppendRecord(K)
  PROVE  Map!Write(nextTx + 1, K) /\ nextTx + 1 \in 1 .. MaxTx
<1> DEFINE r == [tx |-> nextTx + 1, keys |-> K]
<1>1. /\ nextTx \in Nat /\ nextTx + 1 \in 1 .. MaxTx /\ r \in Record
      /\ wal \in LogFile /\ mode = "up"
  BY StorageAssumption DEF AppendRecord, StorageInv, TypeOK, Record
<1>2. wal.recs \in Seq(Record) /\ synced \in 0 .. Len(wal.recs)
  BY RecordTypes DEF StorageInv, TypeOK
<1>3. wal'.recs = Append(wal.recs, r) /\ synced' = synced /\ acked' = acked
  BY <1>1 DEF AppendRecord, Appended, StorageInv, ProcessShape, LogFile
<1> HIDE DEF r
<1>4. SubSeq(wal'.recs, 1, synced) = Durable
  BY <1>1, <1>2, <1>3 DEF Durable
<1>5. Pending' = Append(Pending, r)
  <2> DEFINE len == Len(wal.recs) - synced
             new == SubSeq(wal'.recs, synced + 1, Len(wal'.recs))
             app == Append(Pending, r)
  <2>1. /\ wal'.recs \in Seq(Record) /\ Len(wal'.recs) = Len(wal.recs) + 1
        /\ wal'.recs[Len(wal.recs) + 1] = r
        /\ \A i \in 1 .. Len(wal.recs) : wal'.recs[i] = wal.recs[i]
    BY <1>1, <1>2, <1>3
  <2>2. /\ len \in Nat /\ synced \in Nat /\ synced + len = Len(wal.recs)
        /\ Pending \in Seq(Record) /\ Len(Pending) = len
        /\ \A i \in 1 .. len : Pending[i] = wal.recs[synced + i]
    BY <1>2, PendingType
  <2> HIDE DEF len
  <2>3. /\ new \in Seq(Record) /\ Len(new) = len + 1
        /\ \A i \in 1 .. len + 1 : new[i] = wal'.recs[synced + i]
    BY <2>1, <2>2
  <2>4. /\ app \in Seq(Record) /\ Len(app) = len + 1 /\ app[len + 1] = r
        /\ \A i \in 1 .. len : app[i] = Pending[i]
    BY <1>1, <2>2
  <2> HIDE DEF new, app
  <2>5. ASSUME NEW i \in 1 .. len + 1 PROVE new[i] = app[i]
    <3>1. new[i] = wal'.recs[synced + i]
      BY <2>3
    <3>2. CASE i = len + 1
      BY <2>1, <2>2, <2>4, <3>1, <3>2
    <3>3. CASE i # len + 1
      <4>1. i \in 1 .. len /\ synced + i \in 1 .. Len(wal.recs)
        BY <2>2, <3>3
      <4> QED BY <2>1, <2>2, <2>4, <3>1, <4>1
    <3> QED BY <3>2, <3>3
  <2>6. new = app
    BY <2>2, <2>3, <2>4, <2>5
  <2> QED BY <1>3, <2>6 DEF Pending, new, app
<1>6. Committed' = Committed
  <2>1. content' = content
    BY <1>3, <1>4 DEF AppendRecord, content, Durable, Base
  <2> QED BY <2>1, SameContent
<1>7. \A u \in Map!UsedTx : u < nextTx + 1
  BY <1>1, UsedTxBounded
<1> QED BY <1>1, <1>3, <1>5, <1>6, <1>7 DEF Map!Write, r

(***************************************************************************)
(* When all of the log becomes durable, all that is written is committed.  *)
(***************************************************************************)
LEMMA AllCommitted ==
  ASSUME StorageInv, Committed' = Rebuilt(Len(wal.recs)),
         Pending' = <<>>, NEW S \in SUBSET {Pending[i] : i \in DOMAIN Pending},
         acked' = acked \union S
  PROVE  Map!Next
<1>1. Len(wal.recs) \in synced .. Len(wal.recs)
  BY PendingType
<1>2. Committed' = Map!CommittedUpTo(Len(Pending))
  BY <1>1, PendingType, RebuiltIsCommitted
<1> QED BY <1>2 DEF Map!Flush, Map!Next

(***************************************************************************)
(* An fsync, that of a batch or of a rotation, is a flush.                 *)
(***************************************************************************)
LEMMA SyncFlushes ==
  ASSUME StorageInv, SyncBatch \/ RotateRename \/ RotateRenameFails
  PROVE  Map!Next
<1>1. CASE SyncBatch
  <2>1. Pending' = <<>>
    BY <1>1, PendingType DEF SyncBatch, Pending
  <2>2. batch \subseteq {Pending[i] : i \in DOMAIN Pending}
    <3> SUFFICES ASSUME NEW r \in batch
                 PROVE  \E i \in DOMAIN Pending : Pending[i] = r
      OBVIOUS
    <3>1. PICK i \in synced + 1 .. Len(wal.recs) : wal.recs[i] = r
      BY DEF StorageInv, BatchShape
    <3>2. i - synced \in 1 .. Len(wal.recs) - synced /\ synced + (i - synced) = i
      BY PendingType
    <3> QED BY <3>1, <3>2, PendingType
  <2> QED BY <1>1, <2>1, <2>2, SyncCommits, AllCommitted DEF SyncBatch
<1>2. CASE RotateRename
  <2>1. Pending' = <<>>
    BY <1>2 DEF RotateRename, NoLog, Pending
  <2>2. acked' = acked \union {}
    BY <1>2 DEF RotateRename
  <2>3. Committed' = Rebuilt(Len(wal.recs))
    BY <1>2, RotationCommits
  <2> QED BY <2>1, <2>2, <2>3, AllCommitted
<1>3. CASE RotateRenameFails
  <2>1. Pending' = <<>>
    BY <1>3, PendingType DEF RotateRenameFails, Pending
  <2> QED BY <1>3, <2>1, SyncCommits, AllCommitted, SMTT(30) DEF RotateRenameFails
<1> QED BY <1>1, <1>2, <1>3

(***************************************************************************)
(* A rename undone is invisible: nothing was pending.                      *)
(***************************************************************************)
LEMMA UndoneInvisible ==
  ASSUME StorageInv, RotateOpenFails
  PROVE  UNCHANGED mapVars
<1>1. CASE UNCHANGED <<wal, retired, synced>>
  <2>1. content' = content
    BY <1>1 DEF RotateOpenFails, content, Durable, Base
  <2> QED BY <1>1, <2>1, SameContent, Invisible DEF RotateOpenFails
<1>2. CASE wal' = retired /\ retired' = NoLog /\ synced' = Len(retired.recs)
  <2>1. retired.recs \in Seq(Record) /\ wal.recs = <<>>
    BY RecordTypes DEF RotateOpenFails, StorageInv, ProcessShape
  <2>2. Pending = <<>>
    BY <2>1, PendingType DEF Pending
  <2>3. Pending' = <<>>
    BY <1>2, <2>1 DEF Pending
  <2> QED BY <1>2, <2>2, <2>3, UndoneContent DEF RotateOpenFails, mapVars
<1> QED BY <1>1, <1>2 DEF RotateOpenFails

(***************************************************************************)
(* A power loss commits a prefix of what is pending.                       *)
(***************************************************************************)
LEMMA LossCrashes ==
  ASSUME StorageInv, Survivable, PowerLoss
  PROVE  Map!Next
<1>1. PICK n \in synced .. Len(wal.recs), torn \in BOOLEAN :
         wal' = TornLog(n, torn) /\ synced' = n /\ UNCHANGED retired
  BY DEF PowerLoss, Survivable
<1>2. wal'.recs = SubSeq(wal.recs, 1, n) /\ Committed' = Rebuilt(n)
  BY <1>1, LossCommits DEF PowerLoss
<1>3. wal.recs \in Seq(Record) /\ n \in 0 .. Len(wal.recs)
  BY RecordTypes DEF StorageInv, TypeOK
<1>4. Pending' = <<>>
  BY <1>1, <1>2, <1>3 DEF Pending
<1>5. n - synced \in 0 .. Len(Pending) /\ Committed' = Map!CommittedUpTo(n - synced)
  BY <1>2, PendingType, RebuiltIsCommitted
<1> QED BY <1>4, <1>5 DEF PowerLoss, Map!Crash, Map!Next

-----------------------------------------------------------------------------
(***************************************************************************)
(* Every step of the core is one of the map, or invisible.                 *)
(***************************************************************************)
LEMMA StepImplements ==
  ASSUME StorageInv, Survivable, [Next]_vars
  PROVE  Map!Next \/ UNCHANGED mapVars
<1>1. ASSUME NEW K \in (SUBSET Key) \ {{}}, AppendRecord(K) PROVE Map!Next
  BY <1>1, AppendWrites DEF Map!Next
<1>2. CASE (\E n \in 1 .. MaxBatch : AppendFails(n)) \/ SyncFails
  BY <1>2, CheckpointInvisible
<1>3. CASE SyncBatch
  BY <1>3, SyncFlushes
<1>4. CASE Checkpoint
  <2>1. ~BuildFails /\ ~SwitchFails
    BY DEF Survivable, BuildFails, SwitchFails
  <2> QED BY <1>4, <2>1, CheckpointInvisible, SyncFlushes, UndoneInvisible
          DEF Checkpoint
<1>5. CASE Recover \/ Kill
  BY <1>5, RecoverInvisible
<1>6. CASE PowerLoss
  BY <1>6, LossCrashes
<1>7. CASE UNCHANGED vars
  BY <1>7 DEF vars, disk, process, mapVars, Pending, Committed, Durable, Base
<1> QED BY <1>1, <1>2, <1>3, <1>4, <1>5, <1>6, <1>7 DEF Next, Sequence, Crash

(***************************************************************************)
(* The durable core implements the abstract map: rotation, building,       *)
(* switching, cleanup, boots and kills are invisible, and a power loss     *)
(* loses at most what no fsync had covered.                                *)
(***************************************************************************)
THEOREM StorageImplementsMap ==
  ASSUME Survivable
  PROVE  Spec => ImplementsMap
<1>1. Init => Map!Init
  <2> SUFFICES ASSUME Init PROVE Map!Init
    OBVIOUS
  <2>1. /\ NoGeneration \in Generation /\ <<>> \in Seq(Record)
        /\ wal.recs = <<>> /\ retired.recs = <<>> /\ synced = 0
        /\ Base = NoGeneration
    BY NoRecords DEF Init, NoLog, NoGeneration, Generation, Base
  <2>2. Pending = <<>> /\ Durable = <<>>
    BY <2>1 DEF Pending, Durable
  <2>3. Committed = [k \in Key |-> 0]
    <3>1. Fold(Base, <<>>).db = NoGeneration.db
      BY <2>1, NoRecords DEF Fold
    <3>2. Fold(Base, <<>>) \in Generation
      BY <2>1, FoldType, NoRecords
    <3>3. Committed = Fold(Base, <<>>).db
      BY <2>1, <2>2, <3>2, NoRecords DEF Committed
    <3> QED BY <3>1, <3>3 DEF NoGeneration
  <2> QED BY <2>2, <2>3 DEF Init, Map!Init
<1>2. StorageInv /\ [Next]_vars => [Map!Next]_<<Committed, Pending, acked>>
  BY StepImplements DEF mapVars
<1> QED BY <1>1, <1>2, Invariant, PTL DEF Spec, ImplementsMap, Map!Spec

-----------------------------------------------------------------------------
(***************************************************************************)
(* A checkpoint under way and a boot change nothing that is durable.       *)
(***************************************************************************)
THEOREM MaintenanceKeeps ==
  ASSUME Survivable
  PROVE  Spec => MaintenanceKeepsContent
<1>1. ASSUME StorageInv, Recover \/ (Checkpoint /\ ck # "idle")
      PROVE  Committed' = Committed
  <2>1. ~BuildFails /\ ~SwitchFails
    BY DEF Survivable, BuildFails, SwitchFails
  <2>2. CASE Recover
    BY <1>1, <2>2, RecoverInvisible DEF mapVars
  <2>3. CASE Checkpoint /\ ck # "idle"
    <3>1. ~RotateRename /\ ~RotateRenameFails
      BY <2>3 DEF RotateRename, RotateRenameFails
    <3> QED BY <1>1, <2>1, <2>3, <3>1, CheckpointInvisible, UndoneInvisible
            DEF Checkpoint, mapVars
  <2> QED BY <1>1, <2>2, <2>3
<1>2. StorageInv /\ [Next]_vars =>
         [Recover \/ (Checkpoint /\ ck # "idle") => Committed' = Committed]_vars
  BY <1>1
<1> QED BY <1>2, Invariant, PTL DEF Spec, MaintenanceKeepsContent

(***************************************************************************)
(* The retired log is overwritten or removed only when CURRENT names a     *)
(* generation that has all of it (checkpoint.go:58).                       *)
(***************************************************************************)
THEOREM RetiredIsFoldedFirst ==
  ASSUME Survivable
  PROVE  Spec => RetiredOnlyDroppedFolded
<1> DEFINE Kept == retired' # retired /\ wal' # retired =>
                      \A i \in DOMAIN retired.recs :
                         retired.recs[i].tx <= gens[current].applied
<1>1. ASSUME StorageInv, Next, retired' # retired, wal' # retired
      PROVE  current # -1 /\ FoldedIn
  <2>1. ~PowerLoss
    BY <1>1 DEF PowerLoss, Survivable
  <2>2. RotateRename \/ RemoveRetired \/ DropRetired
    BY <1>1, <2>1 DEF Next, Sequence, Checkpoint, Recover, Crash, AppendRecord,
       AppendFails, SyncBatch, SyncFails, RotateRenameFails, RotateOpen,
       RotateOpenFails, Publish, PublishNext, BuildFails, SwitchCurrent,
       SwitchFails, Swap, SwapFails, Cleanup, Boot, InitData, InitCurrent,
       Purge, FoldRetired, SwitchRecovered, Replay, Kill, disk
  <2> QED BY <1>1, <2>2 DEF RotateRename, RemoveRetired, DropRetired, StorageInv,
          FilesShape, ProcessShape, RetiredShape
<1>2. StorageInv /\ [Next]_vars => [Kept]_vars
  <2> SUFFICES ASSUME StorageInv, Next, retired' # retired, wal' # retired,
                      NEW i \in DOMAIN retired.recs
               PROVE  retired.recs[i].tx <= gens[current].applied
    OBVIOUS
  <2> QED BY <1>1 DEF FoldedIn, Base
<1> QED BY <1>2, Invariant, PTL DEF Spec, RetiredOnlyDroppedFolded

(***************************************************************************)
(* A generation that CURRENT names, or that readers have mapped, is not    *)
(* written or removed (recovery.go:2).                                     *)
(***************************************************************************)
THEOREM GenerationsStay ==
  ASSUME Survivable
  PROVE  Spec => GenerationsImmutable
<1>1. ASSUME StorageInv, Next, NEW g \in InUse \ {-1}
      PROVE  gens'[g] = gens[g]
  <2>1. g \in 0 .. MaxGen /\ g <= current /\ current \in Nat
    BY <1>1, StorageAssumption DEF InUse, StorageInv, TypeOK, ProcessShape,
       FilesShape
  <2>2. \/ gens' = gens
        \/ Publish \/ FoldRetired \/ InitData \/ Cleanup \/ Purge
    BY <1>1 DEF Next, Sequence, Checkpoint, Recover, Crash, AppendRecord,
       AppendFails, SyncBatch, SyncFails, RotateRename, RotateRenameFails,
       RotateOpen, RotateOpenFails, BuildFails, SwitchCurrent, SwitchFails,
       Swap, SwapFails, RemoveRetired, Boot, InitCurrent, SwitchRecovered,
       DropRetired, Replay, Kill, PowerLoss, Survivable, disk
  <2>3. CASE Publish \/ FoldRetired
    <3>1. gens' = [gens EXCEPT ![current + 1] = Fold(gens[current], retired.recs)]
      BY <2>3 DEF Publish, FoldRetired, PublishNext
    <3>2. g # current + 1 /\ gens \in [0 .. MaxGen -> Generation]
      BY <1>1, <2>1 DEF StorageInv, TypeOK
    <3> QED BY <2>1, <3>1, <3>2
  <2>4. CASE InitData
    BY <2>1, <2>4, <1>1 DEF InitData, StorageInv, FilesShape
  <2>5. CASE Cleanup
    <3>1. mapped = current /\ g = current
      BY <1>1, <2>5 DEF Cleanup, StorageInv, ProcessShape, InUse
    <3> QED BY <2>1, <2>5, <3>1, <1>1 DEF Cleanup, Without, StorageInv, TypeOK
  <2>6. CASE Purge
    BY <2>1, <2>6, <1>1 DEF Purge, Without, StorageInv, TypeOK
  <2> QED BY <2>2, <2>3, <2>4, <2>5, <2>6
<1>2. StorageInv /\ [Next]_vars =>
         [\A g \in InUse \ {-1} : gens'[g] = gens[g]]_vars
  BY <1>1
<1> QED BY <1>2, Invariant, PTL DEF Spec, GenerationsImmutable

=============================================================================
