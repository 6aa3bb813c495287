--------------------------- MODULE SnapshotProofs ---------------------------
(***************************************************************************)
(* For any number of readers and swaps: refs counts the readers, the       *)
(* current mapping is mapped, and no retired mapping is forgotten.         *)
(***************************************************************************)
EXTENDS Snapshot, FiniteSetTheorems, TLAPS

(***************************************************************************)
(* Snapshots are numbered in order, so a retired one, or one about to be,  *)
(* is never current again.                                                 *)
(***************************************************************************)
Gone == retired \union {s \in {old} : swap # "idle"}
                \union {s \in {last} : closer = "unmap"}

Numbered ==
    /\ current <= opened
    /\ \A s \in Gone : s # current /\ s <= opened
    /\ swap = "test" => old \in retired

SnapshotInv ==
    /\ TypeOK
    /\ RefsCounted
    /\ CurrentMapped
    /\ NoLeak
    /\ Numbered

(***************************************************************************)
(* The readers counted in on one Snapshot are finitely many.               *)
(***************************************************************************)
LEMMA HoldersFinite ==
  ASSUME NEW s \in Snap
  PROVE  IsFiniteSet(Holders(s)) /\ Cardinality(Holders(s)) \in Nat
<1>1. Holders(s) \subseteq Reader
  BY DEF Holders
<1> QED BY <1>1, SnapshotAssumption, FS_Subset, FS_CardinalityType

(***************************************************************************)
(* A step of other fields than refs, by nobody counted in or out, keeps    *)
(* the count.                                                              *)
(***************************************************************************)
LEMMA SameHolders ==
  ASSUME SnapshotInv, refs' = refs,
         \A s \in Snap : Holders(s)' = Holders(s)
  PROVE  RefsCounted'
BY DEF SnapshotInv, RefsCounted

(***************************************************************************)
(* Acquire loads the current Snapshot.                                     *)
(***************************************************************************)
LEMMA LoadKeeps ==
  ASSUME SnapshotInv, NEW r \in Reader, Load(r)
  PROVE  SnapshotInv'
<1>1. TypeOK'
  BY DEF Load, shared, SnapshotInv, TypeOK, Snap, Nil
<1>2. \A s \in Snap : Holders(s)' = Holders(s)
  BY DEF Load, Holders, SnapshotInv, TypeOK
<1>3. RefsCounted'
  BY <1>2, SameHolders DEF Load, shared
<1>4. CurrentMapped' /\ Numbered'
  BY DEF Load, shared, SnapshotInv, CurrentMapped, Numbered, Gone
<1>5. NoLeak'
  BY DEF Load, shared, SnapshotInv, TypeOK, NoLeak
<1> QED BY <1>1, <1>3, <1>4, <1>5 DEF SnapshotInv

(***************************************************************************)
(* Acquire counts itself in, perhaps on a Snapshot retired since.          *)
(***************************************************************************)
LEMMA CountKeeps ==
  ASSUME SnapshotInv, NEW r \in Reader, Count(r)
  PROVE  SnapshotInv'
<1>1. TypeOK'
  BY DEF Count, SnapshotInv, TypeOK, Snap
<1>2. ASSUME NEW s \in Snap, s # held[r] PROVE Holders(s)' = Holders(s)
  BY <1>2 DEF Count, Holders, SnapshotInv, TypeOK
<1>3. Holders(held[r])' = Holders(held[r]) \union {r} /\ r \notin Holders(held[r])
  BY DEF Count, Holders, SnapshotInv, TypeOK
<1>4. held[r] \in Snap
  BY DEF SnapshotInv, TypeOK
<1>5. Cardinality(Holders(held[r])') = Cardinality(Holders(held[r])) + 1
  BY <1>3, <1>4, HoldersFinite, FS_AddElement
<1>6. RefsCounted'
  BY <1>2, <1>4, <1>5 DEF Count, SnapshotInv, TypeOK, RefsCounted
<1>7. CurrentMapped' /\ Numbered'
  BY DEF Count, SnapshotInv, CurrentMapped, Numbered, Gone
<1>8. NoLeak'
  BY DEF Count, SnapshotInv, TypeOK, NoLeak
<1> QED BY <1>1, <1>6, <1>7, <1>8 DEF SnapshotInv

(***************************************************************************)
(* Acquire compares the Snapshot with the current one.                     *)
(***************************************************************************)
LEMMA CheckKeeps ==
  ASSUME SnapshotInv, NEW r \in Reader, Check(r)
  PROVE  SnapshotInv'
<1>1. TypeOK'
  BY DEF Check, shared, SnapshotInv, TypeOK
<1>2. \A s \in Snap : Holders(s)' = Holders(s)
  BY DEF Check, Holders, SnapshotInv, TypeOK
<1>3. RefsCounted'
  BY <1>2, SameHolders DEF Check, shared
<1>4. CurrentMapped' /\ Numbered'
  BY DEF Check, shared, SnapshotInv, CurrentMapped, Numbered, Gone
<1>5. NoLeak'
  BY DEF Check, shared, SnapshotInv, TypeOK, NoLeak
<1> QED BY <1>1, <1>3, <1>4, <1>5 DEF SnapshotInv

(***************************************************************************)
(* What a step of Release leaves of pc and held, and that nobody else is   *)
(* moved.                                                                  *)
(***************************************************************************)
LEMMA DropMoves ==
  ASSUME SnapshotInv, NEW r \in Reader, Drop(r)
  PROVE  /\ held[r] \in Snap /\ r \in Holders(held[r])
         /\ pc'[r] \in {"idle", "retry", "out", "outRetry"}
         /\ refs'[held[r]] = 0 => pc'[r] \in {"out", "outRetry"} /\ held'[r] = held[r]
         /\ \A q \in Reader \ {r} : pc'[q] = pc[q] /\ held'[q] = held[q]
         /\ pc' \in [Reader -> {"idle", "count", "check", "hold", "undo", "retry",
                                "out", "outRetry"}]
         /\ held' \in [Reader -> Snap]
<1>1. 0 \in Snap /\ held \in [Reader -> Snap]
  BY SnapshotAssumption DEF Snap, SnapshotInv, TypeOK
<1>2. Forgotten(r) \in [Reader -> Snap]
      /\ \A q \in Reader \ {r} : Forgotten(r)[q] = held[q]
  BY <1>1 DEF Forgotten
<1>3. held' = Forgotten(r) \/ held' = held
  BY DEF Drop
<1>4. held[r] \in Snap /\ r \in Holders(held[r])
  BY DEF Drop, Holders, SnapshotInv, TypeOK
<1>5. /\ pc'[r] \in {"idle", "retry", "out", "outRetry"}
      /\ refs'[held[r]] = 0 => pc'[r] \in {"out", "outRetry"}
      /\ \A q \in Reader \ {r} : pc'[q] = pc[q]
      /\ pc' \in [Reader -> {"idle", "count", "check", "hold", "undo", "retry",
                             "out", "outRetry"}]
  BY DEF Drop, SnapshotInv, TypeOK
<1>6. refs'[held[r]] = 0 => held'[r] = held[r]
  <2> HAVE refs'[held[r]] = 0
  <2>1. pc'[r] \notin {"idle", "retry"}
    BY <1>5
  <2> QED BY <2>1 DEF Drop
<1>7. \A q \in Reader \ {r} : held'[q] = held[q]
  BY <1>2, <1>3
<1>8. held' \in [Reader -> Snap]
  BY <1>1, <1>2, <1>3
<1> QED BY <1>4, <1>5, <1>6, <1>7, <1>8

(***************************************************************************)
(* Release counts itself out.                                              *)
(***************************************************************************)
LEMMA DropKeeps ==
  ASSUME SnapshotInv, NEW r \in Reader, Drop(r)
  PROVE  SnapshotInv'
<1>1. PICK h \in Snap : h = held[r] /\ r \in Holders(h)
  BY DropMoves
<1>2. ASSUME NEW s \in Snap, s # h PROVE Holders(s)' = Holders(s)
  BY <1>1, <1>2, DropMoves DEF Holders
<1>3. Holders(h)' = Holders(h) \ {r}
  BY <1>1, DropMoves DEF Holders
<1>4. Cardinality(Holders(h)') = Cardinality(Holders(h)) - 1
  BY <1>1, <1>3, HoldersFinite, FS_RemoveElement
<1>5. refs[h] \in Nat /\ refs[h] - 1 \in Nat
  <2>1. Cardinality(Holders(h) \ {r}) \in Nat
    BY <1>1, HoldersFinite, FS_RemoveElement, FS_CardinalityType
  <2> QED BY <1>1, <1>3, <1>4, <2>1 DEF SnapshotInv, TypeOK, RefsCounted
<1>6. /\ refs' = [refs EXCEPT ![h] = @ - 1]
      /\ UNCHANGED <<current, opened, retired, unmapped, swap, old, closer, last>>
  BY <1>1 DEF Drop
<1>7. TypeOK'
  BY <1>5, <1>6, DropMoves DEF SnapshotInv, TypeOK, Snap
<1>8. RefsCounted'
  BY <1>2, <1>4, <1>6 DEF SnapshotInv, TypeOK, RefsCounted
<1>9. CurrentMapped' /\ Numbered'
  BY <1>6 DEF SnapshotInv, CurrentMapped, Numbered, Gone
<1>10. NoLeak'
  <2> SUFFICES ASSUME NEW s \in (retired \ unmapped)'
               PROVE  \/ refs'[s] > 0
                      \/ \E q \in Reader : pc'[q] \in {"out", "outRetry"} /\ held'[q] = s
                      \/ swap' = "test" /\ old' = s
    BY Zenon DEF NoLeak
  <2> s \in retired \ unmapped
    BY <1>6
  <2>1. s \in Snap
    BY DEF SnapshotInv, TypeOK
  <2>2. CASE s = h
    BY <1>1, <1>5, <1>6, <2>2, DropMoves DEF SnapshotInv, TypeOK
  <2>3. CASE s # h
    <3>1. refs'[s] = refs[s]
      BY <1>1, <1>6, <2>1, <2>3 DEF SnapshotInv, TypeOK
    <3>2. pc[r] \notin {"out", "outRetry"}
      BY DEF Drop
    <3> QED BY <1>6, <3>1, <3>2, DropMoves DEF SnapshotInv, NoLeak
  <2> QED BY <2>2, <2>3
<1> QED BY <1>7, <1>8, <1>9, <1>10 DEF SnapshotInv

(***************************************************************************)
(* The reader that brought the count to zero unmaps a retired Snapshot.    *)
(***************************************************************************)
LEMMA LastReaderKeeps ==
  ASSUME SnapshotInv, NEW r \in Reader, LastOut(r)
  PROVE  SnapshotInv'
<1>1. 0 \in Snap
  BY SnapshotAssumption DEF Snap
<1>2. TypeOK'
  BY <1>1 DEF LastOut, Forgotten, SnapshotInv, TypeOK
<1>3. \A s \in Snap : Holders(s)' = Holders(s)
  BY DEF LastOut, Forgotten, Holders, SnapshotInv, TypeOK
<1>4. RefsCounted'
  BY <1>3, SameHolders DEF LastOut
<1>5. CurrentMapped' /\ Numbered'
  BY DEF LastOut, SnapshotInv, CurrentMapped, Numbered, Gone
<1>6. NoLeak'
  BY DEF LastOut, Forgotten, SnapshotInv, TypeOK, NoLeak
<1> QED BY <1>2, <1>4, <1>5, <1>6 DEF SnapshotInv

(***************************************************************************)
(* What the forgotten local variables hold is a Snapshot.                  *)
(***************************************************************************)
LEMMA ZeroIsSnap == 0 \in Snap
BY SnapshotAssumption DEF Snap

(***************************************************************************)
(* The steps of SwapTo and Close touch no reader.                          *)
(***************************************************************************)
LEMMA SwapKeeps ==
  ASSUME SnapshotInv, Install \/ Retire \/ Test \/ CloseTake \/ CloseUnmap
  PROVE  SnapshotInv'
<1>1. \A s \in Snap : Holders(s)' = Holders(s)
  BY DEF Install, Retire, Test, CloseTake, CloseUnmap, Holders
<1>2. RefsCounted'
  BY <1>1, SameHolders DEF Install, Retire, Test, CloseTake, CloseUnmap
<1>3. CASE Install
  <2>1. TypeOK' /\ opened' = opened + 1 /\ opened \in Nat
    BY <1>3, SnapshotAssumption DEF Install, SnapshotInv, TypeOK, Snap, Nil
  <2>2. Numbered'
    <3>1. \A s \in Gone : s \in Nat /\ s <= opened
      BY SnapshotAssumption, SMTT(30) DEF SnapshotInv, TypeOK, Snap, Numbered, Gone
    <3>2. current # Nil => current \in Nat /\ current <= opened
      BY SnapshotAssumption DEF SnapshotInv, TypeOK, Snap, Numbered
    <3>3. \A s \in Gone' : s \in Gone \/ (current # Nil /\ s = current)
      BY <1>3 DEF Install, Gone
    <3>4. \A s \in Gone' : s \in Nat /\ s <= opened
      BY <3>1, <3>2, <3>3
    <3>5. current' = opened' /\ swap' # "test"
      BY <1>3 DEF Install
    <3> QED BY <2>1, <3>4, <3>5 DEF Numbered
  <2>3. CurrentMapped'
    BY <1>3, <2>2 DEF Install, SnapshotInv, CurrentMapped, Numbered, Gone
  <2>4. NoLeak'
    BY <1>3 DEF Install, SnapshotInv, NoLeak
  <2> QED BY <1>2, <2>1, <2>2, <2>3, <2>4 DEF SnapshotInv
<1>4. CASE Retire
  BY <1>2, <1>4 DEF Retire, SnapshotInv, TypeOK, CurrentMapped, Numbered, Gone, NoLeak
<1>5. CASE Test
  BY <1>2, <1>5, ZeroIsSnap DEF Test, SnapshotInv, TypeOK, CurrentMapped, Numbered, Gone, NoLeak
<1>6. CASE CloseTake
  <2>1. TypeOK' /\ NoLeak'
    BY <1>6 DEF CloseTake, SnapshotInv, TypeOK, NoLeak
  <2>2. Gone \subseteq Snap /\ Nil \notin Snap /\ current \in Snap
    <3>1. Gone \subseteq Snap
      BY DEF SnapshotInv, TypeOK, Gone
    <3>2. Nil \notin Snap
      BY SnapshotAssumption DEF Snap, Nil
    <3>3. current \in Snap
      BY <1>6 DEF CloseTake, SnapshotInv, TypeOK
    <3> QED BY <3>1, <3>2, <3>3
  <2>3. \A s \in Gone' : s \in Gone \/ s = current
    BY <1>6 DEF CloseTake, Gone
  <2>4. \A s \in Gone' : s # current' /\ s <= opened'
    BY <1>6, <2>2, <2>3 DEF CloseTake, SnapshotInv, Numbered
  <2>5. current' <= opened' /\ (swap' = "test" => old' \in retired')
    BY <1>6, SnapshotAssumption DEF CloseTake, SnapshotInv, TypeOK, Snap, Nil, Numbered
  <2>6. CurrentMapped'
    BY <1>6, <2>2 DEF CloseTake, SnapshotInv, TypeOK, CurrentMapped
  <2> QED BY <1>2, <2>1, <2>4, <2>5, <2>6 DEF SnapshotInv, Numbered
<1>7. CASE CloseUnmap
  BY <1>2, <1>7, ZeroIsSnap DEF CloseUnmap, SnapshotInv, TypeOK, CurrentMapped, Numbered, Gone, NoLeak
<1> QED BY <1>3, <1>4, <1>5, <1>6, <1>7

(***************************************************************************)
(* The invariant holds of the first mapping.                               *)
(***************************************************************************)
LEMMA InitHolds == Init => SnapshotInv
<1> SUFFICES ASSUME Init PROVE SnapshotInv
  OBVIOUS
<1>1. TypeOK
  BY SnapshotAssumption DEF Init, TypeOK, Snap
<1>2. \A s \in Snap : Holders(s) = {}
  BY DEF Init, Holders
<1>3. RefsCounted
  BY <1>2, FS_EmptySet DEF Init, RefsCounted
<1>4. CurrentMapped /\ NoLeak /\ Numbered
  BY DEF Init, CurrentMapped, NoLeak, Numbered, Gone
<1> QED BY <1>1, <1>3, <1>4 DEF SnapshotInv

(***************************************************************************)
(* The inductive invariant, for every set of readers, number of swaps and  *)
(* grace period: counting (RefsCounted) with the order Snapshots are       *)
(* opened in (Numbered) is what the other properties rest on.              *)
(***************************************************************************)
THEOREM Invariant == Spec => []SnapshotInv
<1>1. Init => SnapshotInv
  BY InitHolds
<1>2. SnapshotInv /\ [Next]_vars => SnapshotInv'
  <2> SUFFICES ASSUME SnapshotInv, [Next]_vars PROVE SnapshotInv'
    OBVIOUS
  <2>1. ASSUME NEW r \in Reader, Load(r) \/ Leave(r) PROVE SnapshotInv'
    BY <2>1, LoadKeeps, CountKeeps, CheckKeeps, DropKeeps, LastReaderKeeps DEF Leave
  <2>2. CASE Install \/ Retire \/ Test \/ CloseTake \/ CloseUnmap
    BY <2>2, SwapKeeps
  <2>3. CASE UNCHANGED vars
    <3>1. \A s \in Snap : Holders(s)' = Holders(s)
      BY <2>3 DEF vars, Holders
    <3>2. RefsCounted'
      BY <2>3, <3>1, SameHolders DEF vars, shared
    <3> QED BY <2>3, <3>2 DEF vars, shared, SnapshotInv, TypeOK, CurrentMapped, NoLeak, Numbered, Gone
  <2> QED BY <2>1, <2>2, <2>3 DEF Next
<1> QED BY <1>1, <1>2, PTL DEF Spec

(***************************************************************************)
(* refs is the number of readers between their increment and their         *)
(* decrement, under any interleaving.                                      *)
(***************************************************************************)
THEOREM ReadersAreCounted == Spec => []RefsCounted
<1>1. SnapshotInv => RefsCounted
  BY DEF SnapshotInv
<1> QED BY <1>1, Invariant, PTL

(***************************************************************************)
(* Neither a last reader nor SwapTo ever unmaps the generation new readers *)
(* are given.                                                              *)
(***************************************************************************)
THEOREM CurrentStaysMapped == Spec => []CurrentMapped
<1>1. SnapshotInv => CurrentMapped
  BY DEF SnapshotInv
<1> QED BY <1>1, Invariant, PTL

(***************************************************************************)
(* Whichever of the last reader and SwapTo looks last, it sees that the    *)
(* mapping is to go.                                                       *)
(***************************************************************************)
THEOREM MappingsDoNotLeak == Spec => []NoLeak
<1>1. SnapshotInv => NoLeak
  BY DEF SnapshotInv
<1> QED BY <1>1, Invariant, PTL
=============================================================================
