---------------------------- MODULE EngineProofs ----------------------------
(***************************************************************************)
(* For any number of requests, classes, objects, checkpoints and restarts: *)
(* reads return what is durable, writes fit what they were checked         *)
(* against, and the engine is a store that serves one request at a time.   *)
(***************************************************************************)
EXTENDS Engine, SequenceTheorems, WellFoundedInduction, TLAPS

(***************************************************************************)
(* The clients the theorems are about (Alone in Engine): serial ones do    *)
(* not write the same object, or to a class that another creates or drops, *)
(* at the same time.  Checkpoints run at any time.                         *)
(***************************************************************************)
Serial == {"classes", "objects"} \subseteq Alone

-----------------------------------------------------------------------------
(***************************************************************************)
(* The inductive invariant.                                                *)
(*                                                                         *)
(* The log lies above the generation and ends with the last TxID.          *)
(***************************************************************************)
TxShape ==
    /\ \A i \in DOMAIN log : applied < log[i].tx /\ log[i].tx <= nextTx
    /\ \A i, j \in DOMAIN log : i < j => log[i].tx < log[j].tx
    /\ applied <= nextTx
    /\ LastTx(applied, log) = nextTx

(***************************************************************************)
(* The operation of a request, by the step it is at, and the ids it has.   *)
(***************************************************************************)
ObjectOps == Updates \union {"create"}
SingleOps == Updates \union {"get"}

StepOps(at) ==
    CASE at = "assign" -> {"create"}
      [] at \in {"lookup", "snap"} -> SingleOps
      [] at \in {"scan", "merge"} -> {"dropClass", "query"}
      [] at \in {"submit", "publish"} -> ClassOps \union ObjectOps
      [] at = "register" -> ClassOps
      [] at = "forget" -> {"dropClass"}
      [] at = "answered" -> Reads
      [] OTHER -> {"none"}

StepOK(q) ==
    /\ q.op \in StepOps(q.at)
    /\ q.op \in SingleOps => \E i \in Id : q.ids = {i}
    /\ q.op = "create" /\ q.at # "assign" => q.ids # {}

\* All that types need, and all that holds of any clients.
Typed == TypeOK /\ \A c \in Client : StepOK(client[c])

(***************************************************************************)
(* Requests in progress write apart, and only to ids that were assigned.   *)
(***************************************************************************)
Writes(q) == q.op \in ClassOps \union ObjectOps

Apart(p, q) ==
    Writes(p) /\ Writes(q) /\ p.class = q.class =>
        /\ p.op \in ObjectOps /\ q.op \in ObjectOps
        /\ p.ids \cap q.ids = {}

Numbered(q) == q.op \in ObjectOps => \A i \in q.ids : i <= counters[q.class]

(***************************************************************************)
(* A record that has not come to the overlay governs its keys.             *)
(***************************************************************************)
Live(q) == q.op \notin {"delete", "dropClass"}
EntryOf(q) == [tx |-> q.tx, live |-> Live(q)]

InLog(k, e) ==
    \E i \in DOMAIN log : /\ log[i].tx = e.tx /\ log[i].live = e.live
                          /\ k \in log[i].keys

PendingOK(q) ==
    q.at = "publish" =>
        /\ q.tx \in 1 .. nextTx
        /\ \A k \in KeysOf(q) :
              /\ Committed[k] = ValueOf(EntryOf(q))
              /\ \A i \in DOMAIN log : k \in log[i].keys => log[i].tx <= q.tx
              /\ q.tx > applied => InLog(k, EntryOf(q))

(***************************************************************************)
(* Every record of the log is in the overlay, itself or a later one, or    *)
(* about to be; an entry that is not folded is in the log; one that is     *)
(* agrees with the generation, or a record about to be in the overlay does.*)
(***************************************************************************)
Publishing(c, k) == client[c].at = "publish" /\ k \in KeysOf(client[c])

OverlayOK(k) ==
    /\ overlay[k].tx <= nextTx
    /\ overlay[k].tx = 0 => overlay[k] = NoEntry
    /\ \A i \in DOMAIN log : k \in log[i].keys =>
          \/ log[i].tx <= overlay[k].tx
          \/ \E c \in Client : Publishing(c, k) /\ client[c].tx = log[i].tx
    /\ overlay[k].tx > applied => InLog(k, overlay[k])
    /\ overlay[k].tx \in 1 .. applied =>
          \/ base[k] = ValueOf(overlay[k])
          \/ base[k] = Committed[k]

(***************************************************************************)
(* The class set is the durable one, but for a class request in progress;  *)
(* a class in which objects are written is there.                          *)
(***************************************************************************)
ClassAgrees(class) == (class \in classes) <=> (Committed[class] # 0)

Busy(class) ==
    \E c \in Client : client[c].op \in ClassOps /\ client[c].class = class

ClassOK(q) ==
    /\ q.op \in ObjectOps => Committed[q.class] # 0 /\ q.class \in classes
    /\ q.op = "createClass" =>
          /\ q.class \notin classes
          /\ (q.at = "submit") <=> (Committed[q.class] = 0)
    /\ q.op = "dropClass" =>
          /\ (q.at = "forget") <=> (q.class \notin classes)
          /\ (q.at \in {"scan", "merge", "submit"}) <=> (Committed[q.class] # 0)

(***************************************************************************)
(* What a get finds was current while it ran: what it may still find in    *)
(* the overlay, then what it may find in the generation, and the answer.   *)
(***************************************************************************)
ReadOK(q) ==
    q.op = "get" =>
        \A i \in q.ids :
            /\ q.at \in {"lookup", "snap"} => <<i, Committed[<<q.class, i>>]>> \in q.seen
            /\ q.at = "lookup" => <<i, Visible(<<q.class, i>>)>> \in q.seen
            /\ q.at = "snap" =>
                  /\ <<i, base[<<q.class, i>>]>> \in q.seen
                  /\ \A n \in DOMAIN log : <<q.class, i>> \in log[n].keys =>
                        <<i, ValueOf(log[n])>> \in q.seen
            /\ q.at = "answered" => <<i, q.list[i]>> \in q.seen

RequestsOK ==
    \A c \in Client : /\ StepOK(client[c]) /\ Numbered(client[c])
                      /\ PendingOK(client[c])
                      /\ ClassOK(client[c]) /\ ReadOK(client[c])

AloneOK == \A c, d \in Client : c # d => Apart(client[c], client[d])
OverlaysOK == \A k \in Key : OverlayOK(k)
ClassesAgree == \A class \in Class : ~Busy(class) => ClassAgrees(class)

EngineInv ==
    /\ TypeOK /\ TxShape /\ RequestsOK /\ AloneOK /\ OverlaysOK
    /\ OverlayCurrent /\ ClassesAgree

(***************************************************************************)
(* Until a drop is overtaken: the id generator is past every object; a     *)
(* class is empty from the moment its drop has found it so (a drop that    *)
(* has scanned the generation before the last one finds in the overlay     *)
(* what was folded since); what is about to be written is as it was found. *)
(***************************************************************************)
Empty(class) == \A i \in Id : Committed[<<class, i>>] = 0

IdsPassed ==
    \A class \in Class, i \in Id :
        Committed[<<class, i>>] # 0 => i <= counters[class]

FitOK(q) ==
    /\ q.op = "dropClass" =>
          /\ q.at = "merge" => \A i \in Id : \/ q.list[i] = base[<<q.class, i>>]
                                            \/ overlay[<<q.class, i>>] # NoEntry
          /\ q.at \notin {"scan", "merge"} => Empty(q.class)
    /\ q.op = "create" /\ q.at \in {"assign", "submit"} =>
          \A i \in q.ids : Committed[<<q.class, i>>] = 0
    /\ q.op \in Updates /\ q.at = "snap" =>
          \A i \in q.ids, n \in DOMAIN log : <<q.class, i>> \notin log[n].keys
    /\ q.op \in Updates /\ q.at = "submit" =>
          \A i \in q.ids : Committed[<<q.class, i>>] # 0

OrderlyInv == NoOrphans /\ IdsPassed /\ \A c \in Client : FitOK(client[c])

-----------------------------------------------------------------------------
\* The pairs of numbers by which Nat is well-founded.
Below == {s \in Nat \X Nat : s[1] < s[2]}

(***************************************************************************)
(* A non-empty set of numbers up to n has a greatest one.                  *)
(***************************************************************************)
LEMMA Greatest ==
  ASSUME NEW n \in Nat, NEW S \in SUBSET (0 .. n), S # {}
  PROVE  Max(S) \in S /\ \A j \in S : j <= Max(S)
<1> DEFINE T == {n - i : i \in S}
<1>1. IsWellFoundedOn(Below, Nat)
  BY NatLessThanWellFounded DEF OpToRel, Below
<1>2. \A i \in S : i \in Nat /\ n - i \in Nat
  OBVIOUS
<1>3. T \subseteq Nat /\ T # {}
  BY <1>2
<1>4. PICK t \in T : \A y \in T : <<y, t>> \notin Below
  <2> HIDE DEF T
  <2> QED BY <1>1, <1>3, WFMin
<1>5. PICK m \in S : t = n - m
  BY <1>4
<1>6. ASSUME NEW j \in S PROVE m >= j
  <2>1. <<n - j, t>> \notin Below /\ n - j \in Nat /\ t \in Nat
    BY <1>2, <1>3, <1>4
  <2>2. ~(n - j < t)
    BY <2>1 DEF Below
  <2> QED BY <1>2, <1>5, <2>2
<1>7. Max(S) \in S /\ \A j \in S : Max(S) >= j
  BY <1>6 DEF Max
<1> QED BY <1>2, <1>7

-----------------------------------------------------------------------------
(***************************************************************************)
(* The content after a log, key by key.                                    *)
(***************************************************************************)
LEMMA RecordType ==
  ASSUME NEW recs \in Seq(Record)
  PROVE  /\ Len(recs) \in Nat /\ DOMAIN recs = 1 .. Len(recs)
         /\ \A i \in DOMAIN recs :
               /\ recs[i] \in Record
               /\ recs[i].tx \in Nat \ {0} /\ recs[i].live \in BOOLEAN
               /\ recs[i].keys \subseteq Key /\ recs[i].keys # {}
               /\ ValueOf(recs[i]) \in Nat
<1>1. Len(recs) \in Nat /\ DOMAIN recs = 1 .. Len(recs)
  OBVIOUS
<1>2. \A i \in DOMAIN recs : recs[i] \in Record
  OBVIOUS
<1> QED BY <1>1, <1>2 DEF Record, ValueOf

\* A key no record has keeps its value.
LEMMA AppliedNone ==
  ASSUME NEW content \in [Key -> Nat], NEW recs \in Seq(Record), NEW k \in Key,
         \A i \in DOMAIN recs : k \notin recs[i].keys
  PROVE  /\ Applied(content, recs)[k] = content[k]
         /\ LastOf(recs, k, NoEntry) = NoEntry
BY DEF Applied, LastOf

\* The last record that has a key gives it its value.
LEMMA AppliedLast ==
  ASSUME NEW content \in [Key -> Nat], NEW recs \in Seq(Record), NEW k \in Key,
         NEW i \in DOMAIN recs, k \in recs[i].keys,
         \A j \in DOMAIN recs : k \in recs[j].keys => j <= i
  PROVE  /\ Applied(content, recs)[k] = ValueOf(recs[i])
         /\ LastOf(recs, k, NoEntry) = [tx |-> recs[i].tx, live |-> recs[i].live]
<1> DEFINE W == {j \in DOMAIN recs : k \in recs[j].keys}
<1>1. /\ Len(recs) \in Nat /\ DOMAIN recs = 1 .. Len(recs)
      /\ recs[i].tx \in Nat \ {0}
  BY RecordType
<1>2. W \in SUBSET (0 .. Len(recs)) /\ W # {}
  BY <1>1
<1>3. Max(W) \in W /\ \A j \in W : j <= Max(W)
  <2> HIDE DEF W
  <2> QED BY <1>1, <1>2, Greatest
<1>4. Max(W) = i
  <2>1. i \in W /\ Max(W) <= i /\ i <= Max(W)
    BY <1>3
  <2>2. i \in Int /\ Max(W) \in Int
    BY <1>1, <1>2, <1>3
  <2> HIDE DEF W
  <2> QED BY <2>1, <2>2
<1>5. LastOf(recs, k, NoEntry) = [tx |-> recs[i].tx, live |-> recs[i].live]
  BY <1>2, <1>4 DEF LastOf
<1>6. LastOf(recs, k, NoEntry) # NoEntry
  BY <1>1, <1>5 DEF NoEntry
<1> QED BY <1>5, <1>6 DEF Applied, ValueOf

\* One of the two is the case.
LEMMA LastRecord ==
  ASSUME NEW recs \in Seq(Record), NEW k \in Key
  PROVE  \/ \A i \in DOMAIN recs : k \notin recs[i].keys
         \/ \E i \in DOMAIN recs : /\ k \in recs[i].keys
                                   /\ \A j \in DOMAIN recs :
                                         k \in recs[j].keys => j <= i
<1> DEFINE W == {j \in DOMAIN recs : k \in recs[j].keys}
<1>1. Len(recs) \in Nat /\ DOMAIN recs = 1 .. Len(recs)
  BY RecordType
<1>2. W # {} => Max(W) \in W /\ \A j \in W : j <= Max(W)
  <2>1. W \in SUBSET (0 .. Len(recs))
    BY <1>1
  <2> HIDE DEF W
  <2> QED BY <1>1, <2>1, Greatest
<1>3. CASE W = {}
  BY <1>3
<1>4. CASE W # {}
  BY <1>2, <1>4
<1> QED BY <1>3, <1>4

\* Records applied to stored objects give stored objects.
LEMMA AppliedType ==
  ASSUME NEW content \in [Key -> Nat], NEW recs \in Seq(Record)
  PROVE  Applied(content, recs) \in [Key -> Nat]
<1>1. ASSUME NEW k \in Key PROVE Applied(content, recs)[k] \in Nat
  <2>1. CASE \A i \in DOMAIN recs : k \notin recs[i].keys
    BY <2>1, AppliedNone
  <2>2. CASE \E i \in DOMAIN recs : /\ k \in recs[i].keys
                                   /\ \A j \in DOMAIN recs : k \in recs[j].keys => j <= i
    BY <2>2, AppliedLast, RecordType
  <2> QED BY <2>1, <2>2, LastRecord
<1>2. Applied(content, recs) = [k \in Key |-> Applied(content, recs)[k]]
  BY DEF Applied
<1> QED BY <1>1, <1>2

\* One more record changes the values of its keys.
LEMMA AppliedAppend ==
  ASSUME NEW content \in [Key -> Nat], NEW recs \in Seq(Record), NEW r \in Record,
         NEW k \in Key
  PROVE  Applied(content, Append(recs, r))[k] =
            IF k \in r.keys THEN ValueOf(r) ELSE Applied(content, recs)[k]
<1> DEFINE more == Append(recs, r)
<1>1. /\ more \in Seq(Record) /\ DOMAIN more = 1 .. Len(recs) + 1
      /\ DOMAIN recs = 1 .. Len(recs) /\ Len(recs) \in Nat
      /\ \A i \in 1 .. Len(recs) : more[i] = recs[i]
      /\ more[Len(recs) + 1] = r
  OBVIOUS
<1> HIDE DEF more
<1>2. CASE k \in r.keys
  <2>1. \A j \in DOMAIN more : k \in more[j].keys => j <= Len(recs) + 1
    BY <1>1
  <2>2. Applied(content, more)[k] = ValueOf(more[Len(recs) + 1])
    BY <1>1, <1>2, <2>1, AppliedLast
  <2> QED BY <1>1, <1>2, <2>2 DEF more
<1>3. CASE k \notin r.keys
  <2>1. CASE \A i \in DOMAIN recs : k \notin recs[i].keys
    <3>1. \A i \in DOMAIN more : k \notin more[i].keys
      BY <1>1, <1>3, <2>1
    <3>2. Applied(content, more)[k] = content[k]
      BY <1>1, <3>1, AppliedNone
    <3> QED BY <1>3, <2>1, <3>2, AppliedNone DEF more
  <2>2. ASSUME NEW i \in DOMAIN recs, k \in recs[i].keys,
               \A j \in DOMAIN recs : k \in recs[j].keys => j <= i
        PROVE  Applied(content, more)[k] = Applied(content, recs)[k]
    <3>1. /\ i \in DOMAIN more /\ k \in more[i].keys /\ more[i] = recs[i]
          /\ \A j \in DOMAIN more : k \in more[j].keys => j <= i
      BY <1>1, <1>3, <2>2
    <3>2. Applied(content, more)[k] = ValueOf(more[i])
      BY <1>1, <3>1, AppliedLast
    <3> QED BY <2>2, <3>1, <3>2, AppliedLast
  <2> QED BY <1>3, <2>1, <2>2, LastRecord DEF more
<1> QED BY <1>2, <1>3

(***************************************************************************)
(* A log may be folded up to any record, and the rest replayed over that.  *)
(***************************************************************************)
LEMMA CutProperties ==
  ASSUME NEW recs \in Seq(Record), NEW n \in 0 .. Len(recs)
  PROVE  LET pre == SubSeq(recs, 1, n)
             suf == SubSeq(recs, n + 1, Len(recs))
         IN  /\ pre \in Seq(Record) /\ Len(pre) = n /\ DOMAIN pre = 1 .. n
             /\ suf \in Seq(Record) /\ Len(suf) = Len(recs) - n
             /\ DOMAIN suf = 1 .. Len(recs) - n
             /\ \A i \in 1 .. n : i \in DOMAIN recs /\ pre[i] = recs[i]
             /\ \A i \in 1 .. Len(recs) - n : n + i \in DOMAIN recs /\ suf[i] = recs[n + i]
             /\ \A i \in DOMAIN recs : i > n => i - n \in DOMAIN suf /\ suf[i - n] = recs[i]
             /\ \A i \in DOMAIN recs : i <= n => i \in DOMAIN pre /\ pre[i] = recs[i]
OBVIOUS

\* Applying a log is applying its first records, then the others: what a checkpoint does.
LEMMA AppliedCut ==
  ASSUME NEW content \in [Key -> Nat], NEW recs \in Seq(Record),
         NEW n \in 0 .. Len(recs)
  PROVE  Applied(Applied(content, SubSeq(recs, 1, n)), SubSeq(recs, n + 1, Len(recs)))
            = Applied(content, recs)
<1> DEFINE pre == SubSeq(recs, 1, n)
           suf == SubSeq(recs, n + 1, Len(recs))
<1>1. /\ pre \in Seq(Record) /\ DOMAIN pre = 1 .. n
      /\ suf \in Seq(Record) /\ DOMAIN suf = 1 .. Len(recs) - n
      /\ \A i \in 1 .. n : i \in DOMAIN recs /\ pre[i] = recs[i]
      /\ \A i \in 1 .. Len(recs) - n : n + i \in DOMAIN recs /\ suf[i] = recs[n + i]
      /\ \A i \in DOMAIN recs : i > n => i - n \in DOMAIN suf /\ suf[i - n] = recs[i]
      /\ \A i \in DOMAIN recs : i <= n => i \in DOMAIN pre /\ pre[i] = recs[i]
  BY CutProperties
<1>2. DOMAIN recs = 1 .. Len(recs) /\ Len(recs) \in Nat /\ n \in Nat
  OBVIOUS
<1> HIDE DEF pre, suf
<1>3. Applied(content, pre) \in [Key -> Nat]
  BY <1>1, AppliedType
<1>4. ASSUME NEW k \in Key
      PROVE  Applied(Applied(content, pre), suf)[k] = Applied(content, recs)[k]
  <2>1. CASE \A i \in DOMAIN recs : k \notin recs[i].keys
    <3>1. /\ \A i \in DOMAIN pre : k \notin pre[i].keys
          /\ \A i \in DOMAIN suf : k \notin suf[i].keys
      BY <1>1, <2>1
    <3>2. /\ Applied(Applied(content, pre), suf)[k] = Applied(content, pre)[k]
          /\ Applied(content, pre)[k] = content[k]
      BY <1>1, <1>3, <3>1, AppliedNone
    <3> QED BY <2>1, <3>2, AppliedNone
  <2>2. ASSUME NEW i \in DOMAIN recs, k \in recs[i].keys,
               \A j \in DOMAIN recs : k \in recs[j].keys => j <= i
        PROVE  Applied(Applied(content, pre), suf)[k] = Applied(content, recs)[k]
    <3>1. Applied(content, recs)[k] = ValueOf(recs[i])
      BY <2>2, AppliedLast
    <3>2. CASE i > n
      <4>0. i \in Nat /\ i - n \in DOMAIN suf /\ suf[i - n] = recs[i]
        BY <1>1, <1>2, <3>2
      <4>1. ASSUME NEW j \in DOMAIN suf, k \in suf[j].keys PROVE j <= i - n
        <5>1. j \in Nat /\ n + j \in DOMAIN recs /\ suf[j] = recs[n + j]
          BY <1>1
        <5>2. n + j <= i
          BY <2>2, <4>1, <5>1
        <5> QED BY <1>2, <4>0, <5>1, <5>2
      <4>2. Applied(Applied(content, pre), suf)[k] = ValueOf(suf[i - n])
        BY <1>1, <1>3, <2>2, <4>0, <4>1, AppliedLast
      <4> QED BY <3>1, <4>0, <4>2
    <3>3. CASE i <= n
      <4>1. ASSUME NEW j \in DOMAIN suf, k \in suf[j].keys PROVE FALSE
        <5>1. j \in 1 .. Len(recs) - n /\ n + j \in DOMAIN recs /\ suf[j] = recs[n + j]
          BY <1>1
        <5>2. n + j <= i
          BY <2>2, <4>1, <5>1
        <5> QED BY <1>2, <3>3, <5>1, <5>2
      <4>2. /\ i \in DOMAIN pre /\ pre[i] = recs[i]
            /\ \A j \in DOMAIN pre : k \in pre[j].keys => j <= i
        BY <1>1, <2>2, <3>3
      <4>3. Applied(content, pre)[k] = ValueOf(recs[i])
        <5>1. pre \in Seq(Record) /\ k \in pre[i].keys
          BY <1>1, <2>2, <4>2
        <5>2. Applied(content, pre)[k] = ValueOf(pre[i])
          BY <4>2, <5>1, AppliedLast
        <5> QED BY <4>2, <5>2
      <4> QED BY <1>1, <1>3, <3>1, <4>1, <4>3, AppliedNone, ZenonT(40)
    <3> QED BY <1>2, <3>2, <3>3
  <2> QED BY <2>1, <2>2, LastRecord
<1>5. /\ Applied(Applied(content, pre), suf) \in [Key -> Nat]
      /\ Applied(content, recs) \in [Key -> Nat]
  BY <1>1, <1>3, AppliedType
<1> QED BY <1>4, <1>5 DEF pre, suf

-----------------------------------------------------------------------------
(***************************************************************************)
(* Keys: those of a class and those of its objects differ, and requests    *)
(* that write apart have no key in common.                                 *)
(***************************************************************************)
LEMMA KeyTypes ==
  /\ Id \subseteq Nat /\ Class # {} /\ Class \cap Object = {}
  /\ Class \subseteq Key /\ Object \subseteq Key
  /\ \A class \in Class, i \in Id : <<class, i>> \in Object
BY EngineAssumption DEF EngineAssumption, Key, Object, Id

\* The keys a request writes: its class, or its objects.
LEMMA KeysType ==
  ASSUME NEW q \in Request
  PROVE  /\ KeysOf(q) \subseteq Key
         /\ q.op \in ClassOps => KeysOf(q) = {q.class}
         /\ q.op \notin ClassOps => KeysOf(q) = {<<q.class, i>> : i \in q.ids}
         /\ q.op \notin ClassOps => KeysOf(q) \subseteq Object
         /\ q.class \in Class /\ q.ids \subseteq Id
<1>1. q.class \in Class /\ q.ids \subseteq Id
  BY DEF Request
<1>2. {q.class} \X q.ids = {<<q.class, i>> : i \in q.ids}
  OBVIOUS
<1> QED BY <1>1, <1>2, KeyTypes DEF KeysOf

\* Requests that write apart write different keys.
LEMMA KeysApart ==
  ASSUME NEW p \in Request, NEW q \in Request, Writes(p), Writes(q), Apart(p, q)
  PROVE  KeysOf(p) \cap KeysOf(q) = {}
<1>1. CASE p.op \in ClassOps /\ q.op \in ClassOps
  BY <1>1, KeysType DEF Apart, ClassOps, ObjectOps, Updates
<1>2. CASE p.op \in ClassOps /\ q.op \notin ClassOps
  BY <1>2, KeysType, KeyTypes
<1>3. CASE p.op \notin ClassOps /\ q.op \in ClassOps
  BY <1>3, KeysType, KeyTypes
<1>4. CASE p.op \notin ClassOps /\ q.op \notin ClassOps
  BY <1>4, KeysType DEF Apart
<1> QED BY <1>1, <1>2, <1>3, <1>4

\* What is durable, and what is visible, is a value at every key.
LEMMA CommittedType ==
  ASSUME TypeOK
  PROVE  /\ Committed \in [Key -> Nat]
         /\ log \in Seq(Record) /\ base \in [Key -> Nat]
         /\ \A k \in Key : Committed[k] \in Nat /\ Visible(k) \in Nat
<1>1. Committed \in [Key -> Nat] /\ log \in Seq(Record) /\ base \in [Key -> Nat]
  BY AppliedType DEF TypeOK, Committed
<1>2. ASSUME NEW k \in Key PROVE Visible(k) \in Nat
  <2>1. overlay[k] \in Entry /\ base[k] \in Nat
    BY DEF TypeOK
  <2> QED BY <2>1 DEF Entry, Visible, ValueOf
<1> QED BY <1>1, <1>2

\* A client without a request.
LEMMA IdleType == Idle \in Request /\ Idle.op = "none" /\ Idle.at = "idle"
<1>1. (CHOOSE c \in Class : TRUE) \in Class
  BY KeyTypes
<1>2. [i \in Id |-> 0] \in [Id -> Nat]
  OBVIOUS
<1> QED BY <1>1, <1>2 DEF Idle, Request

(***************************************************************************)
(* No record, no request: the invariant holds when the engine opens.       *)
(***************************************************************************)
LEMMA InitHolds == Init => EngineInv /\ OrderlyInv
<1> SUFFICES ASSUME Init PROVE EngineInv /\ OrderlyInv
  OBVIOUS
<1>1. /\ log = <<>> /\ log \in Seq(Record) /\ DOMAIN log = {} /\ Len(log) = 0
      /\ base = [k \in Key |-> 0] /\ base \in [Key -> Nat]
  BY DEF Init
<1>2. \A k \in Key : Committed[k] = 0 /\ base[k] = 0 /\ overlay[k] = NoEntry
  BY <1>1, AppliedNone DEF Init, Committed
<1>3. \A c \in Client : /\ client[c] \in Request /\ client[c].op = "none"
                        /\ client[c].at = "idle"
  BY IdleType DEF Init
<1>4. TypeOK
  <2>1. overlay \in [Key -> Entry]
    BY DEF Init, Entry, NoEntry
  <2>2. client \in [Client -> Request]
    BY IdleType DEF Init
  <2>3. overtaken \in BOOLEAN
    BY DEF Init
  <2> QED BY <1>1, <2>1, <2>2, <2>3 DEF Init, TypeOK
<1>5. TxShape
  BY <1>1 DEF Init, TxShape, LastTx
<1>6. RequestsOK
  BY <1>3 DEF RequestsOK, StepOK, Numbered, PendingOK, ClassOK, ReadOK, StepOps,
     ObjectOps, SingleOps, Updates
<1>7. AloneOK
  BY <1>3 DEF AloneOK, Apart, Writes, ClassOps, ObjectOps, Updates
<1>8. OverlaysOK
  BY <1>1, <1>2 DEF Init, OverlaysOK, OverlayOK, NoEntry
<1>9. OverlayCurrent
  BY <1>2 DEF OverlayCurrent, Visible
<1>10. ClassesAgree
  BY <1>2, KeyTypes DEF Init, ClassesAgree, ClassAgrees
<1>11. NoOrphans /\ IdsPassed
  BY <1>2, KeyTypes DEF NoOrphans, IdsPassed
<1>12. \A c \in Client : FitOK(client[c])
  BY <1>3 DEF FitOK, Updates
<1> QED BY <1>4, <1>5, <1>6, <1>7, <1>8, <1>9, <1>10, <1>11, <1>12
        DEF EngineInv, OrderlyInv

-----------------------------------------------------------------------------
\* What a step of one request that writes nothing leaves alone.
SameStore == UNCHANGED <<log, base, applied, nextTx, overlay, classes, ck, cut, overtaken>>

(***************************************************************************)
(* A step of one request that writes nothing: what the others, the log and *)
(* the overlay need stays, so it is enough to look at the request itself.  *)
(***************************************************************************)
LEMMA LocalStep ==
  ASSUME EngineInv, NEW c \in Client, NEW q \in Request,
         SameStore, client' = [client EXCEPT ![c] = q],
         \/ UNCHANGED counters /\ Numbered(q)
         \/ counters' \in [Class -> Nat] /\ \A d \in Client : Numbered(client[d])',
         client[c].at # "publish", q.at # "publish",
         StepOK(q), ClassOK(q), ReadOK(q),
         \A d \in Client \ {c} : Apart(q, client[d]) /\ Apart(client[d], q),
         client[c].op \in ClassOps => \/ q.op \in ClassOps /\ q.class = client[c].class
                                     \/ ClassAgrees(client[c].class)
  PROVE  EngineInv'
<1>1. /\ client' \in [Client -> Request] /\ client'[c] = q
      /\ \A d \in Client \ {c} : client'[d] = client[d]
  BY DEF EngineInv, TypeOK
<1>2. Committed' = Committed /\ \A k : Visible(k)' = Visible(k)
  BY DEF SameStore, Committed, Visible
<1>3. TypeOK'
  BY <1>1 DEF EngineInv, TypeOK, SameStore
<1>4. TxShape'
  BY DEF EngineInv, TxShape, SameStore
<1>5. RequestsOK'
  <2> SUFFICES ASSUME NEW d \in Client
               PROVE  (/\ StepOK(client[d]) /\ Numbered(client[d])
                       /\ PendingOK(client[d])
                       /\ ClassOK(client[d]) /\ ReadOK(client[d]))'
    BY DEF RequestsOK
  <2>0. Numbered(client[d])'
    BY <1>1 DEF Numbered, EngineInv, RequestsOK
  <2>1. CASE d = c
    <3>1. StepOK(client[d])' /\ Numbered(client[d])' /\ PendingOK(client[d])'
      BY <1>1, <2>0, <2>1 DEF StepOK, PendingOK
    <3>2. ClassOK(client[d])' /\ ReadOK(client[d])'
      BY <1>1, <1>2, <2>1 DEF ClassOK, ReadOK, SameStore
    <3> QED BY <3>1, <3>2
  <2>2. CASE d # c
    <3>1. client'[d] = client[d]
      BY <1>1, <2>2
    <3>2. /\ StepOK(client[d]) /\ Numbered(client[d]) /\ PendingOK(client[d])
          /\ ClassOK(client[d]) /\ ReadOK(client[d])
      BY DEF EngineInv, RequestsOK
    <3>3. StepOK(client[d])' /\ Numbered(client[d])' /\ PendingOK(client[d])'
      BY <1>2, <2>0, <3>1, <3>2 DEF StepOK, PendingOK, SameStore, InLog
    <3>4. ClassOK(client[d])'
      BY <1>2, <3>1, <3>2 DEF ClassOK, SameStore
    <3>5. ReadOK(client[d])'
      BY <1>2, <3>1, <3>2 DEF ReadOK, SameStore
    <3> QED BY <3>3, <3>4, <3>5
  <2> QED BY <2>1, <2>2
<1>6. AloneOK'
  BY <1>1 DEF EngineInv, AloneOK, Apart, Writes
<1>7. \A k : \A d \in Client : Publishing(d, k)' <=> Publishing(d, k)
  BY <1>1 DEF Publishing
<1>8. OverlaysOK'
  <2> SUFFICES ASSUME NEW k \in Key PROVE OverlayOK(k)'
    BY DEF OverlaysOK
  <2>1. OverlayOK(k)
    BY DEF EngineInv, OverlaysOK
  <2>2. \A d \in Client : Publishing(d, k) => client'[d] = client[d]
    BY <1>1 DEF Publishing
  <2> QED BY <1>2, <1>7, <2>1, <2>2 DEF OverlayOK, SameStore, InLog
<1>9. Unpublished' = Unpublished
  BY <1>1 DEF Unpublished
<1>10. OverlayCurrent'
  BY <1>2, <1>9 DEF EngineInv, OverlayCurrent
<1>11. ClassesAgree'
  <2> SUFFICES ASSUME NEW class \in Class, ~Busy(class)' PROVE ClassAgrees(class)'
    BY DEF ClassesAgree
  <2>1. CASE Busy(class)
    <3>1. client[c].op \in ClassOps /\ client[c].class = class
      BY <1>1, <2>1 DEF Busy
    <3>2. ClassAgrees(class)
      BY <1>1, <3>1 DEF Busy
    <3> QED BY <1>2, <3>2 DEF ClassAgrees, SameStore
  <2>2. CASE ~Busy(class)
    BY <1>2, <2>2 DEF EngineInv, ClassesAgree, ClassAgrees, SameStore
  <2> QED BY <2>1, <2>2
<1> QED BY <1>3, <1>4, <1>5, <1>6, <1>8, <1>10, <1>11 DEF EngineInv

\* So for what is kept besides until a drop is overtaken.
LEMMA LocalFits ==
  ASSUME OrderlyInv, TypeOK, NEW c \in Client, NEW q \in Request,
         SameStore, UNCHANGED counters \/ IdsPassed',
         client' = [client EXCEPT ![c] = q], FitOK(q)
  PROVE  OrderlyInv'
<1>1. client'[c] = q /\ \A d \in Client \ {c} : client'[d] = client[d]
  BY DEF TypeOK
<1>2. Committed' = Committed
  BY DEF SameStore, Committed
<1>3. NoOrphans' /\ IdsPassed'
  BY <1>2 DEF OrderlyInv, NoOrphans, IdsPassed
<1>4. ASSUME NEW d \in Client PROVE FitOK(client[d])'
  <2>1. PICK r : r = client'[d] /\ FitOK(r)
    BY <1>1 DEF OrderlyInv
  <2> QED BY <1>2, <2>1 DEF FitOK, SameStore, Empty
<1> QED BY <1>3, <1>4 DEF OrderlyInv

(***************************************************************************)
(* A request arrives: what it is, and what a read may return of the state  *)
(* it arrives in.                                                          *)
(***************************************************************************)
LEMMA ArriveFacts ==
  ASSUME TypeOK, NEW c \in Client, Arrive(c)
  PROVE  \E q \in Request :
            /\ client[c].at = "idle" /\ q.op \in OpKinds
            /\ (q.op = "createClass") <=> (q.class \notin classes)
            /\ Allowed(c, q) /\ client' = [client EXCEPT ![c] = q]
            /\ SameStore /\ UNCHANGED counters
            /\ q.at = FirstStep(q.op) /\ q.at \in {"assign", "lookup", "scan", "submit"}
            /\ q.op \notin SingleOps => q.ids = {}
            /\ q.op = "get" => \A i \in q.ids :
                  /\ <<i, Committed[<<q.class, i>>]>> \in q.seen
                  /\ <<i, Visible(<<q.class, i>>)>> \in q.seen
            /\ StepOK(q)
<1>1. PICK op \in Ops, class \in Class, ids \in SUBSET Id, want \in Nat :
         /\ Start(c, op, class, ids, want)
         /\ op \in SingleOps => \E i \in Id : ids = {i}
         /\ op \notin SingleOps => ids = {}
  <2>1. PICK op \in Ops, class \in Class :
           \/ op \in ClassOps \union {"query"} /\ Start(c, op, class, {}, 0)
           \/ op \in Updates \union {"get"} /\ \E i \in Id : Start(c, op, class, {i}, 0)
           \/ op = "create" /\ \E n \in 1 .. MaxId : Start(c, op, class, {}, n)
    BY DEF Arrive
  <2>2. CASE op \in ClassOps \union {"query"} /\ Start(c, op, class, {}, 0)
    BY <2>2 DEF ClassOps, SingleOps, Updates
  <2>3. CASE op \in Updates \union {"get"} /\ \E i \in Id : Start(c, op, class, {i}, 0)
    <3>1. PICK i \in Id : Start(c, op, class, {i}, 0)
      BY <2>3
    <3>2. {i} \in SUBSET Id /\ 0 \in Nat
      OBVIOUS
    <3> QED BY <2>3, <3>1, <3>2 DEF SingleOps
  <2>4. CASE op = "create" /\ \E n \in 1 .. MaxId : Start(c, op, class, {}, n)
    BY <2>4, EngineAssumption DEF SingleOps, Updates, EngineAssumption
  <2> QED BY <2>1, <2>2, <2>3, <2>4
<1> DEFINE S == IF op \notin Reads THEN {} ELSE
                  {<<i, Committed[<<class, i>>]>> : i \in Scope(op, ids)}
                  \union {<<i, Visible(<<class, i>>)>> : i \in Scope(op, ids)}
           q == [Idle EXCEPT !.at = FirstStep(op), !.op = op, !.class = class,
                             !.ids = ids, !.want = want, !.seen = S]
<1>2. /\ client[c].at = "idle"
      /\ (op = "createClass") <=> (class \notin classes)
      /\ Allowed(c, q) /\ client' = [client EXCEPT ![c] = q]
      /\ SameStore /\ UNCHANGED counters
  BY <1>1 DEF Start, Set, SameStore
<1>3. op \in OpKinds
  BY EngineAssumption DEF EngineAssumption
<1>4. FirstStep(op) \in {"assign", "lookup", "scan", "submit"}
  BY DEF FirstStep
<1>5. S \in SUBSET (Id \X Nat)
  <2>1. Scope(op, ids) \subseteq Id
    BY DEF Scope
  <2>2. \A i \in Id : /\ Committed[<<class, i>>] \in Nat
                      /\ Visible(<<class, i>>) \in Nat
    BY CommittedType, KeyTypes
  <2>3. {<<i, Committed[<<class, i>>]>> : i \in Scope(op, ids)} \subseteq Id \X Nat
    <3>1. \A i \in Scope(op, ids) : <<i, Committed[<<class, i>>]>> \in Id \X Nat
      BY <2>1, <2>2
    <3> QED BY <3>1
  <2>4. {<<i, Visible(<<class, i>>)>> : i \in Scope(op, ids)} \subseteq Id \X Nat
    <3>1. \A i \in Scope(op, ids) : <<i, Visible(<<class, i>>)>> \in Id \X Nat
      BY <2>1, <2>2
    <3> QED BY <3>1
  <2> QED BY <2>3, <2>4
<1>6. /\ q \in Request /\ q.at = FirstStep(op) /\ q.op = op /\ q.class = class
      /\ q.ids = ids /\ q.seen = S
  <2> HIDE DEF S
  <2>1. Idle \in Request
    BY IdleType
  <2> QED BY <1>3, <1>4, <1>5, <2>1 DEF Request
<1>7. op = "get" => \A i \in ids : /\ <<i, Committed[<<class, i>>]>> \in S
                                    /\ <<i, Visible(<<class, i>>)>> \in S
  BY DEF Scope, Reads
<1> HIDE DEF S, q
<1>8. StepOK(q)
  BY <1>1, <1>3, <1>6 DEF StepOK, StepOps, FirstStep, OpKinds, SingleOps, ObjectOps,
     Updates, ClassOps
<1> QED BY <1>1, <1>2, <1>3, <1>4, <1>6, <1>7, <1>8

(***************************************************************************)
(* Whom a request may arrive beside is what Allowed says.                  *)
(***************************************************************************)
LEMMA ArriveKeeps ==
  ASSUME EngineInv, Serial, NEW c \in Client, Arrive(c)
  PROVE  EngineInv' /\ (OrderlyInv => OrderlyInv')
<1>1. PICK q \in Request :
         /\ client[c].at = "idle" /\ q.op \in OpKinds
         /\ (q.op = "createClass") <=> (q.class \notin classes)
         /\ Allowed(c, q) /\ client' = [client EXCEPT ![c] = q]
         /\ SameStore /\ UNCHANGED counters
         /\ q.at = FirstStep(q.op) /\ q.at \in {"assign", "lookup", "scan", "submit"}
         /\ q.op \notin SingleOps => q.ids = {}
         /\ q.op = "get" => \A i \in q.ids :
               /\ <<i, Committed[<<q.class, i>>]>> \in q.seen
               /\ <<i, Visible(<<q.class, i>>)>> \in q.seen
         /\ StepOK(q)
  BY ArriveFacts DEF EngineInv
<1>2. \A d \in Client : /\ client[d] \in Request /\ StepOK(client[d])
                        /\ client[d].at = "idle" => client[d].op = "none"
  BY DEF EngineInv, RequestsOK, TypeOK, StepOK, StepOps
<1>3. \A d \in Client \ {c} : Writes(q) /\ Writes(client[d]) => ~Conflict(q, client[d])
  BY <1>1, <1>2 DEF Allowed, Writes, ClassOps, ObjectOps, Updates
<1>4. \A d \in Client \ {c} : Apart(q, client[d]) /\ Apart(client[d], q)
  BY <1>2, <1>3 DEF Apart, Conflict, Serial, Writes, ClassOps, ObjectOps, Updates, Reads
<1>5. q.op \notin Reads => ClassAgrees(q.class)
  <2> SUFFICES ASSUME q.op \notin Reads, Busy(q.class) PROVE FALSE
    BY DEF EngineInv, ClassesAgree, Request
  <2>1. PICK d \in Client : client[d].op \in ClassOps /\ client[d].class = q.class
    BY DEF Busy
  <2>2. d # c
    BY <1>1, <1>2, <2>1 DEF ClassOps
  <2> QED BY <1>1, <1>4, <2>1, <2>2
         DEF Apart, Writes, OpKinds, Reads, ClassOps, ObjectOps, Updates
<1>6. Numbered(q)
  BY <1>1 DEF Numbered, Allowed, Serial, ObjectOps, SingleOps, Updates
<1>7. ClassOK(q)
  BY <1>1, <1>5 DEF ClassOK, ClassAgrees, ObjectOps, Updates, Reads, FirstStep
<1>8. ReadOK(q)
  BY <1>1 DEF ReadOK, FirstStep
<1>9. EngineInv'
  BY <1>1, <1>2, <1>4, <1>6, <1>7, <1>8, LocalStep DEF ClassOps
<1>10. FitOK(q)
  BY <1>1 DEF FitOK, FirstStep, Updates, SingleOps
<1> QED BY <1>1, <1>9, <1>10, LocalFits DEF EngineInv

(***************************************************************************)
(* The two ways a request goes on: it returns, or stays what it is.        *)
(***************************************************************************)
LEMMA ReturnKeeps ==
  ASSUME EngineInv, NEW c \in Client, Return(c), SameStore, UNCHANGED counters,
         client[c].at # "publish",
         client[c].op \in ClassOps => ClassAgrees(client[c].class)
  PROVE  EngineInv' /\ (OrderlyInv => OrderlyInv')
<1>1. client' = [client EXCEPT ![c] = Idle]
  BY DEF Return, Set
<1>2. /\ StepOK(Idle) /\ Numbered(Idle) /\ ClassOK(Idle) /\ ReadOK(Idle)
      /\ FitOK(Idle)
  BY IdleType DEF StepOK, StepOps, Numbered, ClassOK, ReadOK, FitOK, SingleOps,
     ObjectOps, Updates
<1>3. \A d \in Client \ {c} : Apart(Idle, client[d]) /\ Apart(client[d], Idle)
  BY IdleType DEF Apart, Writes, ClassOps, ObjectOps, Updates
<1>4. EngineInv'
  BY <1>1, <1>2, <1>3, IdleType, LocalStep
<1> QED BY <1>1, <1>2, <1>4, IdleType, LocalFits DEF EngineInv

\* A request that moves on, with the same operation, class and ids.
LEMMA MoveKeeps ==
  ASSUME EngineInv, NEW c \in Client, NEW q \in Request, SameStore, UNCHANGED counters,
         client' = [client EXCEPT ![c] = q],
         client[c].at # "publish", q.at # "publish",
         q.op = client[c].op, q.class = client[c].class, q.ids = client[c].ids,
         StepOK(q), ClassOK(q), ReadOK(q)
  PROVE  EngineInv' /\ (OrderlyInv /\ FitOK(q) => OrderlyInv')
<1>1. Numbered(q)
  BY DEF EngineInv, RequestsOK, Numbered
<1>2. \A d \in Client \ {c} : Apart(q, client[d]) /\ Apart(client[d], q)
  BY DEF EngineInv, AloneOK, Apart, Writes
<1>3. EngineInv'
  BY <1>1, <1>2, LocalStep
<1> QED BY <1>3, LocalFits DEF EngineInv

(***************************************************************************)
(* A record the overlay does not show yet is the last of its key, and of a *)
(* request about to publish it; nobody else is about to publish what a     *)
(* request writes.                                                         *)
(***************************************************************************)
LEMMA HiddenGoverns ==
  ASSUME EngineInv, NEW k \in Key, NEW n \in DOMAIN log, k \in log[n].keys,
         ~(log[n].tx <= overlay[k].tx)
  PROVE  /\ \E d \in Client : Publishing(d, k)
         /\ Committed[k] = ValueOf(log[n])
<1>1. PICK d \in Client : Publishing(d, k) /\ client[d].tx = log[n].tx
  BY DEF EngineInv, OverlaysOK, OverlayOK
<1>2. /\ Committed[k] = ValueOf(EntryOf(client[d]))
      /\ InLog(k, EntryOf(client[d]))
  BY <1>1 DEF EngineInv, RequestsOK, PendingOK, Publishing, TxShape
<1>3. PICK i \in DOMAIN log : log[i].tx = log[n].tx /\ log[i].live = Live(client[d])
  BY <1>1, <1>2 DEF InLog, EntryOf
<1>4. i = n
  <2>1. log \in Seq(Record)
    BY DEF EngineInv, TypeOK
  <2>2. i \in Nat /\ n \in Nat /\ log[i].tx \in Nat
    BY <2>1, RecordType
  <2>3. ~(i < n) /\ ~(n < i)
    BY <1>3, <2>2 DEF EngineInv, TxShape
  <2> QED BY <2>2, <2>3
<1> QED BY <1>1, <1>2, <1>3, <1>4 DEF ValueOf, EntryOf

\* Only a request that writes has something to publish.
LEMMA PublishersWrite ==
  ASSUME EngineInv, NEW d \in Client, client[d].at = "publish"
  PROVE  Writes(client[d]) /\ client[d] \in Request
BY DEF EngineInv, TypeOK, RequestsOK, StepOK, StepOps, Writes

\* What a serial request writes, no other has written and not yet published.
LEMMA AlonePublishes ==
  ASSUME EngineInv, NEW c \in Client, Writes(client[c]), NEW k \in KeysOf(client[c])
  PROVE  /\ \A d \in Client \ {c} : ~Publishing(d, k)
         /\ client[c].at # "publish" => k \notin Unpublished
         /\ k \in Key
<1>1. ASSUME NEW d \in Client \ {c}, Publishing(d, k) PROVE FALSE
  <2>1. Writes(client[d]) /\ client[d] \in Request /\ client[c] \in Request
    BY <1>1, PublishersWrite DEF Publishing, EngineInv, TypeOK
  <2>2. Apart(client[c], client[d])
    BY DEF EngineInv, AloneOK
  <2>3. KeysOf(client[c]) \cap KeysOf(client[d]) = {}
    BY <2>1, <2>2, KeysApart
  <2> QED BY <1>1, <2>3 DEF Publishing
<1>2. client[c].at # "publish" => k \notin Unpublished
  BY <1>1 DEF Unpublished, Publishing
<1>3. client[c] \in Request
  BY DEF EngineInv, TypeOK
<1> QED BY <1>1, <1>2, <1>3, KeysType

\* The types are part of the invariant of serial clients.
LEMMA EngineTyped == EngineInv => Typed
BY DEF EngineInv, RequestsOK, Typed

\* A request for one object has one key.
LEMMA KeyOfSingle ==
  ASSUME Typed, NEW c \in Client, client[c].op \in SingleOps
  PROVE  \E i \in Id : /\ client[c].ids = {i}
                      /\ KeyOf(c) = <<client[c].class, i>>
                      /\ KeyOf(c) \in Key /\ KeyOf(c) \in Object
                      /\ KeysOf(client[c]) = {KeyOf(c)}
<1>1. client[c] \in Request /\ StepOK(client[c])
  BY DEF Typed, TypeOK
<1>2. PICK i \in Id : client[c].ids = {i}
  BY <1>1 DEF StepOK
<1>3. client[c].op \notin ClassOps
  BY DEF SingleOps, Updates, ClassOps
<1>4. KeysOf(client[c]) = {<<client[c].class, i>>} /\ client[c].class \in Class
  BY <1>1, <1>2, <1>3, KeysType
<1>5. KeyOf(c) = <<client[c].class, i>>
  BY <1>4 DEF KeyOf
<1> QED BY <1>2, <1>4, <1>5, KeyTypes

(***************************************************************************)
(* What lookup hands over: a get returns it, an update needs it to exist.  *)
(***************************************************************************)
LEMMA FoundKeeps ==
  ASSUME EngineInv, NEW c \in Client, NEW v \in Nat, Found(c, v), SameStore,
         UNCHANGED counters, client[c].at \in {"lookup", "snap"},
         client[c].op = "get" => \A i \in client[c].ids : <<i, v>> \in client[c].seen,
         client[c].op \in Updates /\ v # 0 /\ OrderlyInv =>
            \A i \in client[c].ids : Committed[<<client[c].class, i>>] # 0
  PROVE  EngineInv' /\ (OrderlyInv => OrderlyInv')
<1> DEFINE p == client[c]
<1>1. /\ p \in Request /\ StepOK(p) /\ ClassOK(p) /\ ReadOK(p)
      /\ p.op \in SingleOps /\ p.op \notin ClassOps
  BY DEF EngineInv, TypeOK, RequestsOK, StepOK, StepOps, SingleOps, Updates, ClassOps
<1>2. CASE p.op = "get"
  <2> DEFINE q == [p EXCEPT !.at = "answered",
                            !.list = [i \in Id |-> IF i \in p.ids THEN v ELSE 0]]
  <2>1. client' = [client EXCEPT ![c] = q]
    BY <1>2 DEF Found, Set
  <2>2. /\ q \in Request /\ q.at = "answered" /\ q.op = "get" /\ q.class = p.class
        /\ q.ids = p.ids /\ q.seen = p.seen
        /\ q.list = [i \in Id |-> IF i \in p.ids THEN v ELSE 0]
    BY <1>1, <1>2 DEF Request
  <2> HIDE DEF q
  <2>3. StepOK(q)
    BY <1>1, <1>2, <2>2 DEF StepOK, StepOps, Reads
  <2>4. ClassOK(q) /\ FitOK(q)
    BY <2>2 DEF ClassOK, FitOK, ObjectOps, Updates
  <2>5. ReadOK(q)
    BY <1>1, <1>2, <2>2 DEF ReadOK, Request
  <2> QED BY <1>2, <2>1, <2>2, <2>3, <2>4, <2>5, MoveKeeps
<1>3. CASE p.op # "get" /\ v = 0
  <2>1. Return(c)
    BY <1>3 DEF Found
  <2> QED BY <1>1, <2>1, ReturnKeeps
<1>4. CASE p.op # "get" /\ v # 0
  <2> DEFINE q == [p EXCEPT !.at = "submit"]
  <2>1. client' = [client EXCEPT ![c] = q]
    BY <1>4 DEF Found, GoTo, Set
  <2>2. /\ q \in Request /\ q.at = "submit" /\ q.op = p.op /\ q.class = p.class
        /\ q.ids = p.ids /\ p.op \in Updates
    BY <1>1, <1>4 DEF Request, SingleOps
  <2> HIDE DEF q
  <2>3. StepOK(q)
    BY <1>1, <2>2 DEF StepOK, StepOps, ObjectOps, Updates
  <2>4. ClassOK(q)
    BY <1>1, <2>2 DEF ClassOK, Updates
  <2>5. ReadOK(q)
    BY <2>2 DEF ReadOK, Updates
  <2>6. OrderlyInv => FitOK(q)
    BY <1>4, <2>2 DEF FitOK, Updates
  <2> QED BY <2>1, <2>2, <2>3, <2>4, <2>5, <2>6, MoveKeeps
<1> QED BY <1>2, <1>3, <1>4

\* The overlay answers a request for one object, or sends it to the B+tree.
LEMMA LookupKeeps ==
  ASSUME EngineInv, NEW c \in Client, Lookup(c)
  PROVE  EngineInv' /\ (OrderlyInv => OrderlyInv')
<1> DEFINE p == client[c]
           k == KeyOf(c)
<1>1. /\ p \in Request /\ StepOK(p) /\ ClassOK(p) /\ ReadOK(p)
      /\ p.at = "lookup" /\ p.op \in SingleOps /\ SameStore /\ UNCHANGED counters
  BY DEF EngineInv, TypeOK, RequestsOK, StepOK, StepOps, Lookup, SameStore
<1>2. PICK i \in Id : /\ p.ids = {i} /\ k = <<p.class, i>> /\ k \in Key
                     /\ k \in KeysOf(p)
  BY <1>1, KeyOfSingle, EngineTyped
<1>3. overlay[k] \in Entry /\ OverlayOK(k)
  BY <1>2 DEF EngineInv, TypeOK, OverlaysOK
<1>4. p.op \in Updates => /\ k \notin Unpublished /\ Visible(k) = Committed[k]
                         /\ \A d \in Client : ~Publishing(d, k)
  BY <1>1, <1>2, AlonePublishes DEF Writes, ObjectOps, EngineInv, OverlayCurrent, Publishing
<1>5. CASE overlay[k] = NoEntry
  <2> DEFINE q == [p EXCEPT !.at = "snap"]
  <2>1. client' = [client EXCEPT ![c] = q]
    BY <1>5 DEF Lookup, GoTo, Set
  <2>2. /\ q \in Request /\ q.at = "snap" /\ q.op = p.op /\ q.class = p.class
        /\ q.ids = p.ids /\ q.seen = p.seen
    BY <1>1 DEF Request
  <2> HIDE DEF q
  <2>3. ASSUME NEW n \in DOMAIN log, k \in log[n].keys
        PROVE  /\ \E d \in Client : Publishing(d, k)
               /\ Committed[k] = ValueOf(log[n])
    <3>1. ~(log[n].tx <= overlay[k].tx)
      BY <1>5, RecordType DEF EngineInv, TypeOK, NoEntry
    <3> QED BY <1>2, <2>3, <3>1, HiddenGoverns
  <2>4. StepOK(q)
    BY <1>1, <2>2 DEF StepOK, StepOps, SingleOps, Updates
  <2>5. ClassOK(q)
    BY <1>1, <2>2 DEF ClassOK, SingleOps, Updates
  <2>6. ReadOK(q)
    BY <1>1, <1>2, <1>5, <2>2, <2>3 DEF ReadOK, Visible
  <2>7. FitOK(q)
    BY <1>1, <1>2, <1>4, <2>2, <2>3 DEF FitOK, SingleOps, Updates
  <2> QED BY <1>1, <2>1, <2>2, <2>4, <2>5, <2>6, <2>7, MoveKeeps
<1>6. CASE overlay[k] # NoEntry
  <2>1. Found(c, ValueOf(overlay[k])) /\ Visible(k) = ValueOf(overlay[k])
    BY <1>6 DEF Lookup, Visible
  <2>2. ValueOf(overlay[k]) \in Nat
    BY <1>3 DEF Entry, ValueOf
  <2>3. p.op = "get" => \A j \in p.ids : <<j, ValueOf(overlay[k])>> \in p.seen
    BY <1>1, <1>2, <2>1 DEF ReadOK
  <2>4. p.op \in Updates /\ ValueOf(overlay[k]) # 0 =>
           \A j \in p.ids : Committed[<<p.class, j>>] # 0
    BY <1>2, <1>4, <2>1
  <2> QED BY <1>1, <2>1, <2>2, <2>3, <2>4, FoundKeeps
<1> QED BY <1>5, <1>6

\* The B+tree answers for an object the overlay did not have.
LEMMA ReadSnapshotKeeps ==
  ASSUME EngineInv, NEW c \in Client, ReadSnapshot(c)
  PROVE  EngineInv' /\ (OrderlyInv => OrderlyInv')
<1> DEFINE p == client[c]
           k == KeyOf(c)
<1>1. /\ p \in Request /\ ReadOK(p) /\ p.at = "snap" /\ p.op \in SingleOps
      /\ Found(c, base[k]) /\ SameStore /\ UNCHANGED counters
  BY DEF EngineInv, TypeOK, RequestsOK, StepOK, StepOps, ReadSnapshot, SameStore
<1>2. PICK i \in Id : p.ids = {i} /\ k = <<p.class, i>> /\ k \in Key
  BY <1>1, KeyOfSingle, EngineTyped
<1>3. base[k] \in Nat
  BY <1>2 DEF EngineInv, TypeOK
<1>4. p.op = "get" => \A j \in p.ids : <<j, base[k]>> \in p.seen
  BY <1>1, <1>2 DEF ReadOK
<1>5. ASSUME p.op \in Updates, OrderlyInv, base[k] # 0
      PROVE  \A j \in p.ids : Committed[<<p.class, j>>] # 0
  <2>1. \A n \in DOMAIN log : k \notin log[n].keys
    BY <1>1, <1>2, <1>5 DEF OrderlyInv, FitOK
  <2>2. Committed[k] = base[k]
    BY <1>2, <2>1, AppliedNone DEF EngineInv, TypeOK, Committed
  <2> QED BY <1>2, <1>5, <2>2
<1> QED BY <1>1, <1>3, <1>4, <1>5, FoundKeeps

(***************************************************************************)
(* Nobody writes in a class that is created or dropped.                    *)
(***************************************************************************)
LEMMA ClassAlone ==
  ASSUME EngineInv, NEW c \in Client, client[c].op \in ClassOps
  PROVE  /\ \A d \in Client \ {c} :
               Writes(client[d]) => client[d].class # client[c].class
         /\ \A i \in Id : /\ <<client[c].class, i>> \in Key
                          /\ <<client[c].class, i>> \notin Unpublished
<1>1. ASSUME NEW d \in Client \ {c}, Writes(client[d])
      PROVE  client[d].class # client[c].class
  BY <1>1 DEF EngineInv, AloneOK, Apart, Writes, ClassOps, ObjectOps, Updates
<1>2. ASSUME NEW i \in Id, <<client[c].class, i>> \in Unpublished PROVE FALSE
  <2>1. PICK d \in Client : /\ client[d].at = "publish"
                           /\ <<client[c].class, i>> \in KeysOf(client[d])
    BY <1>2 DEF Unpublished
  <2>2. Writes(client[d]) /\ client[d] \in Request /\ client[c] \in Request
    BY <2>1, PublishersWrite DEF EngineInv, TypeOK
  <2>3. <<client[c].class, i>> \in Object /\ Class \cap Object = {}
    BY <2>2, KeyTypes DEF Request
  <2>4. client[d].op \notin ClassOps
    BY <2>1, <2>2, <2>3, KeysType
  <2>5. client[d].class = client[c].class
    BY <2>1, <2>2, <2>4, KeysType
  <2> QED BY <1>1, <2>2, <2>4, <2>5
<1>3. client[c] \in Request
  BY DEF EngineInv, TypeOK
<1> QED BY <1>1, <1>2, <1>3, KeyTypes DEF Request

\* A listing, or the drop of a class, reads the class's objects in the B+tree.
LEMMA ScanKeeps ==
  ASSUME EngineInv, NEW c \in Client, Scan(c)
  PROVE  EngineInv' /\ (OrderlyInv => OrderlyInv')
<1> DEFINE p == client[c]
           q == [p EXCEPT !.at = "merge", !.list = [i \in Id |-> base[<<p.class, i>>]]]
<1>1. /\ p \in Request /\ StepOK(p) /\ ClassOK(p) /\ p.at = "scan"
      /\ p.op \in {"dropClass", "query"} /\ SameStore /\ UNCHANGED counters
  BY DEF EngineInv, TypeOK, RequestsOK, StepOK, StepOps, Scan, SameStore
<1>2. CASE Return(c)
  <2>1. p.op \in ClassOps => ClassAgrees(p.class)
    BY <1>1 DEF ClassOK, ClassAgrees, ClassOps
  <2> QED BY <1>1, <1>2, <2>1, ReturnKeeps
<1>3. CASE client' = [client EXCEPT ![c] = q]
  <2>1. \A i \in Id : base[<<p.class, i>>] \in Nat
    BY <1>1, KeyTypes DEF EngineInv, TypeOK, Request
  <2>2. /\ q \in Request /\ q.at = "merge" /\ q.op = p.op /\ q.class = p.class
        /\ q.ids = p.ids /\ q.list = [i \in Id |-> base[<<p.class, i>>]]
    BY <1>1, <2>1 DEF Request
  <2> HIDE DEF q
  <2>3. StepOK(q)
    BY <1>1, <2>2 DEF StepOK, StepOps, SingleOps, Updates
  <2>4. ClassOK(q)
    BY <1>1, <2>2 DEF ClassOK, ObjectOps, Updates
  <2>5. ReadOK(q)
    BY <1>1, <2>2 DEF ReadOK
  <2>6. OrderlyInv => FitOK(q)
    BY <1>1, <2>2 DEF OrderlyInv, FitOK, Updates
  <2> QED BY <1>1, <1>3, <2>2, <2>3, <2>4, <2>5, <2>6, MoveKeeps
<1> QED BY <1>1, <1>2, <1>3 DEF Scan, Set

(***************************************************************************)
(* DropClass goes on when it saw no object: with no checkpoint since it    *)
(* scanned, and nobody writing in the class, there is none.                *)
(***************************************************************************)
LEMMA MergeKeeps ==
  ASSUME EngineInv, NEW c \in Client, Merge(c)
  PROVE  EngineInv' /\ (OrderlyInv => OrderlyInv')
<1> DEFINE p == client[c]
           merged == [i \in Id |-> IF overlay[<<p.class, i>>] = NoEntry THEN p.list[i]
                                   ELSE ValueOf(overlay[<<p.class, i>>])]
<1>1. /\ p \in Request /\ StepOK(p) /\ ClassOK(p) /\ p.at = "merge"
      /\ p.op \in {"dropClass", "query"} /\ SameStore /\ UNCHANGED counters
  BY DEF EngineInv, TypeOK, RequestsOK, StepOK, StepOps, Merge, SameStore
<1>2. CASE p.op = "query"
  <2> DEFINE q == [p EXCEPT !.at = "answered", !.list = merged]
  <2>1. client' = [client EXCEPT ![c] = q]
    BY <1>2 DEF Merge, Set
  <2>2. merged \in [Id -> Nat]
    <3>1. ASSUME NEW i \in Id PROVE merged[i] \in Nat
      <4>1. overlay[<<p.class, i>>] \in Entry /\ p.list[i] \in Nat
        BY <1>1, KeyTypes DEF EngineInv, TypeOK, Request
      <4> QED BY <4>1 DEF Entry, ValueOf
    <3> QED BY <3>1
  <2>3. /\ q \in Request /\ q.at = "answered" /\ q.op = p.op /\ q.class = p.class
        /\ q.ids = p.ids
    BY <1>1, <2>2 DEF Request
  <2> HIDE DEF q
  <2>4. StepOK(q)
    BY <1>2, <2>3 DEF StepOK, StepOps, SingleOps, Updates, Reads
  <2>5. ClassOK(q) /\ ReadOK(q) /\ FitOK(q)
    BY <1>2, <2>3 DEF ClassOK, ReadOK, FitOK, ObjectOps, Updates
  <2> QED BY <1>1, <2>1, <2>3, <2>4, <2>5, MoveKeeps
<1>3. CASE p.op # "query" /\ Return(c)
  <2>1. p.op \in ClassOps => ClassAgrees(p.class)
    BY <1>1 DEF ClassOK, ClassAgrees, ClassOps
  <2> QED BY <1>1, <1>3, <2>1, ReturnKeeps
<1>4. CASE /\ p.op = "dropClass" /\ GoTo(c, "submit")
           /\ ~(p.op = "dropClass" /\ \E i \in Id : merged[i] # 0)
  <2> DEFINE q == [p EXCEPT !.at = "submit"]
  <2>1. client' = [client EXCEPT ![c] = q]
    BY <1>4 DEF GoTo, Set
  <2>2. /\ q \in Request /\ q.at = "submit" /\ q.op = p.op /\ q.class = p.class
        /\ q.ids = p.ids
    BY <1>1 DEF Request
  <2> HIDE DEF q
  <2>3. StepOK(q)
    BY <1>4, <2>2 DEF StepOK, StepOps, SingleOps, Updates, ClassOps
  <2>4. ClassOK(q) /\ ReadOK(q)
    BY <1>1, <1>4, <2>2 DEF ClassOK, ReadOK, ObjectOps, Updates
  <2>5. ASSUME OrderlyInv PROVE FitOK(q)
    <3>1. \A i \in Id : p.list[i] = base[<<p.class, i>>] \/ overlay[<<p.class, i>>] # NoEntry
      BY <1>1, <1>4, <2>5 DEF OrderlyInv, FitOK
    <3>2. ASSUME NEW i \in Id PROVE Committed[<<p.class, i>>] = 0
      <4>1. <<p.class, i>> \in Key /\ <<p.class, i>> \notin Unpublished
        BY <1>4, ClassAlone DEF ClassOps
      <4>2. Visible(<<p.class, i>>) = Committed[<<p.class, i>>]
        BY <4>1 DEF EngineInv, OverlayCurrent
      <4>3. merged[i] = Visible(<<p.class, i>>)
        BY <3>1 DEF Visible
      <4> QED BY <1>4, <4>2, <4>3
    <3> QED BY <1>1, <1>4, <2>2, <2>5, <3>2 DEF OrderlyInv, FitOK, Empty, Updates
  <2> QED BY <1>1, <2>1, <2>2, <2>3, <2>4, <2>5, MoveKeeps
<1> QED BY <1>1, <1>2, <1>3, <1>4 DEF Merge

\* A read returns.
LEMMA AnsweredKeeps ==
  ASSUME EngineInv, NEW c \in Client, Answered(c)
  PROVE  EngineInv' /\ (OrderlyInv => OrderlyInv')
<1>1. client[c].op \notin ClassOps
  BY DEF EngineInv, RequestsOK, StepOK, StepOps, Answered, Reads, ClassOps
<1> QED BY <1>1, ReturnKeeps DEF Answered, SameStore

(***************************************************************************)
(* An id is past all objects of its class, and past the ids of others.     *)
(***************************************************************************)
LEMMA AssignKeeps ==
  ASSUME EngineInv, NEW c \in Client, Assign(c)
  PROVE  EngineInv' /\ (OrderlyInv => OrderlyInv')
<1> DEFINE p == client[c]
           id == counters[p.class] + 1
           q == [p EXCEPT !.ids = @ \union {id},
                          !.at = IF Cardinality(p.ids) + 1 = p.want
                                 THEN "submit" ELSE "assign"]
<1>1. /\ p \in Request /\ StepOK(p) /\ Numbered(p) /\ ClassOK(p) /\ p.at = "assign"
      /\ p.op = "create" /\ p.class \in Class /\ p.ids \subseteq Id
      /\ counters[p.class] \in Nat /\ id \in Id
  <2>1. /\ p \in Request /\ StepOK(p) /\ Numbered(p) /\ ClassOK(p) /\ p.at = "assign"
        /\ p.op = "create" /\ id <= MaxId
    BY DEF EngineInv, TypeOK, RequestsOK, StepOK, StepOps, Assign
  <2>2. p.class \in Class /\ p.ids \subseteq Id
    BY <2>1 DEF Request
  <2>3. counters[p.class] \in Nat
    BY <2>2 DEF EngineInv, TypeOK
  <2> QED BY <2>1, <2>2, <2>3, EngineAssumption DEF Id, EngineAssumption
<1>2. /\ SameStore /\ client' = [client EXCEPT ![c] = q]
      /\ counters' = [counters EXCEPT ![p.class] = id]
  BY DEF Assign, Set, SameStore
<1>3. /\ q \in Request /\ q.at \in {"submit", "assign"} /\ q.op = "create"
      /\ q.class = p.class /\ q.ids = p.ids \union {id}
  BY <1>1 DEF Request
<1> HIDE DEF q
<1>4. /\ counters' \in [Class -> Nat] /\ counters'[p.class] = counters[p.class] + 1
      /\ \A class \in Class : counters[class] \in Nat /\ counters[class] <= counters'[class]
  BY <1>1, <1>2 DEF EngineInv, TypeOK
<1>5. \A d \in Client \ {c} : client'[d] = client[d] /\ client[d] \in Request
  BY <1>2 DEF EngineInv, TypeOK
<1>6. ASSUME NEW d \in Client PROVE Numbered(client[d])'
  <2>1. CASE d = c
    <3>1. client'[c] = q
      BY <1>2 DEF EngineInv, TypeOK
    <3>2. \A i \in p.ids : i \in Nat /\ i <= counters[p.class]
      BY <1>1, KeyTypes DEF Numbered, ObjectOps
    <3>3. \A i \in q.ids : i <= counters'[q.class]
      BY <1>1, <1>3, <1>4, <3>2
    <3> QED BY <2>1, <3>1, <3>3 DEF Numbered
  <2>2. CASE d # c
    <3>1. \A i \in client[d].ids : i \in Nat
      BY <1>5, <2>2, KeyTypes DEF Request
    <3>2. client[d].class \in Class
      BY <1>5, <2>2 DEF Request
    <3> QED BY <1>4, <1>5, <2>2, <3>1, <3>2 DEF Numbered, EngineInv, RequestsOK
  <2> QED BY <2>1, <2>2
<1>7. \A d \in Client \ {c} : Apart(q, client[d]) /\ Apart(client[d], q)
  <2> SUFFICES ASSUME NEW d \in Client \ {c}
               PROVE  Apart(q, client[d]) /\ Apart(client[d], q)
    OBVIOUS
  <2>1. Apart(p, client[d]) /\ Apart(client[d], p) /\ Numbered(client[d])
    BY DEF EngineInv, AloneOK, RequestsOK
  <2>2. CASE Writes(client[d]) /\ client[d].class = p.class
    <3>1. client[d].op \in ObjectOps /\ client[d].ids \cap p.ids = {}
      BY <1>1, <2>1, <2>2 DEF Apart, Writes, ObjectOps
    <3>2. id \notin client[d].ids
      BY <1>1, <2>1, <2>2, <3>1 DEF Numbered
    <3> QED BY <1>3, <3>1, <3>2 DEF Apart, ObjectOps
  <2>3. CASE ~(Writes(client[d]) /\ client[d].class = p.class)
    BY <1>3, <2>3 DEF Apart
  <2> QED BY <2>2, <2>3
<1>8. StepOK(q)
  BY <1>3 DEF StepOK, StepOps, ObjectOps, SingleOps, Updates
<1>9. ClassOK(q) /\ ReadOK(q)
  BY <1>1, <1>3 DEF ClassOK, ReadOK
<1>10. EngineInv'
  BY <1>1, <1>2, <1>3, <1>4, <1>6, <1>7, <1>8, <1>9, LocalStep DEF ClassOps
<1>11. ASSUME OrderlyInv PROVE OrderlyInv'
  <2>1. IdsPassed'
    <3>1. Committed' = Committed
      BY <1>2 DEF SameStore, Committed
    <3>2. \A i \in Id : i \in Nat
      BY KeyTypes
    <3> QED BY <1>4, <1>11, <3>1, <3>2 DEF OrderlyInv, IdsPassed
  <2>2. Committed[<<p.class, id>>] = 0
    BY <1>1, <1>11 DEF OrderlyInv, IdsPassed
  <2>3. \A i \in p.ids : Committed[<<p.class, i>>] = 0
    BY <1>1, <1>11 DEF OrderlyInv, FitOK
  <2>4. FitOK(q)
    BY <1>3, <2>2, <2>3 DEF FitOK, Updates
  <2> QED BY <1>2, <1>3, <1>11, <2>1, <2>4, LocalFits DEF EngineInv
<1> QED BY <1>10, <1>11

(***************************************************************************)
(* The counter of a dropped class starts again: nobody has an id of it.    *)
(***************************************************************************)
LEMMA ForgetKeeps ==
  ASSUME EngineInv, NEW c \in Client, Forget(c)
  PROVE  EngineInv' /\ (OrderlyInv => OrderlyInv')
<1> DEFINE p == client[c]
<1>1. /\ p \in Request /\ ClassOK(p) /\ p.at = "forget" /\ p.op = "dropClass"
      /\ p.class \in Class
  BY DEF EngineInv, TypeOK, RequestsOK, StepOK, StepOps, Forget, Request
<1>2. /\ SameStore /\ client' = [client EXCEPT ![c] = Idle]
      /\ counters' = [counters EXCEPT ![p.class] = 0]
  BY DEF Forget, Return, Set, SameStore
<1>3. /\ counters' \in [Class -> Nat]
      /\ \A class \in Class \ {p.class} : counters'[class] = counters[class]
  BY <1>1, <1>2 DEF EngineInv, TypeOK
<1>4. /\ StepOK(Idle) /\ ClassOK(Idle) /\ ReadOK(Idle) /\ FitOK(Idle)
  BY IdleType DEF StepOK, StepOps, ClassOK, ReadOK, FitOK, SingleOps, ObjectOps, Updates
<1>5. \A d \in Client \ {c} : Apart(Idle, client[d]) /\ Apart(client[d], Idle)
  BY IdleType DEF Apart, Writes, ClassOps, ObjectOps, Updates
<1>6. ASSUME NEW d \in Client PROVE Numbered(client[d])'
  <2>1. CASE d = c
    <3>1. client'[c] = Idle
      BY <1>2 DEF EngineInv, TypeOK
    <3> QED BY <2>1, <3>1, IdleType DEF Numbered, ObjectOps, Updates
  <2>2. CASE d # c
    <3>1. client'[d] = client[d] /\ client[d].class \in Class /\ Numbered(client[d])
      BY <1>2, <2>2 DEF EngineInv, TypeOK, RequestsOK, Request
    <3>2. client[d].op \in ObjectOps => client[d].class # p.class
      BY <1>1, <2>2, ClassAlone DEF Writes, ClassOps
    <3> QED BY <1>3, <3>1, <3>2 DEF Numbered
  <2> QED BY <2>1, <2>2
<1>7. ClassAgrees(p.class)
  BY <1>1 DEF ClassOK, ClassAgrees
<1>8. EngineInv'
  BY <1>1, <1>2, <1>3, <1>4, <1>5, <1>6, <1>7, IdleType, LocalStep
<1>9. ASSUME OrderlyInv PROVE OrderlyInv'
  <2>1. Empty(p.class)
    BY <1>1, <1>9 DEF OrderlyInv, FitOK
  <2>2. IdsPassed'
    <3>1. Committed' = Committed
      BY <1>2 DEF SameStore, Committed
    <3> QED BY <1>3, <1>9, <2>1, <3>1 DEF OrderlyInv, IdsPassed, Empty
  <2> QED BY <1>2, <1>4, <1>9, <2>2, IdleType, LocalFits DEF EngineInv
<1> QED BY <1>8, <1>9

-----------------------------------------------------------------------------
(***************************************************************************)
(* A record comes to the log: what it is, and what the step changes.       *)
(***************************************************************************)
RecordOf(q) == [tx |-> nextTx + 1, keys |-> KeysOf(q), live |-> Live(q)]

Same(p, q) ==
    /\ p.at = q.at /\ p.op = q.op /\ p.class = q.class /\ p.ids = q.ids
    /\ p.tx = q.tx /\ p.list = q.list /\ p.seen \subseteq q.seen

\* The step as a record that comes to the end of the log.
LEMMA SubmitFacts ==
  ASSUME Typed, NEW c \in Client, Submit(c)
  PROVE  LET p == client[c]
             r == RecordOf(p)
         IN  /\ p \in Request /\ p.at = "submit" /\ p.op \in ClassOps \union ObjectOps
             /\ r \in Record /\ r.tx = nextTx + 1 /\ r.keys = KeysOf(p)
             /\ r.live = Live(p) /\ nextTx' = nextTx + 1 /\ nextTx \in Nat
             /\ log' = Append(log, r) /\ log \in Seq(Record) /\ log' \in Seq(Record)
             /\ DOMAIN log = 1 .. Len(log) /\ DOMAIN log' = 1 .. Len(log) + 1
             /\ Len(log) \in Nat /\ Len(log') = Len(log) + 1
             /\ \A i \in DOMAIN log : log'[i] = log[i] /\ i \in DOMAIN log'
             /\ log'[Len(log) + 1] = r
             /\ client'[c] = [p EXCEPT !.at = "publish", !.tx = r.tx]
             /\ client'[c] \in Request
             /\ \A d \in Client \ {c} :
                   /\ Same(client[d], client'[d]) /\ client'[d] \in Request
                   /\ client[d].op \in Reads /\ client[d].class = p.class =>
                         \A k \in r.keys \cap Object :
                            <<k[2], ValueOf(r)>> \in client'[d].seen
             /\ client' \in [Client -> Request]
             /\ UNCHANGED <<base, applied, overlay, classes, counters, ck, cut, overtaken>>
             /\ \A k \in Key : Committed'[k] = IF k \in r.keys THEN ValueOf(r)
                                                 ELSE Committed[k]
<1> DEFINE p == client[c]
           r == RecordOf(p)
           written == {<<k[2], ValueOf(r)>> : k \in r.keys \cap Object}
<1>1. /\ p \in Request /\ p.at = "submit" /\ p.op \in ClassOps \union ObjectOps
      /\ StepOK(p) /\ nextTx \in Nat /\ log \in Seq(Record)
  BY DEF Typed, TypeOK, StepOK, StepOps, Submit
<1>2. KeysOf(p) # {}
  <2>1. CASE p.op \in ClassOps
    BY <1>1, <2>1, KeysType
  <2>2. CASE p.op \notin ClassOps
    <3>1. p.ids # {}
      BY <1>1, <2>2 DEF StepOK, SingleOps, ObjectOps, Updates
    <3>2. PICK i \in p.ids : TRUE
      BY <3>1
    <3>3. <<p.class, i>> \in KeysOf(p)
      BY <1>1, <2>2, KeysType
    <3> QED BY <3>3
  <2> QED BY <2>1, <2>2
<1>3. /\ r \in Record /\ r.tx = nextTx + 1 /\ r.keys = KeysOf(p) /\ r.live = Live(p)
      /\ ValueOf(r) \in Nat
  BY <1>1, <1>2, KeysType DEF RecordOf, Record, Live, ValueOf
<1>4. /\ nextTx' = nextTx + 1 /\ log' = Append(log, r)
      /\ client' = [d \in Client |->
              CASE d = c -> [p EXCEPT !.at = "publish", !.tx = r.tx]
                [] d # c /\ client[d].op \in Reads /\ client[d].class = p.class ->
                       [client[d] EXCEPT !.seen = @ \union written]
                [] OTHER -> client[d]]
      /\ UNCHANGED <<base, applied, overlay, classes, counters, ck, cut, overtaken>>
  BY DEF Submit, RecordOf, Live
<1>5. written \subseteq Id \X Nat
  <2>1. \A k \in Object : k[2] \in Id
    BY DEF Object
  <2>2. \A k \in r.keys \cap Object : <<k[2], ValueOf(r)>> \in Id \X Nat
    BY <1>3, <2>1
  <2> QED BY <2>2
<1>6. \A k \in r.keys \cap Object : <<k[2], ValueOf(r)>> \in written
  OBVIOUS
<1> HIDE DEF written, r
<1>7. client'[c] = [p EXCEPT !.at = "publish", !.tx = r.tx] /\ client'[c] \in Request
  <2>1. client'[c] = [p EXCEPT !.at = "publish", !.tx = r.tx]
    BY <1>4
  <2>2. r.tx \in Nat
    BY <1>1, <1>3
  <2> HIDE DEF p
  <2> QED BY <1>1, <2>1, <2>2 DEF Request
<1>8. ASSUME NEW d \in Client \ {c}
      PROVE  /\ Same(client[d], client'[d]) /\ client'[d] \in Request
             /\ client[d].op \in Reads /\ client[d].class = p.class =>
                   written \subseteq client'[d].seen
  <2>1. client[d] \in Request
    BY DEF Typed, TypeOK
  <2>2. CASE client[d].op \in Reads /\ client[d].class = p.class
    <3>1. client'[d] = [client[d] EXCEPT !.seen = @ \union written]
      BY <1>4, <2>2
    <3> QED BY <1>5, <2>1, <3>1 DEF Request, Same
  <2>3. CASE ~(client[d].op \in Reads /\ client[d].class = p.class)
    <3>1. client'[d] = client[d]
      BY <1>4, <2>3
    <3> QED BY <2>1, <2>3, <3>1 DEF Same
  <2> QED BY <2>2, <2>3
<1>9. client' \in [Client -> Request]
  <2>1. \A d \in Client : client'[d] \in Request
    BY <1>7, <1>8
  <2> QED BY <1>4, <2>1
<1>10. /\ DOMAIN log = 1 .. Len(log) /\ DOMAIN log' = 1 .. Len(log) + 1
       /\ Len(log) \in Nat /\ Len(log') = Len(log) + 1 /\ log' \in Seq(Record)
       /\ \A i \in DOMAIN log : log'[i] = log[i] /\ i \in DOMAIN log'
       /\ log'[Len(log) + 1] = r
  BY <1>1, <1>3, <1>4
<1>11. \A k \in Key : Committed'[k] = IF k \in r.keys THEN ValueOf(r) ELSE Committed[k]
  <2>1. base \in [Key -> Nat] /\ base' = base
    BY <1>4 DEF Typed, TypeOK
  <2>2. Committed' = Applied(base, Append(log, r)) /\ Committed = Applied(base, log)
    BY <1>4, <2>1 DEF Committed, Applied, LastOf
  <2> QED BY <1>1, <1>3, <2>1, <2>2, AppliedAppend
<1> QED BY <1>1, <1>3, <1>4, <1>6, <1>7, <1>8, <1>9, <1>10, <1>11 DEF r

(***************************************************************************)
(* Nobody else is about to write, or has a record of, what it writes.      *)
(***************************************************************************)
LEMMA SubmitApart ==
  ASSUME EngineInv, NEW c \in Client, Submit(c)
  PROVE  LET p == client[c]
             r == RecordOf(p)
         IN  /\ \A k \in r.keys : /\ k \in Key /\ k \notin Unpublished
                                 /\ Visible(k) = Committed[k]
                                 /\ \A d \in Client : ~Publishing(d, k)
             /\ \A d \in Client \ {c} : Writes(client[d]) =>
                   /\ KeysOf(client[d]) \cap r.keys = {}
                   /\ client[d].class \notin r.keys
             /\ \A class \in Class : class \in r.keys <=>
                   p.op \in ClassOps /\ class = p.class
             /\ \A k \in r.keys \cap Object :
                   /\ p.op \in ObjectOps /\ k[1] = p.class /\ k[2] \in p.ids
                   /\ k = <<p.class, k[2]>>
<1> DEFINE p == client[c]
           r == RecordOf(p)
<1>1. /\ p \in Request /\ p.at = "submit" /\ p.op \in ClassOps \union ObjectOps
      /\ r.keys = KeysOf(p)
  BY SubmitFacts, EngineTyped
<1> HIDE DEF r
<1>2. \A k \in r.keys : k \in Key /\ k \notin Unpublished /\ \A d \in Client : ~Publishing(d, k)
  BY <1>1, AlonePublishes DEF Writes, Publishing
<1>3. \A k \in r.keys : Visible(k) = Committed[k]
  BY <1>2 DEF EngineInv, OverlayCurrent
<1>4. \A class \in Class : class \in r.keys <=> p.op \in ClassOps /\ class = p.class
  BY <1>1, KeysType, KeyTypes
<1>5. ASSUME NEW k \in r.keys \cap Object
      PROVE  /\ p.op \in ObjectOps /\ k[1] = p.class /\ k[2] \in p.ids
             /\ k = <<p.class, k[2]>>
  <2>1. p.op \notin ClassOps
    BY <1>1, <1>5, KeysType, KeyTypes
  <2> QED BY <1>1, <2>1, KeysType
<1>6. ASSUME NEW d \in Client \ {c}, Writes(client[d])
      PROVE  KeysOf(client[d]) \cap r.keys = {} /\ client[d].class \notin r.keys
  <2>1. Apart(p, client[d]) /\ Apart(client[d], p) /\ client[d] \in Request
    BY DEF EngineInv, AloneOK, TypeOK
  <2>2. KeysOf(client[d]) \cap r.keys = {}
    BY <1>1, <1>6, <2>1, KeysApart DEF Writes
  <2>3. client[d].class \in Class
    BY <2>1, KeysType
  <2>4. ~(p.op \in ClassOps /\ client[d].class = p.class)
    BY <1>1, <1>6, <2>1 DEF Apart, Writes, ClassOps, ObjectOps, Updates
  <2> QED BY <1>4, <2>2, <2>3, <2>4
<1> QED BY <1>2, <1>3, <1>4, <1>5, <1>6 DEF r

\* The sequencer appends a record: its writer alone has it to publish.
LEMMA SubmitKeeps ==
  ASSUME EngineInv, NEW c \in Client, Submit(c)
  PROVE  EngineInv' /\ (OrderlyInv => OrderlyInv')
<1> DEFINE p == client[c]
           q == client'[c]
           r == RecordOf(p)
           last == Len(log) + 1
<1>1. /\ p \in Request /\ p.at = "submit" /\ p.op \in ClassOps \union ObjectOps
      /\ r \in Record /\ r.tx = nextTx + 1 /\ r.keys = KeysOf(p) /\ r.live = Live(p)
      /\ nextTx' = nextTx + 1 /\ nextTx \in Nat
      /\ client' \in [Client -> Request]
      /\ UNCHANGED <<base, applied, overlay, classes, counters, ck, cut, overtaken>>
  BY SubmitFacts, EngineTyped
<1>2. /\ log' = Append(log, r) /\ log \in Seq(Record) /\ log' \in Seq(Record)
      /\ DOMAIN log = 1 .. Len(log) /\ DOMAIN log' = 1 .. last
      /\ Len(log) \in Nat /\ Len(log') = last
      /\ \A i \in DOMAIN log : log'[i] = log[i] /\ i \in DOMAIN log'
      /\ log'[last] = r /\ last \in DOMAIN log'
      /\ \A i \in DOMAIN log' : i = last \/ (i \in DOMAIN log /\ log'[i] = log[i])
  <2>1. /\ log' = Append(log, r) /\ log \in Seq(Record) /\ log' \in Seq(Record)
        /\ DOMAIN log = 1 .. Len(log) /\ DOMAIN log' = 1 .. last
        /\ Len(log) \in Nat /\ Len(log') = last
        /\ \A i \in DOMAIN log : log'[i] = log[i] /\ i \in DOMAIN log'
        /\ log'[last] = r
    BY SubmitFacts, EngineTyped
  <2>2. \A i \in 1 .. last : i = last \/ i \in 1 .. Len(log)
    BY <2>1
  <2>3. last \in 1 .. last
    BY <2>1
  <2>4. \A i \in DOMAIN log' : i = last \/ (i \in DOMAIN log /\ log'[i] = log[i])
    <3> HIDE DEF r, last
    <3> QED BY <2>1, <2>2
  <2> QED BY <2>1, <2>3, <2>4
<1>3. /\ q = [p EXCEPT !.at = "publish", !.tx = r.tx]
      /\ \A d \in Client \ {c} :
            /\ Same(client[d], client'[d])
            /\ client[d].op \in Reads /\ client[d].class = p.class =>
                  \A k \in r.keys \cap Object : <<k[2], ValueOf(r)>> \in client'[d].seen
  BY SubmitFacts, EngineTyped
<1>4. \A k \in Key : Committed'[k] = IF k \in r.keys THEN ValueOf(r) ELSE Committed[k]
  BY SubmitFacts, EngineTyped
<1>5. /\ \A k \in r.keys : /\ k \in Key /\ k \notin Unpublished
                          /\ Visible(k) = Committed[k]
                          /\ \A d \in Client : ~Publishing(d, k)
      /\ \A d \in Client \ {c} : Writes(client[d]) =>
            /\ KeysOf(client[d]) \cap r.keys = {}
            /\ client[d].class \notin r.keys
  BY SubmitApart
<1>6. /\ \A class \in Class : class \in r.keys <=>
            p.op \in ClassOps /\ class = p.class
      /\ \A k \in r.keys \cap Object :
            /\ p.op \in ObjectOps /\ k[1] = p.class /\ k[2] \in p.ids
            /\ k = <<p.class, k[2]>>
  BY SubmitApart
<1> HIDE DEF r
<1>7. /\ q.at = "publish" /\ q.tx = r.tx /\ q.op = p.op /\ q.class = p.class
      /\ q.ids = p.ids /\ KeysOf(q) = r.keys /\ Live(q) = r.live
      /\ ValueOf(EntryOf(q)) = ValueOf(r)
  <2>1. /\ q.at = "publish" /\ q.tx = r.tx /\ q.op = p.op /\ q.class = p.class
        /\ q.ids = p.ids
    BY <1>1, <1>3 DEF Request
  <2>2. KeysOf(q) = KeysOf(p) /\ Live(q) = Live(p)
    BY <2>1 DEF KeysOf, Live
  <2> QED BY <1>1, <2>1, <2>2 DEF ValueOf, EntryOf
<1> HIDE DEF q
<1>8. \A d \in Client \ {c} : KeysOf(client'[d]) = KeysOf(client[d])
  BY <1>3 DEF Same, KeysOf
<1>9. TypeOK'
  BY <1>1, <1>2 DEF EngineInv, TypeOK
<1>10. TxShape'
  <2>1. \A i \in DOMAIN log : log[i].tx \in Nat /\ i \in Nat /\ i < last
    BY <1>2, RecordType
  <2>2. applied \in Nat
    BY DEF EngineInv, TypeOK
  <2>3. \A i \in DOMAIN log' : applied < log'[i].tx /\ log'[i].tx <= nextTx'
    BY <1>1, <1>2, <2>1, <2>2 DEF EngineInv, TxShape
  <2>4. ASSUME NEW i \in DOMAIN log', NEW j \in DOMAIN log', i < j
        PROVE  log'[i].tx < log'[j].tx
    <3>1. i # last
      BY <1>2, <2>1, <2>4
    <3>2. i \in DOMAIN log /\ log'[i] = log[i]
      BY <1>2, <3>1
    <3>3. CASE j = last
      BY <1>1, <1>2, <2>1, <3>2, <3>3 DEF EngineInv, TxShape
    <3>4. CASE j # last
      BY <1>2, <2>4, <3>2, <3>4 DEF EngineInv, TxShape
    <3> QED BY <3>3, <3>4
  <2>5. LastTx(applied, log)' = nextTx'
    BY <1>1, <1>2 DEF LastTx
  <2> QED BY <1>1, <2>2, <2>3, <2>4, <2>5 DEF EngineInv, TxShape
<1>11. \A k, e : InLog(k, e) => InLog(k, e)'
  BY <1>2 DEF InLog
<1>12. RequestsOK'
  <2> SUFFICES ASSUME NEW d \in Client
               PROVE  (/\ StepOK(client[d]) /\ Numbered(client[d])
                       /\ PendingOK(client[d])
                       /\ ClassOK(client[d]) /\ ReadOK(client[d]))'
    BY DEF RequestsOK
  <2>1. /\ StepOK(client[d]) /\ Numbered(client[d]) /\ PendingOK(client[d])
        /\ ClassOK(client[d]) /\ ReadOK(client[d]) /\ client[d] \in Request
        /\ client[d].class \in Class /\ client[d].ids \subseteq Id
    BY KeysType DEF EngineInv, RequestsOK, TypeOK
  <2>2. CASE d = c
    <3>1. StepOK(client[d])'
      BY <1>1, <1>7, <2>1, <2>2
         DEF q, StepOK, StepOps, SingleOps, ClassOps, ObjectOps, Updates
    <3>2. Numbered(client[d])'
      BY <1>1, <1>7, <2>1, <2>2 DEF q, Numbered
    <3>3. PendingOK(client[d])'
      <4>1. q.tx \in 1 .. nextTx'
        BY <1>1, <1>7
      <4>2. ASSUME NEW k \in r.keys PROVE Committed'[k] = ValueOf(EntryOf(q))
        BY <1>4, <1>5, <1>7
      <4>3. \A i \in DOMAIN log' : log'[i].tx <= q.tx
        BY <1>1, <1>7, <1>10 DEF TxShape
      <4>4. \A k \in r.keys : InLog(k, EntryOf(client[c]))'
        BY <1>2, <1>7 DEF q, InLog, EntryOf
      <4> QED BY <1>7, <2>2, <4>1, <4>2, <4>3, <4>4 DEF q, PendingOK
    <3>4. ClassOK(client[d])'
      <4>1. p.class \in Key /\ p.class \in Class /\ p.class \notin Object
        BY <2>1, <2>2, KeyTypes
      <4>2. CASE p.op \in ObjectOps
        <5>1. p.class \notin r.keys
          BY <1>6, <4>1, <4>2 DEF ClassOps, ObjectOps, Updates
        <5>2. Committed'[p.class] = Committed[p.class]
          BY <1>4, <4>1, <5>1
        <5> QED BY <1>1, <1>7, <2>1, <2>2, <4>2, <5>2 DEF q, ClassOK, ObjectOps, Updates
      <4>3. CASE p.op \in ClassOps
        <5>1. Committed'[p.class] = ValueOf(r)
          BY <1>4, <1>6, <4>1, <4>3
        <5>2. p.op = "createClass" => Committed'[p.class] # 0
          <6>1. p.op = "createClass" => r.live
            BY <1>1 DEF Live
          <6> QED BY <1>1, <5>1, <6>1 DEF ValueOf
        <5>3. p.op = "dropClass" => Committed'[p.class] = 0
          <6>1. p.op = "dropClass" => ~r.live
            BY <1>1 DEF Live
          <6> QED BY <5>1, <6>1 DEF ValueOf
        <5> QED BY <1>1, <1>7, <2>1, <2>2, <4>3, <5>2, <5>3
                DEF q, ClassOK, ClassOps, ObjectOps, Updates
      <4> QED BY <1>1, <4>2, <4>3
    <3>5. ReadOK(client[d])'
      BY <1>1, <1>7, <2>2 DEF q, ReadOK, ClassOps, ObjectOps, Updates
    <3> QED BY <3>1, <3>2, <3>3, <3>4, <3>5
  <2>3. CASE d # c
    <3>0. Same(client[d], client'[d]) /\ KeysOf(client'[d]) = KeysOf(client[d])
      BY <1>3, <1>8, <2>3
    <3>1. StepOK(client[d])' /\ Numbered(client[d])'
      BY <1>1, <2>1, <3>0 DEF Same, StepOK, Numbered
    <3>2. PendingOK(client[d])'
      <4> SUFFICES ASSUME client[d].at = "publish" PROVE PendingOK(client[d])'
        BY <3>0 DEF Same, PendingOK
      <4>1. Writes(client[d]) /\ KeysOf(client[d]) \subseteq Key
        BY <2>1, PublishersWrite, KeysType
      <4>2. \A k \in KeysOf(client[d]) : k \notin r.keys /\ Committed'[k] = Committed[k]
        BY <1>4, <1>5, <2>3, <4>1
      <4>3. EntryOf(client'[d]) = EntryOf(client[d])
        BY <3>0 DEF Same, EntryOf, Live
      <4>4. client[d].tx \in 1 .. nextTx'
        BY <1>1, <2>1 DEF PendingOK
      <4>5. \A k \in KeysOf(client[d]), i \in DOMAIN log' :
               k \in log'[i].keys => log'[i].tx <= client[d].tx
        BY <1>2, <2>1, <4>2 DEF PendingOK
      <4> QED BY <1>1, <1>11, <2>1, <3>0, <4>2, <4>3, <4>4, <4>5 DEF Same, PendingOK
    <3>3. ClassOK(client[d])'
      <4>1. Writes(client[d]) => Committed'[client[d].class] = Committed[client[d].class]
        BY <1>4, <1>5, <2>1, <2>3, KeyTypes
      <4> QED BY <1>1, <2>1, <3>0, <4>1
              DEF Same, ClassOK, Writes, ClassOps, ObjectOps
    <3>4. ReadOK(client[d])'
      <4> SUFFICES ASSUME client[d].op = "get", NEW i \in client[d].ids
                   PROVE  (/\ client[d].at \in {"lookup", "snap"} =>
                                <<i, Committed[<<client[d].class, i>>]>> \in client[d].seen
                           /\ client[d].at = "lookup" =>
                                <<i, Visible(<<client[d].class, i>>)>> \in client[d].seen
                           /\ client[d].at = "snap" =>
                                /\ <<i, base[<<client[d].class, i>>]>> \in client[d].seen
                                /\ \A n \in DOMAIN log :
                                     <<client[d].class, i>> \in log[n].keys =>
                                        <<i, ValueOf(log[n])>> \in client[d].seen
                           /\ client[d].at = "answered" =>
                                <<i, client[d].list[i]>> \in client[d].seen)'
        BY <3>0 DEF Same, ReadOK
      <4>0. PICK k : k = <<client[d].class, i>>
        OBVIOUS
      <4>1. k \in Key /\ k \in Object /\ k[2] = i /\ k[1] = client[d].class
        BY <2>1, <4>0, KeyTypes
      <4>2. Visible(k)' = Visible(k)
        BY <1>1 DEF Visible
      <4>3. k \in r.keys => <<i, ValueOf(r)>> \in client'[d].seen
        BY <1>3, <1>6, <2>3, <4>1 DEF Reads
      <4>4. CASE client[d].at = "lookup"
        BY <1>4, <2>1, <3>0, <4>0, <4>1, <4>2, <4>3, <4>4 DEF Same, ReadOK
      <4>5. CASE client[d].at = "snap"
        BY <1>1, <1>2, <1>4, <2>1, <3>0, <4>0, <4>1, <4>3, <4>5 DEF Same, ReadOK
      <4>6. CASE client[d].at = "answered"
        BY <2>1, <3>0, <4>6 DEF Same, ReadOK
      <4> QED BY <3>0, <4>4, <4>5, <4>6 DEF Same
    <3> QED BY <3>1, <3>2, <3>3, <3>4
  <2> QED BY <2>2, <2>3
<1>13. AloneOK'
  <2> SUFFICES ASSUME NEW d \in Client, NEW e \in Client, d # e
               PROVE  Apart(client[d], client[e])'
    BY DEF AloneOK
  <2>1. \A x \in Client : /\ client'[x].op = client[x].op
                          /\ client'[x].class = client[x].class
                          /\ client'[x].ids = client[x].ids
    BY <1>3, <1>7 DEF q, Same
  <2> QED BY <2>1 DEF EngineInv, AloneOK, Apart, Writes
<1>14. \A k : \A d \in Client : Publishing(d, k) =>
          Publishing(d, k)' /\ client'[d].tx = client[d].tx
  BY <1>1, <1>3, <1>8 DEF Publishing, Same
<1>15. \A k \in r.keys : Publishing(c, k)' /\ client'[c].tx = r.tx
  BY <1>7 DEF q, Publishing
<1>16. OverlaysOK'
  <2> SUFFICES ASSUME NEW k \in Key PROVE OverlayOK(k)'
    BY DEF OverlaysOK
  <2>1. OverlayOK(k) /\ overlay[k].tx \in Nat
    BY DEF EngineInv, OverlaysOK, TypeOK, Entry
  <2>2. overlay[k].tx <= nextTx'
    BY <1>1, <2>1 DEF OverlayOK
  <2>3. ASSUME NEW i \in DOMAIN log', k \in log'[i].keys
        PROVE  \/ log'[i].tx <= overlay[k].tx
               \/ \E d \in Client : Publishing(d, k)' /\ client'[d].tx = log'[i].tx
    <3>1. CASE i = last
      BY <1>2, <1>15, <2>3, <3>1
    <3>2. CASE i # last
      <4>1. i \in DOMAIN log /\ log'[i] = log[i]
        BY <1>2, <3>2
      <4> QED BY <1>14, <2>1, <2>3, <4>1 DEF OverlayOK
    <3> QED BY <3>1, <3>2
  <2>4. overlay[k].tx \in 1 .. applied =>
           base[k] = ValueOf(overlay[k]) \/ base[k] = Committed'[k]
    <3>1. CASE k \in r.keys
      <4>1. Visible(k) = Committed[k]
        BY <1>5, <3>1
      <4>2. overlay[k].tx \in 1 .. applied => Visible(k) = ValueOf(overlay[k])
        BY DEF Visible, NoEntry
      <4> QED BY <2>1, <4>1, <4>2 DEF OverlayOK
    <3>2. CASE k \notin r.keys
      BY <1>4, <2>1, <3>2 DEF OverlayOK
    <3> QED BY <3>1, <3>2
  <2> QED BY <1>1, <1>11, <2>1, <2>2, <2>3, <2>4 DEF OverlayOK
<1>17. OverlayCurrent'
  <2> SUFFICES ASSUME NEW k \in Key, k \notin Unpublished'
               PROVE  Visible(k)' = Committed'[k]
    BY DEF OverlayCurrent
  <2>1. \A d \in Client : ~Publishing(d, k)'
    BY DEF Unpublished, Publishing
  <2>2. k \notin r.keys
    BY <1>15, <2>1
  <2>3. k \notin Unpublished
    BY <1>14, <2>1 DEF Unpublished, Publishing
  <2>4. Visible(k) = Committed[k] /\ Visible(k)' = Visible(k)
    BY <1>1, <2>3 DEF EngineInv, OverlayCurrent, Visible
  <2> QED BY <1>4, <2>2, <2>4
<1>18. ClassesAgree'
  <2> SUFFICES ASSUME NEW class \in Class, ~Busy(class)' PROVE ClassAgrees(class)'
    BY DEF ClassesAgree
  <2>1. ~Busy(class)
    BY <1>3, <1>7 DEF q, Busy, Same
  <2>2. class \notin r.keys
    BY <1>6, <2>1 DEF Busy
  <2>3. Committed'[class] = Committed[class]
    BY <1>4, <2>2, KeyTypes
  <2> QED BY <1>1, <2>1, <2>3 DEF EngineInv, ClassesAgree, ClassAgrees
<1>19. EngineInv'
  BY <1>9, <1>10, <1>12, <1>13, <1>16, <1>17, <1>18 DEF EngineInv
<1>20. ASSUME OrderlyInv PROVE OrderlyInv'
  <2>1. \A class \in Class, i \in Id : /\ <<class, i>> \in Key
                                      /\ <<class, i>> \in Object /\ class \in Key
    BY KeyTypes
  <2>2. /\ ClassOK(p) /\ Numbered(p) /\ p.class \in Class
        /\ p.class \in Key /\ FitOK(p)
    BY <1>1, <1>20, KeysType, KeyTypes DEF EngineInv, RequestsOK, OrderlyInv
  <2>3. NoOrphans'
    <3> SUFFICES ASSUME NEW o \in Object, Committed'[o] # 0
                 PROVE  Committed'[o[1]] # 0
      BY DEF NoOrphans
    <3>1. o \in Key /\ o[1] \in Class /\ o[1] \in Key /\ o[2] \in Id /\ o = <<o[1], o[2]>>
      BY KeyTypes DEF Object
    <3>2. CASE o \in r.keys
      <4>1. p.op \in ObjectOps /\ o[1] = p.class
        BY <1>6, <3>2
      <4>2. o[1] \notin r.keys
        BY <1>6, <3>1, <4>1 DEF ClassOps, ObjectOps, Updates
      <4> QED BY <1>4, <2>2, <3>1, <4>1, <4>2 DEF ClassOK
    <3>3. CASE o \notin r.keys
      <4>1. Committed[o] # 0 /\ Committed[o[1]] # 0
        BY <1>4, <1>20, <3>1, <3>3 DEF OrderlyInv, NoOrphans
      <4>2. CASE o[1] \in r.keys
        <5>1. p.op \in ClassOps /\ o[1] = p.class
          BY <1>6, <3>1, <4>2
        <5>2. p.op # "dropClass"
          BY <1>1, <2>2, <3>1, <4>1, <5>1 DEF FitOK, Empty
        <5>3. r.live /\ r.tx # 0
          <6>1. Live(p)
            BY <5>1, <5>2 DEF Live, ClassOps
          <6> QED BY <1>1, <6>1
        <5> QED BY <1>4, <3>1, <4>2, <5>3 DEF ValueOf
      <4>3. CASE o[1] \notin r.keys
        BY <1>4, <3>1, <4>1, <4>3
      <4> QED BY <4>2, <4>3
    <3> QED BY <3>2, <3>3
  <2>4. IdsPassed'
    <3> SUFFICES ASSUME NEW class \in Class, NEW i \in Id, Committed'[<<class, i>>] # 0
                 PROVE  i <= counters[class]
      BY <1>1 DEF IdsPassed
    <3>1. CASE <<class, i>> \in r.keys
      <4>1. p.op \in ObjectOps /\ class = p.class /\ i \in p.ids
        BY <1>6, <2>1, <3>1
      <4> QED BY <2>2, <4>1 DEF Numbered
    <3>2. CASE <<class, i>> \notin r.keys
      BY <1>4, <1>20, <2>1, <3>2 DEF OrderlyInv, IdsPassed
    <3> QED BY <3>1, <3>2
  <2>5. ASSUME NEW d \in Client PROVE FitOK(client[d])'
    <3>1. FitOK(client[d]) /\ client[d] \in Request /\ client[d].class \in Class
          /\ client[d].ids \subseteq Id
      BY <1>20, KeysType DEF OrderlyInv, EngineInv, TypeOK
    <3>2. CASE d = c
      <4>1. p.op = "dropClass" => \A i \in Id : <<p.class, i>> \notin r.keys
        BY <1>6, <2>1, <2>2 DEF ObjectOps, Updates
      <4>2. p.op = "dropClass" => \A i \in Id : Committed'[<<p.class, i>>] = 0
        BY <1>1, <1>4, <2>1, <2>2, <4>1 DEF FitOK, Empty
      <4> QED BY <1>1, <1>7, <2>2, <3>2, <4>2 DEF q, FitOK, Updates, Empty
    <3>3. CASE d # c
      <4>1. Same(client[d], client'[d])
        BY <1>3, <3>3
      <4>2. CASE client[d].op = "dropClass"
        <5>1. Writes(client[d]) /\ Apart(p, client[d])
          BY <3>3, <4>2 DEF Writes, ClassOps, EngineInv, AloneOK
        <5>2. p.class # client[d].class
          BY <1>1, <4>2, <5>1 DEF Apart, Writes, ObjectOps, Updates
        <5>3. \A i \in Id : <<client[d].class, i>> \notin r.keys
          BY <1>6, <2>1, <3>1, <5>2
        <5>4. \A i \in Id : Committed'[<<client[d].class, i>>]
                               = Committed[<<client[d].class, i>>]
          BY <1>4, <2>1, <3>1, <5>3
        <5> QED BY <1>1, <3>1, <4>1, <4>2, <5>4 DEF Same, FitOK, Updates, Empty
      <4>3. CASE client[d].op \in ObjectOps
        <5>1. KeysOf(client[d]) \cap r.keys = {}
          BY <1>5, <3>3, <4>3 DEF Writes
        <5>2. KeysOf(client[d]) = {<<client[d].class, i>> : i \in client[d].ids}
          BY <3>1, <4>3, KeysType DEF ObjectOps, Updates, ClassOps
        <5>3. \A i \in client[d].ids :
                 /\ <<client[d].class, i>> \notin r.keys
                 /\ Committed'[<<client[d].class, i>>] = Committed[<<client[d].class, i>>]
          BY <1>4, <2>1, <3>1, <5>1, <5>2
        <5>4. (\A i \in client[d].ids, n \in DOMAIN log :
                  <<client[d].class, i>> \notin log[n].keys) =>
              (\A i \in client[d].ids, n \in DOMAIN log' :
                  <<client[d].class, i>> \notin log'[n].keys)
          BY <1>2, <5>3
        <5> QED BY <3>1, <4>1, <4>3, <5>3, <5>4 DEF Same, FitOK, ObjectOps, Updates
      <4>4. CASE client[d].op \notin ObjectOps \union {"dropClass"}
        BY <4>1, <4>4 DEF Same, FitOK, ObjectOps
      <4> QED BY <4>2, <4>3, <4>4
    <3> QED BY <3>2, <3>3
  <2> QED BY <2>3, <2>4, <2>5 DEF OrderlyInv
<1> QED BY <1>19, <1>20

(***************************************************************************)
(* A record comes to the overlay: it is the last of its keys, so that what *)
(* the overlay shows of them is what is durable.                           *)
(***************************************************************************)
LEMMA PublishKeeps ==
  ASSUME EngineInv, NEW c \in Client, Publish(c)
  PROVE  EngineInv' /\ (OrderlyInv => OrderlyInv')
<1> DEFINE p == client[c]
           e == EntryOf(p)
<1>1. /\ p \in Request /\ p.at = "publish" /\ StepOK(p) /\ Numbered(p)
      /\ PendingOK(p) /\ ClassOK(p) /\ Writes(p)
      /\ KeysOf(p) \subseteq Key /\ p.tx \in Nat \ {0} /\ p.tx <= nextTx /\ nextTx \in Nat
      /\ p.op \in ClassOps \union ObjectOps
  <2>1. /\ p \in Request /\ p.at = "publish" /\ StepOK(p) /\ Numbered(p)
        /\ PendingOK(p) /\ ClassOK(p) /\ nextTx \in Nat
    BY DEF EngineInv, RequestsOK, TypeOK, Publish
  <2>2. KeysOf(p) \subseteq Key
    BY <2>1, KeysType
  <2>3. p.tx \in Nat \ {0} /\ p.tx <= nextTx
    BY <2>1 DEF PendingOK
  <2> QED BY <2>1, <2>2, <2>3 DEF StepOK, StepOps, Writes
<1>2. /\ overlay' = [k \in Key |-> IF k \in KeysOf(p) THEN e ELSE overlay[k]]
      /\ UNCHANGED <<log, base, applied, nextTx, classes, counters, ck, cut, overtaken>>
      /\ Committed' = Committed
  BY DEF Publish, EntryOf, Live, Committed
<1>3. e \in Entry /\ e # NoEntry /\ e.tx = p.tx
  BY <1>1 DEF EntryOf, Entry, NoEntry, Live
<1>4. PICK q \in Request :
         /\ client' = [client EXCEPT ![c] = q] /\ q.at \in {"idle", "register"}
         /\ StepOK(q) /\ Numbered(q) /\ ClassOK(q) /\ q.op # "get"
         /\ \A r : (Apart(p, r) => Apart(q, r)) /\ (Apart(r, p) => Apart(r, q))
         /\ p.op \in ClassOps => q.op = p.op /\ q.class = p.class
         /\ q.op \in ClassOps => q.op = p.op /\ q.class = p.class
         /\ FitOK(p) => FitOK(q)
  <2>1. CASE p.op \in ClassOps
    <3> DEFINE q == [p EXCEPT !.at = "register"]
    <3>1. client' = [client EXCEPT ![c] = q]
      BY <2>1 DEF Publish, GoTo, Set
    <3>2. /\ q \in Request /\ q.at = "register" /\ q.op = p.op /\ q.class = p.class
          /\ q.ids = p.ids
      BY <1>1 DEF Request
    <3> HIDE DEF q
    <3>3. StepOK(q) /\ Numbered(q) /\ q.op # "get"
      BY <1>1, <2>1, <3>2 DEF StepOK, StepOps, Numbered, ClassOps, SingleOps, Updates
    <3>4. ClassOK(q)
      BY <1>1, <2>1, <3>2 DEF ClassOK, ClassOps, ObjectOps, Updates
    <3>5. \A r : (Apart(p, r) => Apart(q, r)) /\ (Apart(r, p) => Apart(r, q))
      BY <3>2 DEF Apart, Writes
    <3>6. FitOK(p) => FitOK(q)
      BY <1>1, <2>1, <3>2 DEF FitOK, ClassOps, Updates
    <3> QED BY <3>1, <3>2, <3>3, <3>4, <3>5, <3>6
  <2>2. CASE p.op \notin ClassOps
    <3>1. client' = [client EXCEPT ![c] = Idle]
      BY <2>2 DEF Publish, Return, Set
    <3>2. StepOK(Idle) /\ Numbered(Idle) /\ ClassOK(Idle) /\ FitOK(Idle)
      BY IdleType DEF StepOK, StepOps, Numbered, ClassOK, FitOK, SingleOps,
         ObjectOps, Updates
    <3>3. \A r : Apart(Idle, r) /\ Apart(r, Idle)
      BY IdleType DEF Apart, Writes, ClassOps, ObjectOps, Updates
    <3> QED BY <2>2, <3>1, <3>2, <3>3, IdleType DEF ClassOps
  <2> QED BY <2>1, <2>2
<1>5. /\ client' \in [Client -> Request] /\ client'[c] = q
      /\ \A d \in Client \ {c} : client'[d] = client[d]
  BY <1>4 DEF EngineInv, TypeOK
<1>6. \A k \in Key : /\ k \in KeysOf(p) => overlay'[k] = e
                     /\ k \notin KeysOf(p) => overlay'[k] = overlay[k]
  BY <1>2
<1>7. \A k \in KeysOf(p) : /\ Visible(k)' = Committed[k]
                          /\ \A d \in Client \ {c} : ~Publishing(d, k)
  <2>1. \A k \in KeysOf(p) : Visible(k)' = ValueOf(e)
    BY <1>1, <1>3, <1>6 DEF Visible
  <2>2. \A k \in KeysOf(p) : Committed[k] = ValueOf(e)
    BY <1>1 DEF PendingOK
  <2> QED BY <1>1, <2>1, <2>2, AlonePublishes
<1>8. \A k \in Key \ KeysOf(p) : Visible(k)' = Visible(k)
  BY <1>2, <1>6 DEF Visible
<1>9. TypeOK'
  BY <1>2, <1>3, <1>5 DEF EngineInv, TypeOK
<1>10. TxShape'
  BY <1>2 DEF EngineInv, TxShape
<1>11. RequestsOK'
  <2> SUFFICES ASSUME NEW d \in Client
               PROVE  (/\ StepOK(client[d]) /\ Numbered(client[d])
                       /\ PendingOK(client[d])
                       /\ ClassOK(client[d]) /\ ReadOK(client[d]))'
    BY DEF RequestsOK
  <2>1. CASE d = c
    BY <1>2, <1>4, <1>5, <2>1 DEF StepOK, Numbered, PendingOK, ClassOK, ReadOK
  <2>2. CASE d # c
    <3>1. client'[d] = client[d]
      BY <1>5, <2>2
    <3>2. /\ StepOK(client[d]) /\ Numbered(client[d]) /\ PendingOK(client[d])
          /\ ClassOK(client[d]) /\ ReadOK(client[d])
          /\ client[d].class \in Class /\ client[d].ids \subseteq Id
      BY KeysType DEF EngineInv, RequestsOK, TypeOK
    <3>3. StepOK(client[d])' /\ Numbered(client[d])' /\ PendingOK(client[d])'
      BY <1>2, <3>1, <3>2 DEF StepOK, Numbered, PendingOK, InLog
    <3>4. ClassOK(client[d])'
      BY <1>2, <3>1, <3>2 DEF ClassOK
    <3>5. \A k \in Key : Visible(k)' = Visible(k) \/ Visible(k)' = Committed[k]
      BY <1>7, <1>8
    <3>6. \A i \in client[d].ids : <<client[d].class, i>> \in Key
      BY <3>2, KeyTypes
    <3>7. ReadOK(client[d])'
      BY <1>2, <3>1, <3>2, <3>5, <3>6 DEF ReadOK
    <3> QED BY <3>3, <3>4, <3>7
  <2> QED BY <2>1, <2>2
<1>12. AloneOK'
  BY <1>4, <1>5 DEF EngineInv, AloneOK
<1>13. OverlaysOK'
  <2> SUFFICES ASSUME NEW k \in Key PROVE OverlayOK(k)'
    BY DEF OverlaysOK
  <2>1. OverlayOK(k) /\ \A x : InLog(k, x)' <=> InLog(k, x)
    BY <1>2 DEF EngineInv, OverlaysOK, InLog
  <2>2. CASE k \in KeysOf(p)
    <3>1. /\ \A i \in DOMAIN log : k \in log[i].keys => log[i].tx <= e.tx
          /\ e.tx > applied => InLog(k, e)
      BY <1>1, <1>3, <2>2 DEF PendingOK
    <3>2. e.tx \in 1 .. applied => base[k] = Committed[k]
      <4> SUFFICES ASSUME e.tx \in 1 .. applied PROVE base[k] = Committed[k]
        OBVIOUS
      <4>1. log \in Seq(Record) /\ applied \in Nat /\ base \in [Key -> Nat]
        BY DEF EngineInv, TypeOK
      <4>2. ASSUME NEW i \in DOMAIN log, k \in log[i].keys PROVE FALSE
        <5>1. log[i].tx \in Nat /\ applied < log[i].tx /\ log[i].tx <= e.tx
          BY <3>1, <4>1, <4>2, RecordType DEF EngineInv, TxShape
        <5> HIDE DEF e
        <5> QED BY <4>1, <5>1
      <4> QED BY <4>1, <4>2, AppliedNone DEF Committed
    <3>3. overlay'[k] = e
      BY <1>6, <2>2
    <3> QED BY <1>1, <1>2, <1>3, <2>1, <3>1, <3>2, <3>3 DEF OverlayOK
  <2>3. CASE k \notin KeysOf(p)
    <3>1. \A d \in Client : Publishing(d, k) => Publishing(d, k)' /\ client'[d] = client[d]
      BY <1>5, <2>3 DEF Publishing
    <3> QED BY <1>2, <1>6, <2>1, <2>3, <3>1 DEF OverlayOK
  <2> QED BY <2>2, <2>3
<1>14. OverlayCurrent'
  <2> SUFFICES ASSUME NEW k \in Key, k \notin Unpublished'
               PROVE  Visible(k)' = Committed'[k]
    BY DEF OverlayCurrent
  <2>1. CASE k \in KeysOf(p)
    BY <1>2, <1>7, <2>1
  <2>2. CASE k \notin KeysOf(p)
    <3>1. k \notin Unpublished
      BY <1>5, <2>2 DEF Unpublished
    <3> QED BY <1>2, <1>8, <2>2, <3>1 DEF EngineInv, OverlayCurrent
  <2> QED BY <2>1, <2>2
<1>15. ClassesAgree'
  <2>1. \A class \in Class : Busy(class) => Busy(class)'
    BY <1>4, <1>5 DEF Busy
  <2> QED BY <1>2, <2>1 DEF EngineInv, ClassesAgree, ClassAgrees
<1>16. ASSUME OrderlyInv PROVE OrderlyInv'
  <2>1. NoOrphans' /\ IdsPassed'
    BY <1>2, <1>16 DEF OrderlyInv, NoOrphans, IdsPassed
  <2>2. ASSUME NEW d \in Client PROVE FitOK(client[d])'
    <3>1. PICK x \in Request : x = client'[d] /\ FitOK(x)
      BY <1>4, <1>5, <1>16 DEF OrderlyInv
    <3>2. ASSUME NEW i \in Id, overlay[<<x.class, i>>] # NoEntry
          PROVE  overlay'[<<x.class, i>>] # NoEntry
      <4>1. <<x.class, i>> \in Key
        BY KeyTypes DEF Request
      <4> QED BY <1>3, <1>6, <3>2, <4>1
    <3> QED BY <1>2, <3>1, <3>2 DEF FitOK, Empty
  <2> QED BY <2>1, <2>2 DEF OrderlyInv
<1> QED BY <1>9, <1>10, <1>11, <1>12, <1>13, <1>14, <1>15, <1>16 DEF EngineInv

(***************************************************************************)
(* The class set changes for the class whose only writer the request is.   *)
(***************************************************************************)
LEMMA RegisterKeeps ==
  ASSUME EngineInv, NEW c \in Client, Register(c)
  PROVE  EngineInv' /\ (OrderlyInv => OrderlyInv')
<1> DEFINE p == client[c]
<1>1. /\ p \in Request /\ p.at = "register" /\ StepOK(p) /\ ClassOK(p)
      /\ p.op \in ClassOps /\ p.class \in Class
  BY DEF EngineInv, RequestsOK, TypeOK, Register, StepOK, StepOps, Request
<1>2. /\ UNCHANGED <<log, base, applied, nextTx, overlay, counters, ck, cut, overtaken>>
      /\ Committed' = Committed /\ \A k : Visible(k)' = Visible(k)
  BY DEF Register, Committed, Visible
<1>3. /\ classes' \subseteq Class
      /\ \A class \in Class \ {p.class} : class \in classes' <=> class \in classes
  BY <1>1 DEF EngineInv, TypeOK, Register
<1>4. PICK q \in Request :
         /\ client' = [client EXCEPT ![c] = q] /\ q.at \in {"idle", "forget"}
         /\ StepOK(q) /\ Numbered(q) /\ q.op \notin ObjectOps \union {"get"}
         /\ \A r : (Apart(p, r) => Apart(q, r)) /\ (Apart(r, p) => Apart(r, q))
         /\ q.op \in ClassOps =>
               /\ q.op = "dropClass" /\ q.class = p.class /\ q.at = "forget"
               /\ p.class \notin classes' /\ Committed[p.class] = 0
         /\ q.op \notin ClassOps => p.class \in classes' /\ Committed[p.class] # 0
         /\ FitOK(p) => FitOK(q)
  <2>1. CASE p.op = "dropClass"
    <3> DEFINE q == [p EXCEPT !.at = "forget"]
    <3>1. client' = [client EXCEPT ![c] = q] /\ classes' = classes \ {p.class}
      BY <2>1 DEF Register, GoTo, Set
    <3>2. /\ q \in Request /\ q.at = "forget" /\ q.op = p.op /\ q.class = p.class
          /\ q.ids = p.ids
      BY <1>1 DEF Request
    <3> HIDE DEF q
    <3>3. StepOK(q) /\ Numbered(q) /\ q.op \notin ObjectOps \union {"get"}
      BY <1>1, <2>1, <3>2 DEF StepOK, StepOps, Numbered, SingleOps, ObjectOps, Updates
    <3>4. Committed[p.class] = 0 /\ q.op \in ClassOps
      BY <1>1, <2>1, <3>2 DEF ClassOK
    <3>5. \A r : (Apart(p, r) => Apart(q, r)) /\ (Apart(r, p) => Apart(r, q))
      BY <3>2 DEF Apart, Writes
    <3>6. FitOK(p) => FitOK(q)
      BY <1>1, <2>1, <3>2 DEF FitOK, Updates
    <3> QED BY <2>1, <3>1, <3>2, <3>3, <3>4, <3>5, <3>6
  <2>2. CASE p.op = "createClass"
    <3>1. client' = [client EXCEPT ![c] = Idle] /\ classes' = classes \union {p.class}
      BY <2>2 DEF Register, Return, Set
    <3>2. StepOK(Idle) /\ Numbered(Idle) /\ FitOK(Idle) /\ Idle.op \notin ClassOps
          /\ Idle.op \notin ObjectOps \union {"get"}
      BY IdleType DEF StepOK, StepOps, Numbered, FitOK, SingleOps, ObjectOps,
         Updates, ClassOps
    <3>3. \A r : Apart(Idle, r) /\ Apart(r, Idle)
      BY IdleType DEF Apart, Writes, ClassOps, ObjectOps, Updates
    <3>4. Committed[p.class] # 0
      BY <1>1, <2>2 DEF ClassOK
    <3> QED BY <3>1, <3>2, <3>3, <3>4, IdleType
  <2> QED BY <1>1, <2>1, <2>2 DEF ClassOps
<1>5. /\ client' \in [Client -> Request] /\ client'[c] = q
      /\ \A d \in Client \ {c} : client'[d] = client[d]
  BY <1>4 DEF EngineInv, TypeOK
<1>6. TypeOK'
  BY <1>2, <1>3, <1>5 DEF EngineInv, TypeOK
<1>7. TxShape'
  BY <1>2 DEF EngineInv, TxShape
<1>8. RequestsOK'
  <2> SUFFICES ASSUME NEW d \in Client
               PROVE  (/\ StepOK(client[d]) /\ Numbered(client[d])
                       /\ PendingOK(client[d])
                       /\ ClassOK(client[d]) /\ ReadOK(client[d]))'
    BY DEF RequestsOK
  <2>1. CASE d = c
    <3>1. ClassOK(client[d])'
      BY <1>2, <1>4, <1>5, <2>1 DEF ClassOK, ClassOps
    <3> QED BY <1>2, <1>4, <1>5, <2>1, <3>1 DEF StepOK, Numbered, PendingOK, ReadOK
  <2>2. CASE d # c
    <3>1. client'[d] = client[d]
      BY <1>5, <2>2
    <3>2. /\ StepOK(client[d]) /\ Numbered(client[d]) /\ PendingOK(client[d])
          /\ ClassOK(client[d]) /\ ReadOK(client[d]) /\ client[d].class \in Class
      BY KeysType DEF EngineInv, RequestsOK, TypeOK
    <3>3. StepOK(client[d])' /\ Numbered(client[d])' /\ PendingOK(client[d])'
      BY <1>2, <3>1, <3>2 DEF StepOK, Numbered, PendingOK, InLog
    <3>4. ClassOK(client[d])'
      <4>1. Writes(client[d]) => client[d].class # p.class
        BY <1>1, <2>2, ClassAlone
      <4>2. Writes(client[d]) => (client[d].class \in classes' <=> client[d].class \in classes)
        BY <1>3, <3>2, <4>1
      <4> QED BY <1>2, <3>1, <3>2, <4>2 DEF ClassOK, Writes, ClassOps
    <3>5. ReadOK(client[d])'
      BY <1>2, <3>1, <3>2 DEF ReadOK
    <3> QED BY <3>3, <3>4, <3>5
  <2> QED BY <2>1, <2>2
<1>9. AloneOK'
  BY <1>4, <1>5 DEF EngineInv, AloneOK
<1>10. \A k : \A d \in Client : Publishing(d, k)' <=> Publishing(d, k)
  BY <1>1, <1>4, <1>5 DEF Publishing
<1>11. \A k : \A d \in Client : Publishing(d, k) => client'[d] = client[d]
  BY <1>1, <1>5 DEF Publishing
<1>12. OverlaysOK'
  <2> SUFFICES ASSUME NEW k \in Key PROVE OverlayOK(k)'
    BY DEF OverlaysOK
  <2> QED BY <1>2, <1>10, <1>11 DEF EngineInv, OverlaysOK, OverlayOK, InLog
<1>13. OverlayCurrent'
  <2>1. Unpublished' = Unpublished
    BY <1>1, <1>4, <1>5 DEF Unpublished
  <2> QED BY <1>2, <2>1 DEF EngineInv, OverlayCurrent
<1>14. ClassesAgree'
  <2> SUFFICES ASSUME NEW class \in Class, ~Busy(class)' PROVE ClassAgrees(class)'
    BY DEF ClassesAgree
  <2>1. CASE class = p.class
    <3>1. q.op \notin ClassOps
      BY <1>4, <1>5, <2>1 DEF Busy
    <3> QED BY <1>2, <1>4, <2>1, <3>1 DEF ClassAgrees
  <2>2. CASE class # p.class
    <3>1. ~Busy(class)
      BY <1>5, <2>2 DEF Busy
    <3> QED BY <1>2, <1>3, <2>2, <3>1 DEF EngineInv, ClassesAgree, ClassAgrees
  <2> QED BY <2>1, <2>2
<1>15. ASSUME OrderlyInv PROVE OrderlyInv'
  <2>1. NoOrphans' /\ IdsPassed'
    BY <1>2, <1>15 DEF OrderlyInv, NoOrphans, IdsPassed
  <2>2. ASSUME NEW d \in Client PROVE FitOK(client[d])'
    <3>1. PICK x : x = client'[d] /\ FitOK(x)
      BY <1>4, <1>5, <1>15 DEF OrderlyInv
    <3> QED BY <1>2, <3>1 DEF FitOK, Empty
  <2> QED BY <2>1, <2>2 DEF OrderlyInv
<1> QED BY <1>6, <1>7, <1>8, <1>9, <1>12, <1>13, <1>14, <1>15 DEF EngineInv

-----------------------------------------------------------------------------
(***************************************************************************)
(* Checkpoints.  The cut changes nothing yet.                              *)
(***************************************************************************)
LEMMA RotateKeeps ==
  ASSUME EngineInv, Rotate
  PROVE  EngineInv' /\ (OrderlyInv => OrderlyInv')
<1>1. /\ UNCHANGED <<log, base, applied, nextTx, overlay, classes, counters,
                     client, overtaken>>
      /\ cut' = Len(log) /\ ck' = "build"
      /\ Committed' = Committed /\ \A k : Visible(k)' = Visible(k)
      /\ Unpublished' = Unpublished
  <2>1. /\ UNCHANGED <<log, base, applied, nextTx, overlay, classes, counters,
                       client, overtaken>>
        /\ cut' = Len(log) /\ ck' = "build"
    BY DEF Rotate
  <2>2. Committed' = Committed /\ \A k : Visible(k)' = Visible(k)
    BY <2>1 DEF Committed, Visible
  <2>3. Unpublished' = Unpublished
    BY <2>1 DEF Unpublished, Publishing
  <2> QED BY <2>1, <2>2, <2>3
<1>2. TypeOK'
  <2>1. log \in Seq(Record)
    BY DEF EngineInv, TypeOK
  <2>2. Len(log) \in 0 .. Len(log)
    BY <2>1
  <2> QED BY <1>1, <2>2 DEF EngineInv, TypeOK
<1>3. TxShape' /\ AloneOK'
  BY <1>1 DEF EngineInv, TxShape, AloneOK
<1>4. RequestsOK'
  <2> SUFFICES ASSUME NEW c \in Client
               PROVE  /\ StepOK(client[c])' /\ Numbered(client[c])'
                      /\ PendingOK(client[c])' /\ ClassOK(client[c])'
                      /\ ReadOK(client[c])'
    BY <1>1 DEF RequestsOK
  <2> DEFINE q == client[c]
  <2>1. client[c]' = q
    BY <1>1
  <2>2. StepOK(q) /\ Numbered(q) /\ PendingOK(q) /\ ClassOK(q) /\ ReadOK(q)
    BY DEF EngineInv, RequestsOK
  <2> HIDE DEF q
  <2>7. StepOK(client[c])'
    BY <1>1, <2>2 DEF StepOK, q
  <2>3. Numbered(client[c])'
    BY <1>1, <2>1, <2>2 DEF Numbered
  <2>4. PendingOK(client[c])'
    <3>1. \A k, e : InLog(k, e)' <=> InLog(k, e)
      BY <1>1 DEF InLog
    <3> QED BY <1>1, <2>1, <2>2, <3>1 DEF PendingOK
  <2>5. ClassOK(client[c])'
    BY <1>1, <2>1, <2>2 DEF ClassOK
  <2>6. ReadOK(client[c])'
    BY <1>1, <2>1, <2>2 DEF ReadOK
  <2> QED BY <2>3, <2>4, <2>5, <2>6, <2>7
<1>5. OverlaysOK'
  BY <1>1 DEF EngineInv, OverlaysOK, OverlayOK, InLog, Publishing
<1>6. OverlayCurrent'
  BY <1>1 DEF EngineInv, OverlayCurrent
<1>7. ClassesAgree'
  BY <1>1 DEF EngineInv, ClassesAgree, ClassAgrees, Busy
<1>8. ASSUME OrderlyInv PROVE OrderlyInv'
  <2>1. NoOrphans' /\ IdsPassed'
    BY <1>1, <1>8 DEF OrderlyInv, NoOrphans, IdsPassed
  <2>2. \A c \in Client : FitOK(client[c])'
    BY <1>1, <1>8 DEF OrderlyInv, FitOK, Empty
  <2> QED BY <2>1, <2>2 DEF OrderlyInv
<1> QED BY <1>2, <1>3, <1>4, <1>5, <1>6, <1>7, <1>8 DEF EngineInv

(***************************************************************************)
(* The fold moves records from the log to the generation: the content they *)
(* make together, and the place of the log above the generation, stay.     *)
(***************************************************************************)
LEMMA FoldFacts ==
  ASSUME EngineInv, FoldCut
  PROVE  /\ log \in Seq(Record) /\ log' \in Seq(Record) /\ cut \in Nat /\ cut' = 0
         /\ base' \in [Key -> Nat] /\ applied \in Nat /\ applied' \in Nat
         /\ Committed' = Committed
         /\ \A i \in DOMAIN log : i <= cut => log[i].tx <= applied'
         /\ \A i \in DOMAIN log : i > cut => i - cut \in DOMAIN log' /\ log'[i - cut] = log[i]
         /\ \A i \in DOMAIN log' : cut + i \in DOMAIN log /\ log'[i] = log[cut + i]
         /\ \A i \in DOMAIN log' : applied' < log'[i].tx /\ log'[i].tx <= nextTx
         /\ \A i, j \in DOMAIN log' : i < j => log'[i].tx < log'[j].tx
         /\ applied <= applied' /\ applied' <= nextTx
         /\ LastTx(applied', log') = nextTx
         /\ \A k \in Key :
               \/ /\ base'[k] = base[k]
                  /\ \A i \in DOMAIN log : i <= cut => k \notin log[i].keys
               \/ \E i \in DOMAIN log :
                     /\ i <= cut /\ k \in log[i].keys /\ base'[k] = ValueOf(log[i])
                     /\ \A j \in DOMAIN log : j <= cut /\ k \in log[j].keys => j <= i
<1> DEFINE pre == SubSeq(log, 1, cut)
           suf == SubSeq(log, cut + 1, Len(log))
<1>1. /\ log \in Seq(Record) /\ cut \in 0 .. Len(log) /\ cut \in Nat /\ Len(log) \in Nat
      /\ base \in [Key -> Nat] /\ applied \in Nat /\ nextTx \in Nat
      /\ DOMAIN log = 1 .. Len(log)
  BY RecordType DEF EngineInv, TypeOK
<1>2. base' = Applied(base, pre) /\ applied' = LastTx(applied, pre) /\ log' = suf /\ cut' = 0
  BY DEF FoldCut
<1>3. /\ pre \in Seq(Record) /\ Len(pre) = cut /\ DOMAIN pre = 1 .. cut
      /\ suf \in Seq(Record) /\ Len(suf) = Len(log) - cut
      /\ DOMAIN suf = 1 .. Len(log) - cut
      /\ \A i \in 1 .. cut : i \in DOMAIN log /\ pre[i] = log[i]
      /\ \A i \in 1 .. Len(log) - cut : cut + i \in DOMAIN log /\ suf[i] = log[cut + i]
      /\ \A i \in DOMAIN log : i > cut => i - cut \in DOMAIN suf /\ suf[i - cut] = log[i]
      /\ \A i \in DOMAIN log : i <= cut => i \in DOMAIN pre /\ pre[i] = log[i]
  BY <1>1, CutProperties
<1>4. base' \in [Key -> Nat]
  BY <1>1, <1>2, <1>3, AppliedType
<1>5. Committed' = Committed
  <2>1. Committed' = Applied(base', log')
    BY DEF Committed, Applied, LastOf
  <2>2. Applied(base', log') = Applied(Applied(base, pre), suf)
    BY <1>2
  <2> QED BY <1>1, <2>1, <2>2, AppliedCut DEF Committed
<1> HIDE DEF pre, suf
<1>6. /\ \A i \in DOMAIN log : log[i].tx \in Nat /\ applied < log[i].tx /\ log[i].tx <= nextTx
      /\ \A i, j \in DOMAIN log : i < j => log[i].tx < log[j].tx
      /\ applied <= nextTx /\ LastTx(applied, log) = nextTx
  BY <1>1, RecordType DEF EngineInv, TxShape
<1>7. /\ \A i \in DOMAIN log : i <= cut => log[i].tx <= applied'
      /\ \A i \in DOMAIN log' : applied' < log'[i].tx /\ log'[i].tx <= nextTx
      /\ applied <= applied' /\ applied' <= nextTx /\ applied' \in Nat
      /\ LastTx(applied', log') = nextTx
  <2>1. CASE cut = 0
    <3>1. pre = <<>> /\ applied' = applied
      BY <1>2, <1>3, <2>1 DEF LastTx
    <3>2. \A i \in DOMAIN log' : cut + i = i /\ i \in DOMAIN log /\ log'[i] = log[i]
      BY <1>1, <1>2, <1>3, <2>1
    <3>3. Len(log') = Len(log)
      BY <1>1, <1>2, <1>3, <2>1
    <3>4. log' = log
      BY <1>1, <1>2, <1>3, <3>2, <3>3
    <3> QED BY <1>1, <1>6, <2>1, <3>1, <3>4
  <2>2. CASE cut # 0
    <3>1. /\ pre # <<>> /\ applied' = log[cut].tx /\ cut \in DOMAIN log
          /\ cut \in 1 .. cut
      BY <1>1, <1>2, <1>3, <2>2 DEF LastTx
    <3>2. /\ applied <= applied' /\ applied' <= nextTx /\ applied' \in Nat
      BY <1>1, <1>6, <3>1
    <3>3. \A i \in DOMAIN log : i <= cut => log[i].tx <= applied'
      <4> SUFFICES ASSUME NEW i \in DOMAIN log, i <= cut PROVE log[i].tx <= applied'
        OBVIOUS
      <4>1. CASE i = cut
        BY <1>6, <3>1, <4>1
      <4>2. CASE i < cut
        BY <1>6, <3>1, <4>2
      <4> QED BY <1>1, <4>1, <4>2
    <3>4. \A i \in DOMAIN log' : applied' < log'[i].tx /\ log'[i].tx <= nextTx
      <4> SUFFICES ASSUME NEW i \in DOMAIN log'
                   PROVE  applied' < log'[i].tx /\ log'[i].tx <= nextTx
        OBVIOUS
      <4>1. cut + i \in DOMAIN log /\ log'[i] = log[cut + i] /\ cut < cut + i
        BY <1>1, <1>2, <1>3
      <4> QED BY <1>6, <3>1, <4>1
    <3>5. LastTx(applied', log') = nextTx
      <4>1. log # <<>> /\ nextTx = log[Len(log)].tx
        BY <1>1, <1>6, <3>1 DEF LastTx
      <4>2. CASE cut = Len(log)
        <5>1. log' = <<>>
          BY <1>1, <1>2, <1>3, <4>2
        <5> QED BY <3>1, <4>1, <4>2, <5>1 DEF LastTx
      <4>3. CASE cut # Len(log)
        <5>1. /\ Len(log') = Len(log) - cut /\ Len(log') \in 1 .. Len(log) - cut
              /\ cut + Len(log') = Len(log)
          <6>1. cut < Len(log)
            <7>1. cut <= Len(log) /\ cut \in Nat /\ Len(log) \in Nat
              BY <1>1
            <7> QED BY <4>3, <7>1
          <6>2. Len(log') = Len(log) - cut
            BY <1>2, <1>3
          <6> QED BY <1>1, <6>1, <6>2
        <5>2. log'[Len(log')] = log[Len(log)] /\ log' # <<>>
          BY <1>2, <1>3, <5>1
        <5> QED BY <4>1, <5>2 DEF LastTx
      <4> QED BY <4>2, <4>3
    <3> QED BY <3>2, <3>3, <3>4, <3>5
  <2> QED BY <2>1, <2>2
<1>8. ASSUME NEW i \in DOMAIN log', NEW j \in DOMAIN log', i < j
      PROVE  log'[i].tx < log'[j].tx
  <2>1. /\ cut + i \in DOMAIN log /\ log'[i] = log[cut + i]
        /\ cut + j \in DOMAIN log /\ log'[j] = log[cut + j]
        /\ cut + i < cut + j
    BY <1>1, <1>2, <1>3, <1>8
  <2> QED BY <1>6, <2>1
<1>9. ASSUME NEW k \in Key
       PROVE  \/ /\ base'[k] = base[k]
                 /\ \A i \in DOMAIN log : i <= cut => k \notin log[i].keys
              \/ \E i \in DOMAIN log :
                    /\ i <= cut /\ k \in log[i].keys /\ base'[k] = ValueOf(log[i])
                    /\ \A j \in DOMAIN log : j <= cut /\ k \in log[j].keys => j <= i
  <2>1. CASE \A i \in DOMAIN pre : k \notin pre[i].keys
    <3>1. base'[k] = base[k]
      BY <1>1, <1>2, <1>3, <2>1, AppliedNone
    <3>2. \A i \in DOMAIN log : i <= cut => k \notin log[i].keys
      BY <1>3, <2>1
    <3> QED BY <3>1, <3>2
  <2>2. ASSUME NEW i \in DOMAIN pre, k \in pre[i].keys,
               \A j \in DOMAIN pre : k \in pre[j].keys => j <= i
        PROVE  \E n \in DOMAIN log :
                    /\ n <= cut /\ k \in log[n].keys /\ base'[k] = ValueOf(log[n])
                    /\ \A j \in DOMAIN log : j <= cut /\ k \in log[j].keys => j <= n
    <3>1. base'[k] = ValueOf(pre[i])
      BY <1>1, <1>2, <1>3, <2>2, AppliedLast
    <3>2. i \in DOMAIN log /\ pre[i] = log[i] /\ i <= cut
      BY <1>1, <1>3
    <3>3. \A j \in DOMAIN log : j <= cut /\ k \in log[j].keys => j <= i
      BY <1>3, <2>2
    <3> QED BY <2>2, <3>1, <3>2, <3>3
  <2> QED BY <1>3, <2>1, <2>2, LastRecord
<1>10. /\ log' \in Seq(Record)
       /\ \A i \in DOMAIN log : i > cut => i - cut \in DOMAIN log' /\ log'[i - cut] = log[i]
       /\ \A i \in DOMAIN log' : cut + i \in DOMAIN log /\ log'[i] = log[cut + i]
  BY <1>2, <1>3
<1> QED BY <1>1, <1>2, <1>4, <1>5, <1>7, <1>8, <1>9, <1>10

(***************************************************************************)
(* What a log needs of the fold: records stay unless they are folded.      *)
(***************************************************************************)
LEMMA FoldKeepsLog ==
  ASSUME EngineInv, FoldCut
  PROVE  /\ \A i \in DOMAIN log' : \E j \in DOMAIN log : log[j] = log'[i]
         /\ \A k \in Key, e \in Entry :
               InLog(k, e) =>
                  \/ /\ e.tx > applied'
                     /\ \E i \in DOMAIN log' : /\ log'[i].tx = e.tx /\ log'[i].live = e.live
                                               /\ k \in log'[i].keys
                  \/ e.tx <= applied' /\ ~(e.tx > applied')
<1>1. /\ log \in Seq(Record) /\ cut \in Nat /\ applied' \in Nat /\ DOMAIN log \subseteq Nat
      /\ \A i \in DOMAIN log : i <= cut => log[i].tx <= applied'
      /\ \A i \in DOMAIN log : i > cut => i - cut \in DOMAIN log' /\ log'[i - cut] = log[i]
      /\ \A i \in DOMAIN log' : cut + i \in DOMAIN log /\ log'[i] = log[cut + i]
      /\ \A i \in DOMAIN log' : applied' < log'[i].tx
  BY FoldFacts, RecordType
<1>2. ASSUME NEW k \in Key, NEW e \in Entry, InLog(k, e)
      PROVE  \/ /\ e.tx > applied'
                /\ \E i \in DOMAIN log' : /\ log'[i].tx = e.tx /\ log'[i].live = e.live
                                          /\ k \in log'[i].keys
             \/ e.tx <= applied' /\ ~(e.tx > applied')
  <2>1. PICK i \in DOMAIN log : /\ log[i].tx = e.tx /\ log[i].live = e.live
                               /\ k \in log[i].keys
    BY <1>2 DEF InLog
  <2>2. i \in Nat /\ e.tx \in Nat
    BY <1>1 DEF Entry
  <2>3. CASE i <= cut
    BY <1>1, <2>1, <2>2, <2>3
  <2>4. CASE i > cut
    <3>1. i - cut \in DOMAIN log' /\ log'[i - cut] = log[i]
      BY <1>1, <2>4
    <3>2. applied' < e.tx
      BY <1>1, <2>1, <3>1
    <3> QED BY <1>1, <2>1, <2>2, <3>1, <3>2
  <2> QED BY <1>1, <2>2, <2>3, <2>4
<1>3. \A i \in DOMAIN log' : \E j \in DOMAIN log : log[j] = log'[i]
  BY <1>1
<1> QED BY <1>2, <1>3

(***************************************************************************)
(* Readers are switched to the new generation: a key that the overlay does *)
(* not show has there its old value, or its durable one if a record of it  *)
(* has not come to the overlay.                                            *)
(***************************************************************************)
LEMMA BuildAndSwapKeeps ==
  ASSUME EngineInv, BuildAndSwap
  PROVE  EngineInv' /\ (OrderlyInv => OrderlyInv')
<1>1. /\ FoldCut /\ ck = "build" /\ ck' = "prune"
      /\ UNCHANGED <<nextTx, overlay, classes, counters, client, overtaken>>
  BY DEF BuildAndSwap
<1>2. /\ log \in Seq(Record) /\ log' \in Seq(Record) /\ cut \in Nat /\ cut' = 0
      /\ base' \in [Key -> Nat] /\ applied \in Nat /\ applied' \in Nat
      /\ Committed' = Committed /\ applied <= applied' /\ applied' <= nextTx
      /\ LastTx(applied', log') = nextTx
      /\ \A i \in DOMAIN log' : applied' < log'[i].tx /\ log'[i].tx <= nextTx
      /\ \A i, j \in DOMAIN log' : i < j => log'[i].tx < log'[j].tx
  BY <1>1, FoldFacts
<1>3. /\ \A i \in DOMAIN log : i <= cut => log[i].tx <= applied'
      /\ \A i \in DOMAIN log : i > cut => i - cut \in DOMAIN log' /\ log'[i - cut] = log[i]
  BY <1>1, FoldFacts
<1>4. \A i \in DOMAIN log' : \E j \in DOMAIN log : log[j] = log'[i]
  BY <1>1, FoldKeepsLog
<1>5. \A k \in Key, e \in Entry : InLog(k, e) =>
         \/ e.tx > applied' /\ InLog(k, e)'
         \/ e.tx <= applied' /\ ~(e.tx > applied')
  <2> SUFFICES ASSUME NEW k \in Key, NEW e \in Entry, InLog(k, e)
               PROVE  \/ e.tx > applied' /\ InLog(k, e)'
                      \/ e.tx <= applied' /\ ~(e.tx > applied')
    OBVIOUS
  <2>1. \/ /\ e.tx > applied'
           /\ \E i \in DOMAIN log' : /\ log'[i].tx = e.tx /\ log'[i].live = e.live
                                     /\ k \in log'[i].keys
        \/ e.tx <= applied' /\ ~(e.tx > applied')
    BY <1>1, FoldKeepsLog
  <2> QED BY <2>1 DEF InLog
<1>6. ASSUME NEW k \in Key
      PROVE  \/ /\ base'[k] = base[k]
                /\ \A i \in DOMAIN log : i <= cut => k \notin log[i].keys
             \/ \E i \in DOMAIN log :
                   /\ i <= cut /\ k \in log[i].keys /\ base'[k] = ValueOf(log[i])
                   /\ \A j \in DOMAIN log : j <= cut /\ k \in log[j].keys => j <= i
  BY <1>1, FoldFacts
<1>7. ASSUME NEW k \in Key, overlay[k] = NoEntry
      PROVE  /\ Visible(k) = base[k] /\ Visible(k)' = base'[k]
             /\ \/ base'[k] = base[k]
                \/ base'[k] = Committed[k] /\ k \in Unpublished
  <2>1. Visible(k) = base[k] /\ Visible(k)' = base'[k]
    BY <1>1, <1>7 DEF Visible
  <2>2. ASSUME NEW i \in DOMAIN log, k \in log[i].keys, base'[k] = ValueOf(log[i])
        PROVE  base'[k] = Committed[k] /\ k \in Unpublished
    <3>1. ~(log[i].tx <= overlay[k].tx)
      BY <1>2, <1>7, RecordType DEF NoEntry
    <3>2. /\ \E d \in Client : Publishing(d, k)
          /\ Committed[k] = ValueOf(log[i])
      BY <2>2, <3>1, HiddenGoverns
    <3> QED BY <2>2, <3>2 DEF Publishing, Unpublished
  <2> QED BY <1>6, <2>1, <2>2
<1>8. TypeOK'
  <2>1. cut' \in 0 .. Len(log')
    <3>1. Len(log') \in Nat
      BY <1>2
    <3> QED BY <1>2, <3>1
  <2> QED BY <1>1, <1>2, <2>1 DEF EngineInv, TypeOK
<1>9. TxShape'
  BY <1>1, <1>2 DEF TxShape
<1>10. RequestsOK'
  <2> SUFFICES ASSUME NEW d \in Client
               PROVE  (/\ StepOK(client[d]) /\ Numbered(client[d])
                       /\ PendingOK(client[d])
                       /\ ClassOK(client[d]) /\ ReadOK(client[d]))'
    BY DEF RequestsOK
  <2>1. /\ StepOK(client[d]) /\ Numbered(client[d]) /\ PendingOK(client[d])
        /\ ClassOK(client[d]) /\ ReadOK(client[d]) /\ client[d] \in Request
        /\ client[d].class \in Class /\ client[d].ids \subseteq Id
    BY KeysType DEF EngineInv, RequestsOK, TypeOK
  <2>2. StepOK(client[d])' /\ Numbered(client[d])' /\ ClassOK(client[d])'
    BY <1>1, <1>2, <2>1 DEF StepOK, Numbered, ClassOK
  <2>3. PendingOK(client[d])'
    <3> SUFFICES ASSUME client[d].at = "publish" PROVE PendingOK(client[d])'
      BY <1>1 DEF PendingOK
    <3>1. /\ KeysOf(client[d]) \subseteq Key /\ EntryOf(client[d]) \in Entry
          /\ client[d].tx \in Nat /\ EntryOf(client[d]).tx = client[d].tx
      <4>1. client[d].tx \in Nat
        BY <2>1 DEF PendingOK, Request
      <4> QED BY <2>1, <4>1, KeysType DEF EntryOf, Entry, Live
    <3>2. ASSUME NEW k \in KeysOf(client[d]), client[d].tx > applied'
          PROVE  InLog(k, EntryOf(client[d]))'
      <4>1. client[d].tx > applied
        BY <1>2, <3>1, <3>2
      <4>2. InLog(k, EntryOf(client[d]))
        BY <2>1, <4>1 DEF PendingOK
      <4> QED BY <1>1, <1>5, <3>1, <3>2, <4>2
    <3>3. \A k \in KeysOf(client[d]), i \in DOMAIN log' :
             k \in log'[i].keys => log'[i].tx <= client[d].tx
      BY <1>4, <2>1 DEF PendingOK
    <3> QED BY <1>1, <1>2, <2>1, <3>2, <3>3 DEF PendingOK
  <2>4. ReadOK(client[d])'
    <3> SUFFICES ASSUME client[d].op = "get", NEW i \in client[d].ids
                 PROVE  (/\ client[d].at \in {"lookup", "snap"} =>
                              <<i, Committed[<<client[d].class, i>>]>> \in client[d].seen
                         /\ client[d].at = "lookup" =>
                              <<i, Visible(<<client[d].class, i>>)>> \in client[d].seen
                         /\ client[d].at = "snap" =>
                              /\ <<i, base[<<client[d].class, i>>]>> \in client[d].seen
                              /\ \A n \in DOMAIN log :
                                   <<client[d].class, i>> \in log[n].keys =>
                                      <<i, ValueOf(log[n])>> \in client[d].seen
                         /\ client[d].at = "answered" =>
                              <<i, client[d].list[i]>> \in client[d].seen)'
      BY <1>1 DEF ReadOK
    <3>1. PICK k : k = <<client[d].class, i>>
      OBVIOUS
    <3>2. k \in Key /\ client'[d] = client[d]
      BY <1>1, <2>1, <3>1, KeyTypes
    <3>3. CASE client[d].at = "lookup"
      <4>1. <<i, Committed[k]>> \in client[d].seen /\ <<i, Visible(k)>> \in client[d].seen
        BY <2>1, <3>1, <3>3 DEF ReadOK
      <4>2. CASE overlay[k] = NoEntry
        BY <1>2, <1>7, <3>1, <3>2, <3>3, <4>1, <4>2
      <4>3. CASE overlay[k] # NoEntry
        <5>1. Visible(k)' = Visible(k)
          BY <1>1, <4>3 DEF Visible
        <5> QED BY <1>2, <3>1, <3>2, <3>3, <4>1, <5>1
      <4> QED BY <4>2, <4>3
    <3>4. CASE client[d].at = "snap"
      <4>1. /\ <<i, Committed[k]>> \in client[d].seen /\ <<i, base[k]>> \in client[d].seen
            /\ \A n \in DOMAIN log : k \in log[n].keys =>
                  <<i, ValueOf(log[n])>> \in client[d].seen
        BY <2>1, <3>1, <3>4 DEF ReadOK
      <4>2. <<i, base'[k]>> \in client[d].seen
        BY <1>6, <3>2, <4>1
      <4>3. \A n \in DOMAIN log' : k \in log'[n].keys =>
               <<i, ValueOf(log'[n])>> \in client[d].seen
        BY <1>4, <4>1
      <4> QED BY <1>2, <3>1, <3>2, <3>4, <4>1, <4>2, <4>3
    <3>5. CASE client[d].at \notin {"lookup", "snap"}
      BY <2>1, <3>2, <3>5 DEF ReadOK
    <3> QED BY <3>3, <3>4, <3>5
  <2> QED BY <2>2, <2>3, <2>4
<1>11. AloneOK'
  BY <1>1 DEF EngineInv, AloneOK
<1>12. \A k : \A d \in Client : Publishing(d, k)' <=> Publishing(d, k)
  BY <1>1 DEF Publishing
<1>13. OverlaysOK'
  <2> SUFFICES ASSUME NEW k \in Key PROVE OverlayOK(k)'
    BY DEF OverlaysOK
  <2>1. /\ OverlayOK(k) /\ overlay[k] \in Entry /\ overlay[k].tx \in Nat
    BY DEF EngineInv, OverlaysOK, TypeOK, Entry
  <2>2. ASSUME NEW i \in DOMAIN log', k \in log'[i].keys
        PROVE  \/ log'[i].tx <= overlay[k].tx
               \/ \E d \in Client : Publishing(d, k)' /\ client'[d].tx = log'[i].tx
    BY <1>1, <1>4, <1>12, <2>1, <2>2 DEF OverlayOK
  <2>3. overlay[k].tx > applied' => InLog(k, overlay[k])'
    <3>1. overlay[k].tx > applied' => overlay[k].tx > applied
      BY <1>2, <2>1
    <3> QED BY <1>1, <1>5, <2>1, <3>1 DEF OverlayOK
  <2>4. ASSUME overlay[k].tx \in 1 .. applied'
        PROVE  base'[k] = ValueOf(overlay[k]) \/ base'[k] = Committed[k]
    <3>1. CASE /\ base'[k] = base[k]
               /\ \A i \in DOMAIN log : i <= cut => k \notin log[i].keys
      <4>1. ~(overlay[k].tx > applied)
        <5> SUFFICES ASSUME overlay[k].tx > applied PROVE FALSE
          OBVIOUS
        <5>1. PICK j \in DOMAIN log : log[j].tx = overlay[k].tx /\ k \in log[j].keys
          BY <2>1 DEF OverlayOK, InLog
        <5>2. j > cut
          BY <1>2, <3>1, <5>1, RecordType
        <5>3. applied' < overlay[k].tx
          BY <1>2, <1>3, <5>1, <5>2
        <5> QED BY <1>2, <2>1, <2>4, <5>3
      <4>2. overlay[k].tx \in 1 .. applied
        BY <1>2, <2>1, <2>4, <4>1
      <4> QED BY <2>1, <3>1, <4>2 DEF OverlayOK
    <3>2. ASSUME NEW i \in DOMAIN log, i <= cut, k \in log[i].keys,
                 base'[k] = ValueOf(log[i]),
                 \A j \in DOMAIN log : j <= cut /\ k \in log[j].keys => j <= i
          PROVE  base'[k] = ValueOf(overlay[k]) \/ base'[k] = Committed[k]
      <4>1. CASE ~(log[i].tx <= overlay[k].tx)
        BY <3>2, <4>1, HiddenGoverns
      <4>2. CASE log[i].tx <= overlay[k].tx
        <5>0. /\ log[i].tx \in Nat /\ applied < log[i].tx /\ i \in Nat
              /\ DOMAIN log \subseteq Nat
          BY <1>2, RecordType DEF EngineInv, TxShape
        <5>1. overlay[k].tx > applied
          BY <1>2, <2>1, <4>2, <5>0
        <5>2. PICK j \in DOMAIN log : /\ log[j].tx = overlay[k].tx
                                     /\ log[j].live = overlay[k].live
                                     /\ k \in log[j].keys
          BY <2>1, <5>1 DEF OverlayOK, InLog
        <5>3. j <= cut
          <6>1. CASE j > cut
            <7>1. applied' < overlay[k].tx
              BY <1>2, <1>3, <5>2, <6>1
            <7> QED BY <1>2, <2>1, <2>4, <7>1
          <6> QED BY <1>2, <5>0, <6>1
        <5>4. j <= i /\ ~(j < i)
          <6>1. j < i => log[j].tx < log[i].tx
            BY DEF EngineInv, TxShape
          <6> QED BY <2>1, <3>2, <4>2, <5>0, <5>2, <5>3, <6>1
        <5>5. j = i
          BY <5>0, <5>4
        <5> QED BY <3>2, <5>2, <5>5 DEF ValueOf
      <4> QED BY <4>1, <4>2
    <3> QED BY <1>6, <3>1, <3>2
  <2> QED BY <1>1, <1>2, <2>1, <2>2, <2>3, <2>4 DEF OverlayOK
<1>14. OverlayCurrent'
  <2> SUFFICES ASSUME NEW k \in Key, k \notin Unpublished
               PROVE  Visible(k)' = Committed[k]
    BY <1>1, <1>2 DEF OverlayCurrent, Unpublished
  <2>1. Visible(k) = Committed[k]
    BY DEF EngineInv, OverlayCurrent
  <2>2. CASE overlay[k] = NoEntry
    BY <1>7, <2>1, <2>2
  <2>3. CASE overlay[k] # NoEntry
    BY <1>1, <2>1, <2>3 DEF Visible
  <2> QED BY <2>2, <2>3
<1>15. ClassesAgree'
  BY <1>1, <1>2 DEF EngineInv, ClassesAgree, ClassAgrees, Busy
<1>16. ASSUME OrderlyInv PROVE OrderlyInv'
  <2>1. NoOrphans' /\ IdsPassed'
    BY <1>1, <1>2, <1>16 DEF OrderlyInv, NoOrphans, IdsPassed
  <2>2. ASSUME NEW d \in Client PROVE FitOK(client[d])'
    <3>1. FitOK(client[d])
      BY <1>16 DEF OrderlyInv
    <3>2. ASSUME client[d].op = "dropClass", NEW i \in Id,
                 overlay[<<client[d].class, i>>] = NoEntry
          PROVE  base'[<<client[d].class, i>>] = base[<<client[d].class, i>>]
      BY <1>7, <3>2, ClassAlone DEF ClassOps
    <3> QED BY <1>1, <1>2, <1>4, <3>1, <3>2 DEF FitOK, Empty
  <2> QED BY <2>1, <2>2 DEF OrderlyInv
<1> QED BY <1>8, <1>9, <1>10, <1>11, <1>13, <1>14, <1>15, <1>16 DEF EngineInv

(***************************************************************************)
(* The prune drops entries whose records are folded: the generation has    *)
(* what they had, or the durable value if a later record is about to come. *)
(* A drop about to merge misses none of them, or it is overtaken.          *)
(***************************************************************************)
LEMMA PruneKeeps ==
  ASSUME EngineInv, Prune
  PROVE  /\ EngineInv' /\ (OrderlyInv /\ ~overtaken' => OrderlyInv')
         /\ overtaken => overtaken'
<1>1. /\ ck = "prune" /\ ck' = "idle"
      /\ overlay' = [k \in Key |-> IF overlay[k].tx <= applied THEN NoEntry ELSE overlay[k]]
      /\ UNCHANGED <<log, base, applied, nextTx, classes, counters, cut, client>>
      /\ Committed' = Committed /\ Unpublished' = Unpublished /\ Overtakes
  BY DEF Prune, Committed, Unpublished
<1>2. /\ log \in Seq(Record) /\ applied \in Nat /\ nextTx \in Nat
      /\ base \in [Key -> Nat]
      /\ \A k \in Key : overlay[k] \in Entry /\ overlay[k].tx \in Nat
  BY DEF EngineInv, TypeOK, Entry
<1>3. \A k \in Key :
         /\ overlay[k].tx <= applied => overlay'[k] = NoEntry
         /\ ~(overlay[k].tx <= applied) => overlay'[k] = overlay[k]
  BY <1>1
<1>4. ASSUME NEW k \in Key
      PROVE  \/ Visible(k)' = Visible(k)
             \/ Visible(k)' = Committed[k]
  <2>1. OverlayOK(k)
    BY DEF EngineInv, OverlaysOK
  <2>2. CASE overlay[k].tx <= applied
    <3>1. Visible(k)' = base[k]
      BY <1>1, <1>3, <2>2 DEF Visible
    <3>2. CASE overlay[k].tx = 0
      BY <2>1, <3>1, <3>2 DEF OverlayOK, Visible
    <3>3. CASE overlay[k].tx # 0
      <4>1. overlay[k].tx \in 1 .. applied
        BY <1>2, <2>2, <3>3
      <4>2. Visible(k) = ValueOf(overlay[k])
        BY <3>3 DEF Visible, NoEntry
      <4> QED BY <2>1, <3>1, <4>1, <4>2 DEF OverlayOK
    <3> QED BY <3>2, <3>3
  <2>3. CASE ~(overlay[k].tx <= applied)
    BY <1>1, <1>3, <2>3 DEF Visible
  <2> QED BY <2>2, <2>3
<1>5. TypeOK'
  <2>1. overlay' \in [Key -> Entry]
    BY <1>1, <1>2 DEF Entry, NoEntry
  <2>2. overtaken' \in BOOLEAN
    BY <1>1 DEF EngineInv, TypeOK, Overtakes
  <2> QED BY <1>1, <2>1, <2>2 DEF EngineInv, TypeOK
<1>6. TxShape' /\ AloneOK'
  BY <1>1 DEF EngineInv, TxShape, AloneOK
<1>7. RequestsOK'
  <2> SUFFICES ASSUME NEW d \in Client
               PROVE  (/\ StepOK(client[d]) /\ Numbered(client[d])
                       /\ PendingOK(client[d])
                       /\ ClassOK(client[d]) /\ ReadOK(client[d]))'
    BY DEF RequestsOK
  <2>1. /\ StepOK(client[d]) /\ Numbered(client[d]) /\ PendingOK(client[d])
        /\ ClassOK(client[d]) /\ ReadOK(client[d])
        /\ client[d].class \in Class /\ client[d].ids \subseteq Id
    BY KeysType DEF EngineInv, RequestsOK, TypeOK
  <2>2. /\ StepOK(client[d])' /\ Numbered(client[d])' /\ PendingOK(client[d])'
        /\ ClassOK(client[d])'
    BY <1>1, <2>1 DEF StepOK, Numbered, PendingOK, ClassOK, InLog
  <2>3. \A i \in client[d].ids : <<client[d].class, i>> \in Key
    BY <2>1, KeyTypes
  <2>4. ReadOK(client[d])'
    BY <1>1, <1>4, <2>1, <2>3 DEF ReadOK
  <2> QED BY <2>2, <2>4
<1>8. OverlaysOK'
  <2> SUFFICES ASSUME NEW k \in Key PROVE OverlayOK(k)'
    BY DEF OverlaysOK
  <2>1. OverlayOK(k) /\ \A x : InLog(k, x)' <=> InLog(k, x)
    BY <1>1 DEF EngineInv, OverlaysOK, InLog
  <2>2. \A d \in Client : Publishing(d, k)' <=> Publishing(d, k)
    BY <1>1 DEF Publishing
  <2>3. CASE overlay[k].tx <= applied
    <3>1. overlay'[k] = NoEntry /\ overlay'[k].tx = 0
      BY <1>3, <2>3 DEF NoEntry
    <3>2. ASSUME NEW i \in DOMAIN log, k \in log[i].keys
          PROVE  \E d \in Client : Publishing(d, k) /\ client[d].tx = log[i].tx
      <4>1. log[i].tx \in Nat /\ applied < log[i].tx
        BY <1>2, RecordType DEF EngineInv, TxShape
      <4>2. ~(log[i].tx <= overlay[k].tx)
        BY <1>2, <2>3, <4>1
      <4> QED BY <2>1, <3>2, <4>2 DEF OverlayOK
    <3> QED BY <1>1, <1>2, <2>2, <3>1, <3>2 DEF OverlayOK
  <2>4. CASE ~(overlay[k].tx <= applied)
    <3>1. overlay'[k] = overlay[k]
      BY <1>3, <2>4
    <3> QED BY <1>1, <2>1, <2>2, <3>1 DEF OverlayOK
  <2> QED BY <2>3, <2>4
<1>9. OverlayCurrent'
  <2> SUFFICES ASSUME NEW k \in Key, k \notin Unpublished
               PROVE  Visible(k)' = Committed[k]
    BY <1>1 DEF OverlayCurrent
  <2>1. Visible(k) = Committed[k]
    BY DEF EngineInv, OverlayCurrent
  <2> QED BY <1>4, <2>1
<1>10. ClassesAgree'
  BY <1>1 DEF EngineInv, ClassesAgree, ClassAgrees, Busy
<1>11. ASSUME OrderlyInv, ~overtaken' PROVE OrderlyInv'
  <2>1. NoOrphans' /\ IdsPassed'
    BY <1>1, <1>11 DEF OrderlyInv, NoOrphans, IdsPassed
  <2>2. ASSUME NEW d \in Client PROVE FitOK(client[d])'
    <3>1. FitOK(client[d])
      BY <1>11 DEF OrderlyInv
    <3>2. ASSUME client[d].op = "dropClass", client[d].at = "merge", NEW i \in Id,
                 overlay[<<client[d].class, i>>] # NoEntry
          PROVE  overlay'[<<client[d].class, i>>] # NoEntry
      <4> DEFINE k == <<client[d].class, i>>
      <4>1. k \in Key /\ OverlayOK(k)
        BY KeyTypes DEF EngineInv, TypeOK, Request, OverlaysOK
      <4>2. overlay[k].tx \notin 1 .. applied
        BY <1>1, <1>11, <3>2 DEF Overtakes
      <4>3. overlay[k].tx # 0
        BY <3>2, <4>1 DEF OverlayOK
      <4>4. ~(overlay[k].tx <= applied)
        BY <1>2, <4>1, <4>2, <4>3
      <4> QED BY <1>3, <3>2, <4>1, <4>4
    <3> QED BY <1>1, <3>1, <3>2 DEF FitOK, Empty
  <2> QED BY <2>1, <2>2 DEF OrderlyInv
<1>12. overtaken => overtaken'
  BY <1>1 DEF Overtakes
<1> QED BY <1>5, <1>6, <1>7, <1>8, <1>9, <1>10, <1>11, <1>12 DEF EngineInv

-----------------------------------------------------------------------------
(***************************************************************************)
(* Restarts.  The greatest id seen is a number, and past all those seen.   *)
(***************************************************************************)
LEMMA ObservedPasses ==
  ASSUME NEW content \in [Key -> Nat], NEW recs \in Seq(Record), NEW class \in Class
  PROVE  /\ Observed(content, recs, class) \in Nat
         /\ \A i \in Id : Applied(content, recs)[<<class, i>>] # 0 =>
               i <= Observed(content, recs, class)
<1> DEFINE S == {0} \union {i \in Id : content[<<class, i>>] # 0}
                    \union {i \in Id : \E n \in DOMAIN recs :
                                          recs[n].live /\ <<class, i>> \in recs[n].keys}
<1>1. S \in SUBSET (0 .. MaxId) /\ S # {} /\ MaxId \in Nat
  BY EngineAssumption DEF Id, EngineAssumption
<1>2. Max(S) \in S /\ \A j \in S : j <= Max(S)
  <2> HIDE DEF S
  <2> QED BY <1>1, Greatest
<1>3. Observed(content, recs, class) = Max(S)
  BY DEF Observed
<1>4. Max(S) \in Nat
  <2> HIDE DEF S
  <2>1. Max(S) \in 0 .. MaxId
    BY <1>1, <1>2
  <2> QED BY <1>1, <2>1
<1>5. ASSUME NEW i \in Id, Applied(content, recs)[<<class, i>>] # 0 PROVE i \in S
  <2>1. <<class, i>> \in Key
    BY KeyTypes
  <2>2. CASE \A n \in DOMAIN recs : <<class, i>> \notin recs[n].keys
    BY <1>5, <2>1, <2>2, AppliedNone
  <2>3. ASSUME NEW n \in DOMAIN recs, <<class, i>> \in recs[n].keys,
               \A j \in DOMAIN recs : <<class, i>> \in recs[j].keys => j <= n
        PROVE  i \in S
    <3>1. Applied(content, recs)[<<class, i>>] = ValueOf(recs[n])
      BY <2>1, <2>3, AppliedLast, SMTT(30)
    <3>2. recs[n].live
      BY <1>5, <3>1 DEF ValueOf
    <3> QED BY <2>3, <3>2
  <2> QED BY <2>1, <2>2, <2>3, LastRecord
<1> QED BY <1>2, <1>3, <1>4, <1>5

(***************************************************************************)
(* After a restart, what the overlay shows is the replayed log over the    *)
(* generation, the class set and the id generator are rebuilt from both.   *)
(***************************************************************************)
LEMMA RestartKeeps ==
  ASSUME EngineInv, Restart
  PROVE  /\ EngineInv' /\ (OrderlyInv => OrderlyInv')
         /\ Committed' = Committed /\ nextTx' = nextTx
<1>1. /\ FoldCut /\ UNCHANGED overtaken /\ overlay' = [k \in Key |-> LastOf(log', k, NoEntry)]
      /\ classes' = {c \in Class : Committed[c] # 0}
      /\ counters' = [c \in Class |-> Observed(base', log', c)]
      /\ nextTx' = LastTx(applied', log') /\ client' = [c \in Client |-> Idle]
      /\ ck' = "idle"
  BY DEF Restart
<1>2. /\ log' \in Seq(Record) /\ cut' = 0
      /\ base' \in [Key -> Nat] /\ applied' \in Nat /\ Committed' = Committed
      /\ LastTx(applied', log') = nextTx
      /\ \A i \in DOMAIN log' : applied' < log'[i].tx /\ log'[i].tx <= nextTx
      /\ \A i, j \in DOMAIN log' : i < j => log'[i].tx < log'[j].tx
      /\ applied' <= nextTx
  BY <1>1, FoldFacts
<1>3. nextTx' = nextTx /\ nextTx \in Nat
  BY <1>1, <1>2 DEF EngineInv, TypeOK
<1>4. Committed' = Applied(base', log')
  BY DEF Committed, Applied, LastOf
<1>5. \A d \in Client : client'[d] = Idle
  BY <1>1
<1>6. ASSUME NEW k \in Key
      PROVE  /\ overlay'[k] \in Entry /\ OverlayOK(k)' /\ Visible(k)' = Committed'[k]
  <2>1. CASE \A i \in DOMAIN log' : k \notin log'[i].keys
    <3>1. overlay'[k] = NoEntry /\ Committed'[k] = base'[k]
      BY <1>1, <1>2, <1>4, <2>1, AppliedNone
    <3>2. NoEntry \in Entry /\ NoEntry.tx = 0
      BY DEF Entry, NoEntry
    <3> QED BY <1>2, <1>3, <2>1, <3>1, <3>2 DEF OverlayOK, Visible
  <2>2. ASSUME NEW i \in DOMAIN log', k \in log'[i].keys,
               \A j \in DOMAIN log' : k \in log'[j].keys => j <= i
        PROVE  /\ overlay'[k] \in Entry /\ OverlayOK(k)' /\ Visible(k)' = Committed'[k]
    <3>1. /\ overlay'[k] = [tx |-> log'[i].tx, live |-> log'[i].live]
          /\ Committed'[k] = ValueOf(log'[i])
      BY <1>1, <1>2, <1>4, <2>2, AppliedLast
    <3>2. /\ log'[i].tx \in Nat \ {0} /\ log'[i].live \in BOOLEAN
          /\ DOMAIN log' \subseteq Nat /\ \A j \in DOMAIN log' : log'[j].tx \in Nat
      BY <1>2, RecordType
    <3>3. overlay'[k] \in Entry /\ overlay'[k] # NoEntry
      BY <3>1, <3>2 DEF Entry, NoEntry
    <3>4. overlay'[k].tx = log'[i].tx /\ overlay'[k].live = log'[i].live
      BY <3>1
    <3>5. Visible(k)' = Committed'[k]
      BY <3>1, <3>3, <3>4 DEF Visible, ValueOf
    <3>6. ASSUME NEW j \in DOMAIN log', k \in log'[j].keys
          PROVE  log'[j].tx <= overlay'[k].tx
      <4>1. j <= i
        BY <2>2, <3>6
      <4>2. CASE j = i
        BY <3>2, <3>4, <4>2
      <4>3. CASE j < i
        BY <1>2, <3>2, <3>4, <4>3
      <4> QED BY <3>2, <4>1, <4>2, <4>3
    <3>7. InLog(k, overlay[k])'
      BY <2>2, <3>4 DEF InLog
    <3>8. overlay'[k].tx > applied' /\ overlay'[k].tx <= nextTx' /\ overlay'[k].tx # 0
      BY <1>2, <1>3, <3>2, <3>4
    <3>9. OverlayOK(k)'
      BY <1>2, <3>6, <3>7, <3>8 DEF OverlayOK
    <3> QED BY <3>3, <3>5, <3>9
  <2> QED BY <1>2, <2>1, <2>2, LastRecord
<1>7. TypeOK'
  <2>1. overlay' \in [Key -> Entry]
    BY <1>1, <1>6
  <2>2. counters' \in [Class -> Nat]
    BY <1>1, <1>2, ObservedPasses
  <2>3. client' \in [Client -> Request]
    BY <1>1, IdleType
  <2>4. cut' \in 0 .. Len(log')
    BY <1>1, <1>2 DEF EngineInv, TypeOK
  <2>5. overtaken' \in BOOLEAN
    BY <1>1 DEF EngineInv, TypeOK
  <2> QED BY <1>1, <1>2, <1>3, <2>1, <2>2, <2>3, <2>4, <2>5 DEF TypeOK
<1>8. TxShape'
  BY <1>2, <1>3 DEF TxShape
<1>9. RequestsOK'
  BY <1>5, IdleType DEF RequestsOK, StepOK, Numbered, PendingOK, ClassOK, ReadOK,
     StepOps, ObjectOps, SingleOps, Updates
<1>10. AloneOK'
  BY <1>5, IdleType DEF AloneOK, Apart, Writes, ClassOps, ObjectOps, Updates
<1>11. OverlaysOK' /\ OverlayCurrent'
  BY <1>6 DEF OverlaysOK, OverlayCurrent
<1>12. ClassesAgree'
  BY <1>1, <1>2 DEF ClassesAgree, ClassAgrees
<1>13. ASSUME OrderlyInv PROVE OrderlyInv'
  <2>1. NoOrphans'
    BY <1>2, <1>13 DEF OrderlyInv, NoOrphans
  <2>2. IdsPassed'
    <3> SUFFICES ASSUME NEW class \in Class, NEW i \in Id, Committed'[<<class, i>>] # 0
                 PROVE  i <= counters'[class]
      BY DEF IdsPassed
    <3>1. counters'[class] = Observed(base', log', class)
      BY <1>1
    <3> QED BY <1>2, <1>4, <3>1, ObservedPasses
  <2>3. \A c \in Client : FitOK(client[c])'
    BY <1>5, IdleType DEF FitOK, Updates
  <2> QED BY <2>1, <2>2, <2>3 DEF OrderlyInv
<1> QED BY <1>2, <1>3, <1>7, <1>8, <1>9, <1>10, <1>11, <1>12, <1>13 DEF EngineInv

-----------------------------------------------------------------------------
(***************************************************************************)
(* Every step keeps the invariants.                                        *)
(***************************************************************************)
LEMMA StutterKeeps ==
  ASSUME EngineInv, UNCHANGED vars
  PROVE  EngineInv' /\ (OrderlyInv => OrderlyInv')
<1>1. /\ UNCHANGED <<log, base, applied, nextTx, overlay, classes, counters, ck,
                     cut, client, overtaken>>
      /\ Committed' = Committed /\ \A k : Visible(k)' = Visible(k)
      /\ Unpublished' = Unpublished
  BY DEF vars, Committed, Visible, Unpublished
<1>2. TypeOK' /\ TxShape' /\ AloneOK'
  BY <1>1 DEF EngineInv, TypeOK, TxShape, AloneOK
<1>3. RequestsOK'
  <2>1. ASSUME NEW d \in Client
        PROVE  (/\ StepOK(client[d]) /\ Numbered(client[d])
                /\ PendingOK(client[d])
                /\ ClassOK(client[d]) /\ ReadOK(client[d]))'
    <3>1. /\ StepOK(client[d]) /\ Numbered(client[d]) /\ PendingOK(client[d])
          /\ ClassOK(client[d]) /\ ReadOK(client[d])
      BY DEF EngineInv, RequestsOK
    <3>2. /\ StepOK(client[d])' /\ Numbered(client[d])' /\ PendingOK(client[d])'
          /\ ClassOK(client[d])'
      BY <1>1, <3>1 DEF StepOK, Numbered, PendingOK, ClassOK, InLog
    <3>3. ReadOK(client[d])'
      BY <1>1, <3>1 DEF ReadOK
    <3> QED BY <3>2, <3>3
  <2> QED BY <2>1 DEF RequestsOK
<1>4. OverlaysOK'
  BY <1>1 DEF EngineInv, OverlaysOK, OverlayOK, InLog, Publishing
<1>5. OverlayCurrent' /\ ClassesAgree'
  BY <1>1 DEF EngineInv, OverlayCurrent, ClassesAgree, ClassAgrees, Busy
<1>6. OrderlyInv => OrderlyInv'
  BY <1>1 DEF OrderlyInv, NoOrphans, IdsPassed, FitOK, Empty
<1> QED BY <1>2, <1>3, <1>4, <1>5, <1>6 DEF EngineInv

\* Every step keeps the invariant, and, until a drop is overtaken, the rest.
LEMMA StepKeeps ==
  ASSUME Serial, EngineInv, [Next]_vars
  PROVE  /\ EngineInv' /\ (OrderlyInv /\ ~overtaken' => OrderlyInv')
         /\ overtaken => overtaken'
<1>7. Prune \/ overtaken' = overtaken
  <2>1. ASSUME NEW c \in Client, Serve(c) PROVE overtaken' = overtaken
    <3>1. CASE Arrive(c)
      <4>1. \A op, class, ids, want : Start(c, op, class, ids, want) => overtaken' = overtaken
        BY DEF Start
      <4> QED BY <3>1, <4>1 DEF Arrive
    <3>2. CASE Assign(c) \/ Lookup(c) \/ ReadSnapshot(c)
      BY <3>2 DEF Assign, Lookup, ReadSnapshot
    <3>3. CASE Scan(c) \/ Merge(c) \/ Answered(c)
      BY <3>3 DEF Scan, Merge, Answered
    <3>4. CASE Submit(c) \/ Publish(c) \/ Register(c) \/ Forget(c)
      BY <3>4 DEF Submit, Publish, Register, Forget
    <3> QED BY <2>1, <3>1, <3>2, <3>3, <3>4 DEF Serve
  <2> QED BY <2>1 DEF Next, Rotate, BuildAndSwap, Restart, vars
<1>8. Prune => (overtaken => overtaken')
  BY PruneKeeps
<1> SUFFICES EngineInv' /\ (OrderlyInv /\ ~overtaken' => OrderlyInv')
  BY <1>7, <1>8
<1>1. ASSUME NEW c \in Client, Serve(c)
      PROVE  EngineInv' /\ (OrderlyInv => OrderlyInv')
  <2>1. CASE Arrive(c)
    BY <2>1, ArriveKeeps
  <2>2. CASE Assign(c)
    BY <2>2, AssignKeeps
  <2>3. CASE Lookup(c)
    BY <2>3, LookupKeeps
  <2>4. CASE ReadSnapshot(c)
    BY <2>4, ReadSnapshotKeeps
  <2>5. CASE Scan(c)
    BY <2>5, ScanKeeps
  <2>6. CASE Merge(c)
    BY <2>6, MergeKeeps
  <2>7. CASE Answered(c)
    BY <2>7, AnsweredKeeps
  <2>8. CASE Submit(c)
    BY <2>8, SubmitKeeps
  <2>9. CASE Publish(c)
    BY <2>9, PublishKeeps
  <2>10. CASE Register(c)
    BY <2>10, RegisterKeeps
  <2>11. CASE Forget(c)
    BY <2>11, ForgetKeeps
  <2> QED BY <1>1, <2>1, <2>2, <2>3, <2>4, <2>5, <2>6, <2>7, <2>8, <2>9, <2>10,
             <2>11 DEF Serve
<1>2. CASE Rotate
  BY <1>2, RotateKeeps
<1>3. CASE BuildAndSwap
  BY <1>3, BuildAndSwapKeeps
<1>4. CASE Prune
  BY <1>4, PruneKeeps
<1>5. CASE Restart
  BY <1>5, RestartKeeps
<1>6. CASE UNCHANGED vars
  BY <1>6, StutterKeeps
<1> QED BY <1>1, <1>2, <1>3, <1>4, <1>5, <1>6 DEF Next

(***************************************************************************)
(* The inductive invariants.                                               *)
(***************************************************************************)
THEOREM Invariant == ASSUME Serial PROVE Spec => []EngineInv
<1>1. EngineInv /\ [Next]_vars => EngineInv'
  BY StepKeeps
<1> QED BY <1>1, InitHolds, PTL DEF Spec

\* Until a drop is overtaken, no class that is gone has objects, and writes fit.
THEOREM OrderlyInvariant ==
  ASSUME Serial
  PROVE  Spec => [](EngineInv /\ (overtaken \/ OrderlyInv))
<1>1. /\ EngineInv /\ (overtaken \/ OrderlyInv) /\ [Next]_vars =>
            (EngineInv /\ (overtaken \/ OrderlyInv))'
  BY StepKeeps
<1> QED BY <1>1, InitHolds, PTL DEF Spec

-----------------------------------------------------------------------------
(***************************************************************************)
(* Reads see every write once it is in the overlay, across checkpoints and *)
(* restarts (engine.go, lookup and Checkpoint).                            *)
(***************************************************************************)
THEOREM ReadsSeeWrites == ASSUME Serial PROVE Spec => []OverlayCurrent
<1>1. EngineInv => OverlayCurrent
  BY DEF EngineInv
<1> QED BY <1>1, Invariant, PTL

(***************************************************************************)
(* GetObject returns a state the object had while it ran, though it looks  *)
(* at the overlay and at the snapshot with no lock over both (mvcc.md:34). *)
(***************************************************************************)
THEOREM GetsAreFresh == ASSUME Serial PROVE Spec => []GetsFresh
<1>1. EngineInv => GetsFresh
  <2> SUFFICES ASSUME EngineInv, NEW c \in Client,
                      client[c].op = "get", client[c].at = "answered"
               PROVE  Fresh(client[c])
    BY DEF GetsFresh
  <2> QED BY DEF EngineInv, RequestsOK, ReadOK, Fresh, Scope
<1> QED BY <1>1, Invariant, PTL

(***************************************************************************)
(* The class set in memory is that of the durable class definitions, but   *)
(* for a class whose CreateClass or DropClass is under way.                *)
(***************************************************************************)
THEOREM ClassesAreDurable == ASSUME Serial PROVE Spec => []ClassesDurable
<1>1. EngineInv => ClassesDurable
  <2> SUFFICES ASSUME EngineInv, NEW class \in Class,
                      ~((class \in classes) = (Committed[class] # 0))
               PROVE  \E c \in Client : /\ client[c].at \in {"publish", "register"}
                                        /\ KeysOf(client[c]) = {class}
    BY DEF ClassesDurable
  <2>1. ~ClassAgrees(class)
    BY DEF ClassAgrees
  <2>2. PICK c \in Client : client[c].op \in ClassOps /\ client[c].class = class
    BY <2>1 DEF EngineInv, ClassesAgree, Busy
  <2>3. KeysOf(client[c]) = {class}
    BY <2>2 DEF KeysOf
  <2>4. client[c].at \in {"publish", "register"}
    <3>1. StepOK(client[c]) /\ ClassOK(client[c]) /\ client[c] \in Request
      BY DEF EngineInv, RequestsOK, TypeOK
    <3>2. client[c].at \in {"scan", "merge", "submit", "publish", "register", "forget"}
      BY <2>2, <3>1 DEF StepOK, StepOps, SingleOps, Updates, Reads, ClassOps, Request
    <3>3. CASE client[c].op = "createClass"
      <4>1. client[c].at \in {"submit", "publish", "register"}
        BY <3>1, <3>2, <3>3 DEF StepOK, StepOps
      <4>2. (class \notin classes) /\ ((client[c].at = "submit") <=> (Committed[class] = 0))
        BY <2>2, <3>1, <3>3 DEF ClassOK
      <4> QED BY <2>1, <4>1, <4>2 DEF ClassAgrees
    <3>4. CASE client[c].op = "dropClass"
      <4>1. /\ (client[c].at = "forget") <=> (class \notin classes)
            /\ (client[c].at \in {"scan", "merge", "submit"}) <=> (Committed[class] # 0)
        BY <2>2, <3>1, <3>4 DEF ClassOK
      <4> QED BY <2>1, <3>2, <4>1 DEF ClassAgrees
    <3> QED BY <2>2, <3>3, <3>4 DEF ClassOps
  <2> QED BY <2>3, <2>4
<1> QED BY <1>1, Invariant, PTL

(***************************************************************************)
(* DropClass leaves no object behind, though it lists the class in two     *)
(* looks before it logs the drop, and whatever checkpoints do meanwhile:   *)
(* they rotate, switch readers and prune at any moment of the drop.  Only  *)
(* when one prunes entries of the class between the two looks may the drop *)
(* miss an object (overtaken; NoOrphans fails there).  Clients that write  *)
(* in a class while another drops it are excluded (Serial).                *)
(***************************************************************************)
THEOREM DropsLeaveNoOrphans == ASSUME Serial PROVE Spec => []DropsEmpty
<1>1. overtaken \/ OrderlyInv => DropsEmpty
  BY DEF OrderlyInv, DropsEmpty
<1> QED BY <1>1, OrderlyInvariant, PTL

(***************************************************************************)
(* When a record reaches the log, its create finds no object under its ids *)
(* and its put or delete finds one, though both were looked up before;     *)
(* until a drop is overtaken by a checkpoint.                              *)
(***************************************************************************)
THEOREM WritesFitWhenLogged == ASSUME Serial PROVE Spec => WritesFit
<1> DEFINE Fits(c) == client[c].at = "submit" /\ client'[c].at = "publish" =>
                         \/ overtaken
                         \/ \A k \in KeysOf(client[c]) \cap Object :
                               (client[c].op = "create") = (Committed[k] = 0)
<1>1. ASSUME EngineInv, OrderlyInv, NEW c \in Client, client[c].at = "submit",
             NEW k \in KeysOf(client[c]) \cap Object
      PROVE  (client[c].op = "create") = (Committed[k] = 0)
  <2>1. client[c] \in Request /\ StepOK(client[c]) /\ FitOK(client[c])
    BY <1>1 DEF EngineInv, TypeOK, RequestsOK, OrderlyInv
  <2>2. client[c].op \in ClassOps \union ObjectOps
    BY <1>1, <2>1 DEF StepOK, StepOps
  <2>3. client[c].op \notin ClassOps
    BY <1>1, <2>1, KeysType, KeyTypes
  <2>4. PICK i \in client[c].ids : k = <<client[c].class, i>>
    BY <1>1, <2>1, <2>3, KeysType
  <2>5. CASE client[c].op = "create"
    BY <1>1, <2>1, <2>4, <2>5 DEF FitOK
  <2>6. CASE client[c].op \in Updates
    <3>1. Committed[k] # 0 /\ client[c].op # "create"
      BY <1>1, <2>1, <2>4, <2>6 DEF FitOK, Updates
    <3> QED BY <3>1
  <2> QED BY <2>2, <2>3, <2>5, <2>6 DEF ObjectOps
<1>2. EngineInv /\ (overtaken \/ OrderlyInv) /\ [Next]_vars =>
         [\A c \in Client : Fits(c)]_vars
  BY <1>1
<1> QED BY <1>2, OrderlyInvariant, PTL DEF Spec, WritesFit

-----------------------------------------------------------------------------
(***************************************************************************)
(* A record that reaches the log is a request of the store, served then.   *)
(***************************************************************************)
LEMMA SubmitServes ==
  ASSUME EngineInv, OrderlyInv, NEW c \in Client, Submit(c)
  PROVE  Store!Next
<1> DEFINE p == client[c]
           r == RecordOf(p)
           value == ValueOf(r)
<1>1. /\ p \in Request /\ p.at = "submit" /\ p.op \in ClassOps \union ObjectOps
      /\ r.tx = nextTx + 1 /\ r.keys = KeysOf(p) /\ r.live = Live(p)
      /\ nextTx' = nextTx + 1
      /\ \A k \in Key : Committed'[k] = IF k \in r.keys THEN value ELSE Committed[k]
  BY SubmitFacts, EngineTyped
<1>2. EngineInv' /\ Committed \in [Key -> Nat]
  BY SubmitKeeps, CommittedType DEF EngineInv
<1>3. Committed' \in [Key -> Nat]
  <2>1. TypeOK'
    BY <1>2 DEF EngineInv
  <2>2. log' \in Seq(Record) /\ base' \in [Key -> Nat]
    BY <2>1 DEF TypeOK
  <2>3. Committed' = Applied(base', log')
    BY DEF Committed, Applied, LastOf
  <2> QED BY <2>2, <2>3, AppliedType
<1>4. Store!Key = Key /\ Store!Object = Object
  BY DEF Store!Key, Store!Object, Key, Object
<1> HIDE DEF r
<1>5. Store!Store(KeysOf(p), value)
  <2>1. Committed' = [k \in Key |-> IF k \in KeysOf(p) THEN value ELSE Committed[k]]
    BY <1>1, <1>3
  <2> QED BY <1>4, <2>1 DEF Store!Store
<1>6. /\ StepOK(p) /\ ClassOK(p) /\ FitOK(p) /\ p.class \in Class /\ p.ids \subseteq Id
  BY <1>1, KeysType DEF EngineInv, RequestsOK, OrderlyInv
<1>7. /\ Live(p) => value = nextTx + 1
      /\ ~Live(p) => value = 0
  BY <1>1 DEF ValueOf
<1> HIDE DEF value
<1>8. CASE p.op = "createClass"
  <2>1. Committed[p.class] = 0
    BY <1>1, <1>6, <1>8 DEF ClassOK
  <2>2. KeysOf(p) = {p.class} /\ value = nextTx + 1
    BY <1>7, <1>8 DEF KeysOf, ClassOps, Live
  <2>3. Store!CreateClass(p.class)
    BY <1>5, <2>1, <2>2 DEF Store!CreateClass, Store!Exists
  <2> QED BY <1>1, <1>6, <2>3 DEF Store!Next
<1>9. CASE p.op = "dropClass"
  <2>1. Committed[p.class] # 0 /\ \A i \in Id : Committed[<<p.class, i>>] = 0
    BY <1>1, <1>6, <1>9 DEF ClassOK, FitOK, Empty
  <2>2. KeysOf(p) = {p.class} /\ value = 0
    BY <1>7, <1>9 DEF KeysOf, ClassOps, Live
  <2>3. Store!DropClass(p.class)
    BY <1>5, <2>1, <2>2 DEF Store!DropClass, Store!Exists
  <2> QED BY <1>1, <1>6, <2>3 DEF Store!Next
<1>10. CASE p.op = "create"
  <2>1. /\ Committed[p.class] # 0 /\ p.ids # {}
        /\ \A i \in p.ids : Committed[<<p.class, i>>] = 0
    BY <1>1, <1>6, <1>10 DEF ClassOK, FitOK, StepOK, ObjectOps
  <2>2. KeysOf(p) = {p.class} \X p.ids /\ value = nextTx + 1
    BY <1>7, <1>10 DEF KeysOf, ClassOps, Live
  <2>3. Store!Create(p.class, p.ids)
    BY <1>5, <2>1, <2>2 DEF Store!Create, Store!Exists
  <2> QED BY <1>1, <1>6, <2>3 DEF Store!Next
<1>11. CASE p.op \in Updates
  <2>1. PICK i \in Id : p.ids = {i}
    BY <1>6, <1>11 DEF StepOK, SingleOps
  <2>2. Committed[p.class] # 0 /\ Committed[<<p.class, i>>] # 0
    BY <1>1, <1>6, <1>11, <2>1 DEF ClassOK, FitOK, ObjectOps
  <2>3. KeysOf(p) = {<<p.class, i>>}
    <3>1. KeysOf(p) = {<<p.class, j>> : j \in p.ids}
      BY <1>1, <1>11, KeysType DEF Updates, ClassOps
    <3> QED BY <2>1, <3>1
  <2>4. CASE p.op = "put"
    <3>1. value = nextTx + 1
      BY <1>7, <2>4 DEF Live
    <3>2. Store!Put(p.class, i)
      BY <1>5, <2>2, <2>3, <3>1 DEF Store!Put, Store!Exists
    <3> QED BY <1>1, <1>6, <2>1, <3>2 DEF Store!Next
  <2>5. CASE p.op = "delete"
    <3>1. value = 0
      BY <1>7, <2>5 DEF Live
    <3>2. Store!Delete(p.class, i)
      BY <1>5, <2>2, <2>3, <3>1 DEF Store!Delete, Store!Exists
    <3> QED BY <1>1, <1>6, <2>1, <3>2 DEF Store!Next
  <2> QED BY <1>11, <2>4, <2>5 DEF Updates
<1> QED BY <1>1, <1>8, <1>9, <1>10, <1>11 DEF ClassOps, ObjectOps

(***************************************************************************)
(* The engine implements the store: every record that reaches the log is a *)
(* request the store can serve then, and no other step, of a request, of a *)
(* checkpoint or of a restart, changes what is stored; until a drop is     *)
(* overtaken.                                                              *)
(***************************************************************************)
THEOREM EngineImplementsStore == ASSUME Serial PROVE Spec => ImplementsStore
<1>1. Init => Store!Init
  <2> SUFFICES ASSUME Init PROVE Store!Init
    OBVIOUS
  <2>1. log = <<>> /\ log \in Seq(Record) /\ DOMAIN log = {}
        /\ base = [k \in Key |-> 0] /\ base \in [Key -> Nat] /\ nextTx = 0
    BY DEF Init
  <2>2. \A k \in Key : Committed[k] = 0
    BY <2>1, AppliedNone DEF Committed
  <2>3. Committed \in [Key -> Nat]
    BY <2>1, AppliedType DEF Committed
  <2>4. Committed = [k \in Key |-> 0]
    BY <2>2, <2>3
  <2> QED BY <2>1, <2>4 DEF Store!Init, Store!Key, Store!Object, Key, Object
<1>2. EngineInv /\ (overtaken \/ OrderlyInv) /\ [Next]_vars =>
         [Store!Next \/ overtaken]_<<Committed, nextTx>>
  <2> SUFFICES ASSUME EngineInv, OrderlyInv, [Next]_vars
               PROVE  Store!Next \/ (Committed' = Committed /\ nextTx' = nextTx)
    OBVIOUS
  <2>1. log' = log /\ base' = base => Committed' = Committed
    BY DEF Committed
  <2>2. ASSUME NEW c \in Client, Serve(c)
        PROVE  Store!Next \/ (Committed' = Committed /\ nextTx' = nextTx)
    <3>1. CASE Submit(c)
      BY <3>1, SubmitServes
    <3>2. CASE ~Submit(c)
      <4>1. log' = log /\ base' = base /\ nextTx' = nextTx
        <5>1. CASE Arrive(c)
          <6>1. \A op, class, ids, want : Start(c, op, class, ids, want) =>
                   log' = log /\ base' = base /\ nextTx' = nextTx
            BY DEF Start
          <6> QED BY <5>1, <6>1 DEF Arrive
        <5>2. CASE Assign(c)
          BY <5>2 DEF Assign
        <5>3. CASE Scan(c) \/ Lookup(c) \/ ReadSnapshot(c)
          BY <5>3 DEF Scan, Lookup, ReadSnapshot
        <5>4. CASE Merge(c) \/ Answered(c)
          BY <5>4 DEF Merge, Answered
        <5>5. CASE Publish(c)
          BY <5>5 DEF Publish
        <5>6. CASE Register(c) \/ Forget(c)
          BY <5>6 DEF Register, Forget
        <5> QED BY <2>2, <3>2, <5>1, <5>2, <5>3, <5>4, <5>5, <5>6 DEF Serve
      <4> QED BY <2>1, <4>1
    <3> QED BY <3>1, <3>2
  <2>3. CASE Rotate \/ Prune \/ UNCHANGED vars
    <3>1. log' = log /\ base' = base /\ nextTx' = nextTx
      BY <2>3 DEF Rotate, Prune, vars
    <3> QED BY <2>1, <3>1
  <2>4. CASE BuildAndSwap
    BY <2>4, FoldFacts DEF BuildAndSwap
  <2>5. CASE Restart
    BY <2>5, RestartKeeps
  <2> QED BY <2>2, <2>3, <2>4, <2>5 DEF Next
<1> QED BY <1>1, <1>2, OrderlyInvariant, PTL DEF Spec, ImplementsStore

-----------------------------------------------------------------------------
(***************************************************************************)
(* Types, whatever clients do.                                             *)
(***************************************************************************)
LEMMA TypedStep ==
  ASSUME Typed, NEW c \in Client, NEW q \in Request, StepOK(q),
         client' = [client EXCEPT ![c] = q], SameStore,
         UNCHANGED counters \/ counters' \in [Class -> Nat]
  PROVE  Typed'
<1>1. /\ client' \in [Client -> Request] /\ client'[c] = q
      /\ \A d \in Client \ {c} : client'[d] = client[d]
  BY DEF Typed, TypeOK
<1>2. TypeOK'
  BY <1>1 DEF Typed, TypeOK, SameStore
<1>3. \A d \in Client : StepOK(client[d])'
  <2> SUFFICES ASSUME NEW d \in Client PROVE StepOK(client[d])'
    OBVIOUS
  <2>1. PICK x : x = client'[d] /\ StepOK(x)
    BY <1>1 DEF Typed
  <2> QED BY <2>1 DEF StepOK
<1> QED BY <1>2, <1>3 DEF Typed

\* A client without a request is at the step of one.
LEMMA IdleStep == StepOK(Idle)
BY IdleType DEF StepOK, StepOps, SingleOps, Updates

\* The value a request for one object finds leads it on, or makes it fail.
LEMMA FoundTyped ==
  ASSUME Typed, NEW c \in Client, NEW v \in Nat, Found(c, v), SameStore,
         UNCHANGED counters, client[c].at \in {"lookup", "snap"}
  PROVE  Typed'
<1> DEFINE p == client[c]
<1>1. p \in Request /\ StepOK(p) /\ p.op \in SingleOps
  BY DEF Typed, TypeOK, StepOK, StepOps
<1>2. CASE p.op = "get"
  <2> DEFINE q == [p EXCEPT !.at = "answered",
                            !.list = [i \in Id |-> IF i \in p.ids THEN v ELSE 0]]
  <2>1. client' = [client EXCEPT ![c] = q]
    BY <1>2 DEF Found, Set
  <2>2. q \in Request /\ q.at = "answered" /\ q.op = "get" /\ q.ids = p.ids
    BY <1>1, <1>2 DEF Request
  <2> HIDE DEF q
  <2>3. StepOK(q)
    BY <1>1, <1>2, <2>2 DEF StepOK, StepOps, Reads
  <2> QED BY <2>1, <2>2, <2>3, TypedStep
<1>3. CASE p.op # "get" /\ v = 0
  BY <1>3, IdleType, IdleStep, TypedStep DEF Found, Return, Set
<1>4. CASE p.op # "get" /\ v # 0
  <2> DEFINE q == [p EXCEPT !.at = "submit"]
  <2>1. client' = [client EXCEPT ![c] = q]
    BY <1>4 DEF Found, GoTo, Set
  <2>2. /\ q \in Request /\ q.at = "submit" /\ q.op = p.op /\ q.ids = p.ids
        /\ p.op \in Updates
    BY <1>1, <1>4 DEF Request, SingleOps
  <2> HIDE DEF q
  <2>3. StepOK(q)
    BY <1>1, <2>2 DEF StepOK, StepOps, ObjectOps, Updates
  <2> QED BY <2>1, <2>2, <2>3, TypedStep
<1> QED BY <1>2, <1>3, <1>4

\* A request that goes on to another step and keeps what it is.
LEMMA GoToTyped ==
  ASSUME Typed, NEW c \in Client, NEW step, GoTo(c, step), SameStore, UNCHANGED counters,
         step \in {"snap", "submit", "answered", "forget"},
         client[c].op \in StepOps(step), client[c].op # "create"
  PROVE  Typed'
<1> DEFINE p == client[c]
           q == [p EXCEPT !.at = step]
<1>1. p \in Request /\ StepOK(p)
  BY DEF Typed, TypeOK
<1>2. q \in Request /\ q.at = step /\ q.op = p.op /\ q.ids = p.ids
  BY <1>1 DEF Request
<1>3. client' = [client EXCEPT ![c] = q]
  BY DEF GoTo, Set
<1> HIDE DEF q
<1>4. StepOK(q)
  BY <1>1, <1>2 DEF StepOK
<1> QED BY <1>2, <1>3, <1>4, TypedStep

\* The steps of a request that reads or begins keep the types.
LEMMA ReadersTyped ==
  ASSUME Typed, NEW c \in Client,
         \/ Arrive(c) \/ Assign(c) \/ Lookup(c) \/ ReadSnapshot(c) \/ Scan(c)
         \/ Merge(c) \/ Answered(c) \/ Forget(c)
  PROVE  Typed'
<1> DEFINE p == client[c]
<1>1. /\ p \in Request /\ StepOK(p) /\ p.class \in Class /\ p.ids \subseteq Id
      /\ TypeOK /\ \A k \in Key : overlay[k] \in Entry /\ base[k] \in Nat
  BY KeysType DEF Typed, TypeOK
<1>2. CASE Arrive(c)
  <2>1. PICK q \in Request : /\ client' = [client EXCEPT ![c] = q] /\ SameStore
                            /\ UNCHANGED counters /\ StepOK(q)
    BY <1>1, <1>2, ArriveFacts
  <2> QED BY <2>1, TypedStep
<1>3. CASE Assign(c)
  <2> DEFINE id == counters[p.class] + 1
             q == [p EXCEPT !.ids = @ \union {id},
                            !.at = IF Cardinality(p.ids) + 1 = p.want
                                   THEN "submit" ELSE "assign"]
  <2>1. /\ SameStore /\ client' = [client EXCEPT ![c] = q]
        /\ counters' = [counters EXCEPT ![p.class] = id] /\ p.op = "create"
    BY <1>1, <1>3 DEF Assign, Set, SameStore, StepOK, StepOps
  <2>2. counters[p.class] \in Nat /\ id \in Id
    <3>1. counters[p.class] \in Nat
      BY <1>1 DEF TypeOK
    <3> QED BY <1>3, <3>1, EngineAssumption DEF Assign, Id, EngineAssumption
  <2>3. q \in Request /\ q.at \in {"submit", "assign"} /\ q.op = "create" /\ q.ids # {}
    BY <1>1, <2>1, <2>2 DEF Request
  <2>4. counters' \in [Class -> Nat]
    BY <1>1, <2>1, <2>2 DEF TypeOK
  <2> HIDE DEF q
  <2>5. StepOK(q)
    BY <2>3 DEF StepOK, StepOps, ObjectOps, SingleOps, Updates
  <2> QED BY <2>1, <2>3, <2>4, <2>5, TypedStep
<1>4. CASE Lookup(c)
  <2>1. p.at = "lookup" /\ p.op \in SingleOps /\ SameStore /\ UNCHANGED counters
    BY <1>1, <1>4 DEF Lookup, StepOK, StepOps, SameStore
  <2>2. KeyOf(c) \in Key
    BY <2>1, KeyOfSingle
  <2>3. CASE GoTo(c, "snap")
    BY <2>1, <2>3, GoToTyped DEF StepOps, SingleOps, Updates
  <2>4. CASE Found(c, ValueOf(overlay[KeyOf(c)]))
    <3>1. ValueOf(overlay[KeyOf(c)]) \in Nat
      BY <1>1, <2>2 DEF ValueOf, Entry
    <3> QED BY <2>1, <2>4, <3>1, FoundTyped
  <2> QED BY <1>4, <2>3, <2>4 DEF Lookup
<1>5. CASE ReadSnapshot(c)
  <2>1. p.at = "snap" /\ p.op \in SingleOps /\ SameStore /\ UNCHANGED counters
    BY <1>1, <1>5 DEF ReadSnapshot, StepOK, StepOps, SameStore
  <2>2. base[KeyOf(c)] \in Nat
    BY <1>1, <2>1, KeyOfSingle
  <2> QED BY <1>5, <2>1, <2>2, FoundTyped DEF ReadSnapshot
<1>6. CASE Scan(c)
  <2> DEFINE q == [p EXCEPT !.at = "merge", !.list = [i \in Id |-> base[<<p.class, i>>]]]
  <2>1. /\ p.op \in {"dropClass", "query"} /\ SameStore /\ UNCHANGED counters
        /\ client' = [client EXCEPT ![c] = q] \/ Return(c)
    BY <1>1, <1>6 DEF Scan, StepOK, StepOps, SameStore, Set
  <2>2. [i \in Id |-> base[<<p.class, i>>]] \in [Id -> Nat]
    BY <1>1, KeyTypes
  <2>3. q \in Request /\ q.at = "merge" /\ q.op = p.op /\ q.ids = p.ids
    BY <1>1, <2>2 DEF Request
  <2> HIDE DEF q
  <2>4. StepOK(q)
    BY <2>1, <2>3 DEF StepOK, StepOps, SingleOps, Updates
  <2> QED BY <2>1, <2>3, <2>4, TypedStep, IdleType, IdleStep DEF Return, Set
<1>7. CASE Merge(c)
  <2> DEFINE merged == [i \in Id |-> IF overlay[<<p.class, i>>] = NoEntry THEN p.list[i]
                                     ELSE ValueOf(overlay[<<p.class, i>>])]
             q == [p EXCEPT !.at = "answered", !.list = merged]
  <2>1. p.op \in {"dropClass", "query"} /\ SameStore /\ UNCHANGED counters
    BY <1>1, <1>7 DEF Merge, StepOK, StepOps, SameStore
  <2>2. merged \in [Id -> Nat]
    <3>1. ASSUME NEW i \in Id PROVE merged[i] \in Nat
      <4>1. overlay[<<p.class, i>>] \in Entry /\ p.list[i] \in Nat
        BY <1>1, KeyTypes DEF Request
      <4> QED BY <4>1 DEF Entry, ValueOf
    <3> QED BY <3>1
  <2>3. q \in Request /\ q.at = "answered" /\ q.op = p.op /\ q.ids = p.ids
    BY <1>1, <2>2 DEF Request
  <2>4. CASE p.op = "query"
    <3>1. client' = [client EXCEPT ![c] = q]
      BY <1>7, <2>4 DEF Merge, Set
    <3> HIDE DEF q
    <3>2. StepOK(q)
      BY <2>3, <2>4 DEF StepOK, StepOps, SingleOps, Updates, Reads
    <3> QED BY <2>1, <2>3, <3>1, <3>2, TypedStep
  <2>5. CASE p.op = "dropClass"
    <3>1. Return(c) \/ GoTo(c, "submit")
      BY <1>7, <2>5 DEF Merge
    <3>2. CASE Return(c)
      BY <2>1, <3>2, TypedStep, IdleType, IdleStep DEF Return, Set
    <3>3. CASE GoTo(c, "submit")
      BY <2>1, <2>5, <3>3, GoToTyped DEF StepOps, ClassOps
    <3> QED BY <3>1, <3>2, <3>3
  <2> QED BY <2>1, <2>4, <2>5
<1>8. CASE Answered(c)
  BY <1>8, TypedStep, IdleType, IdleStep DEF Answered, Return, Set, SameStore
<1>9. CASE Forget(c)
  <2>1. counters' \in [Class -> Nat]
    BY <1>1, <1>9 DEF Forget, TypeOK
  <2> QED BY <1>9, <2>1, TypedStep, IdleType, IdleStep DEF Forget, Return, Set, SameStore
<1> QED BY <1>2, <1>3, <1>4, <1>5, <1>6, <1>7, <1>8, <1>9

\* So do the steps of one that writes.
LEMMA WritersTyped ==
  ASSUME Typed, NEW c \in Client, Submit(c) \/ Publish(c) \/ Register(c)
  PROVE  Typed'
<1> DEFINE p == client[c]
<1>1. p \in Request /\ StepOK(p) /\ TypeOK
  BY DEF Typed, TypeOK
<1>2. CASE Submit(c)
  <2>1. /\ log' \in Seq(Record) /\ nextTx' = nextTx + 1 /\ nextTx \in Nat
        /\ Len(log') = Len(log) + 1 /\ Len(log) \in Nat
        /\ client' \in [Client -> Request]
        /\ client'[c] = [p EXCEPT !.at = "publish", !.tx = RecordOf(p).tx]
        /\ \A d \in Client \ {c} : Same(client[d], client'[d])
        /\ UNCHANGED <<base, applied, overlay, classes, counters, ck, cut, overtaken>>
        /\ p.at = "submit"
    BY <1>2, SubmitFacts
  <2>2. TypeOK'
    BY <1>1, <2>1 DEF TypeOK
  <2>3. ASSUME NEW d \in Client PROVE StepOK(client[d])'
    <3>1. StepOK(client[d])
      BY DEF Typed
    <3>2. CASE d = c
      <4>1. /\ client'[c].at = "publish" /\ client'[c].op = p.op
            /\ client'[c].ids = p.ids
        BY <1>1, <2>1 DEF Request
      <4> QED BY <1>1, <2>1, <3>2, <4>1 DEF StepOK, StepOps
    <3>3. CASE d # c
      BY <2>1, <3>1, <3>3 DEF Same, StepOK
    <3> QED BY <3>2, <3>3
  <2> QED BY <2>2, <2>3 DEF Typed
<1>3. CASE Publish(c)
  <2>1. EntryOf(p) \in Entry
    BY <1>1 DEF EntryOf, Entry, Live, Request
  <2>2. /\ overlay' = [k \in Key |-> IF k \in KeysOf(p) THEN EntryOf(p) ELSE overlay[k]]
        /\ p.at = "publish" /\ p.op \in ClassOps \union ObjectOps
        /\ UNCHANGED <<log, base, applied, nextTx, classes, counters, ck, cut, overtaken>>
    BY <1>1, <1>3 DEF Publish, EntryOf, Live, StepOK, StepOps
  <2>3. PICK q \in Request : StepOK(q) /\ client' = [client EXCEPT ![c] = q]
    <3>1. CASE p.op \in ClassOps
      <4> DEFINE q == [p EXCEPT !.at = "register"]
      <4>1. client' = [client EXCEPT ![c] = q]
        BY <1>3, <3>1 DEF Publish, GoTo, Set
      <4>2. q \in Request /\ q.at = "register" /\ q.op = p.op /\ q.ids = p.ids
        BY <1>1 DEF Request
      <4> HIDE DEF q
      <4>3. StepOK(q)
        BY <3>1, <4>2 DEF StepOK, StepOps, ClassOps, SingleOps, Updates
      <4> QED BY <4>1, <4>2, <4>3
    <3>2. CASE p.op \notin ClassOps
      BY <1>3, <3>2, IdleType, IdleStep DEF Publish, Return, Set
    <3> QED BY <3>1, <3>2
  <2>4. /\ client' \in [Client -> Request]
        /\ \A d \in Client : client'[d] = q \/ client'[d] = client[d]
    BY <1>1, <2>3 DEF TypeOK
  <2>5. TypeOK'
    BY <1>1, <2>1, <2>2, <2>4 DEF TypeOK
  <2>6. ASSUME NEW d \in Client PROVE StepOK(client[d])'
    <3>1. PICK x : x = client'[d] /\ StepOK(x)
      BY <2>3, <2>4 DEF Typed
    <3> QED BY <3>1 DEF StepOK
  <2> QED BY <2>5, <2>6 DEF Typed
<1>4. CASE Register(c)
  <2>1. /\ p.at = "register" /\ p.op \in ClassOps /\ classes' \subseteq Class
        /\ UNCHANGED <<log, base, applied, nextTx, overlay, counters, ck, cut, overtaken>>
    BY <1>1, <1>4 DEF Register, StepOK, StepOps, TypeOK, Request
  <2>2. PICK q \in Request : StepOK(q) /\ client' = [client EXCEPT ![c] = q]
    <3>1. CASE p.op = "createClass"
      BY <1>4, <3>1, IdleType, IdleStep DEF Register, Return, Set
    <3>2. CASE p.op = "dropClass"
      <4> DEFINE q == [p EXCEPT !.at = "forget"]
      <4>1. client' = [client EXCEPT ![c] = q]
        BY <1>4, <3>2 DEF Register, GoTo, Set
      <4>2. q \in Request /\ q.at = "forget" /\ q.op = p.op /\ q.ids = p.ids
        BY <1>1 DEF Request
      <4> HIDE DEF q
      <4>3. StepOK(q)
        BY <3>2, <4>2 DEF StepOK, StepOps, SingleOps, Updates
      <4> QED BY <4>1, <4>2, <4>3
    <3> QED BY <2>1, <3>1, <3>2 DEF ClassOps
  <2>3. /\ client' \in [Client -> Request]
        /\ \A d \in Client : client'[d] = q \/ client'[d] = client[d]
    BY <1>1, <2>2 DEF TypeOK
  <2>4. TypeOK'
    BY <1>1, <2>1, <2>3 DEF TypeOK
  <2>5. ASSUME NEW d \in Client PROVE StepOK(client[d])'
    <3>1. PICK x : x = client'[d] /\ StepOK(x)
      BY <2>2, <2>3 DEF Typed
    <3> QED BY <3>1 DEF StepOK
  <2> QED BY <2>4, <2>5 DEF Typed
<1> QED BY <1>2, <1>3, <1>4

\* So do those of a checkpoint, and a restart.
LEMMA CheckpointTyped ==
  ASSUME Typed, Rotate \/ BuildAndSwap \/ Prune \/ Restart
  PROVE  Typed'
<1>1. /\ TypeOK /\ log \in Seq(Record) /\ cut \in 0 .. Len(log) /\ Len(log) \in Nat
      /\ base \in [Key -> Nat] /\ applied \in Nat
  BY DEF Typed, TypeOK
<1>2. client' = client => \A d \in Client : StepOK(client[d])'
  BY DEF Typed, StepOK
<1>3. CASE Rotate
  <2>1. Len(log) \in 0 .. Len(log)
    BY <1>1
  <2>2. TypeOK'
    BY <1>1, <1>3, <2>1 DEF Rotate, TypeOK
  <2> QED BY <1>2, <1>3, <2>2 DEF Typed, Rotate
<1>4. CASE Prune
  <2>1. overlay' \in [Key -> Entry]
    BY <1>1, <1>4 DEF Prune, TypeOK, Entry, NoEntry
  <2>2. TypeOK'
    BY <1>1, <1>4, <2>1 DEF Prune, Overtakes, TypeOK
  <2> QED BY <1>2, <1>4, <2>2 DEF Typed, Prune
<1>5. ASSUME FoldCut
      PROVE  /\ log' \in Seq(Record) /\ base' \in [Key -> Nat] /\ applied' \in Nat
             /\ cut' \in 0 .. Len(log')
  <2> DEFINE pre == SubSeq(log, 1, cut)
             suf == SubSeq(log, cut + 1, Len(log))
  <2>1. pre \in Seq(Record) /\ suf \in Seq(Record)
    BY <1>1, CutProperties
  <2>2. base' = Applied(base, pre) /\ applied' = LastTx(applied, pre) /\ log' = suf /\ cut' = 0
    BY <1>5 DEF FoldCut
  <2> HIDE DEF pre, suf
  <2>3. applied' \in Nat
    <3>1. CASE pre = <<>>
      BY <1>1, <2>2, <3>1 DEF LastTx
    <3>2. CASE pre # <<>>
      <4>1. Len(pre) \in DOMAIN pre
        BY <2>1, <3>2
      <4> QED BY <2>1, <2>2, <3>2, <4>1, RecordType DEF LastTx
    <3> QED BY <3>1, <3>2
  <2>4. Len(log') \in Nat
    BY <2>1, <2>2
  <2> QED BY <1>1, <2>1, <2>2, <2>3, <2>4, AppliedType
<1>6. CASE BuildAndSwap
  <2>1. TypeOK'
    BY <1>1, <1>5, <1>6 DEF BuildAndSwap, TypeOK
  <2> QED BY <1>2, <1>6, <2>1 DEF Typed, BuildAndSwap
<1>7. CASE Restart
  <2>1. /\ log' \in Seq(Record) /\ base' \in [Key -> Nat] /\ applied' \in Nat
        /\ cut' \in 0 .. Len(log') /\ ck' = "idle"
        /\ classes' \subseteq Class
    BY <1>1, <1>5, <1>7 DEF Restart, TypeOK
  <2>2. nextTx' \in Nat
    <3>1. nextTx' = LastTx(applied', log')
      BY <1>7 DEF Restart
    <3>2. log' # <<>> => Len(log') \in DOMAIN log'
      BY <2>1
    <3> QED BY <2>1, <3>1, <3>2, RecordType DEF LastTx
  <2>3. overlay' \in [Key -> Entry]
    <3>1. ASSUME NEW k \in Key PROVE LastOf(log', k, NoEntry) \in Entry
      <4>1. CASE \A i \in DOMAIN log' : k \notin log'[i].keys
        <5>1. LastOf(log', k, NoEntry) = NoEntry
          BY <2>1, <4>1, AppliedNone
        <5>2. NoEntry \in Entry
          BY DEF Entry, NoEntry
        <5> QED BY <5>1, <5>2
      <4>2. ASSUME NEW i \in DOMAIN log', k \in log'[i].keys,
                   \A j \in DOMAIN log' : k \in log'[j].keys => j <= i
            PROVE  LastOf(log', k, NoEntry) \in Entry
        BY <2>1, <4>2, AppliedLast, RecordType, SMTT(30) DEF Entry
      <4> QED BY <2>1, <4>1, <4>2, LastRecord
    <3> QED BY <1>7, <3>1 DEF Restart
  <2>4. counters' \in [Class -> Nat]
    BY <1>7, <2>1, ObservedPasses DEF Restart
  <2>5. client' = [c \in Client |-> Idle]
    BY <1>7 DEF Restart
  <2>8. overtaken' \in BOOLEAN
    BY <1>1, <1>7 DEF Restart, TypeOK
  <2>6. TypeOK'
    BY <2>1, <2>2, <2>3, <2>4, <2>5, <2>8, IdleType DEF TypeOK
  <2>7. \A d \in Client : StepOK(client[d])'
    BY <2>5, IdleStep DEF StepOK
  <2> QED BY <2>6, <2>7 DEF Typed
<1> QED BY <1>3, <1>4, <1>6, <1>7

(***************************************************************************)
(* The variables keep their types, for any clients, serial or not.         *)
(***************************************************************************)
THEOREM TypeCorrect == Spec => []TypeOK
<1>1. Init => Typed
  BY InitHolds, EngineTyped
<1>2. ASSUME Typed, [Next]_vars PROVE Typed'
  <2>1. CASE UNCHANGED vars
    BY <1>2, <2>1 DEF vars, Typed, TypeOK, StepOK
  <2> QED BY <1>2, <2>1, ReadersTyped, WritersTyped, CheckpointTyped DEF Next, Serve
<1>3. Typed => TypeOK
  BY DEF Typed
<1> QED BY <1>1, <1>2, <1>3, PTL DEF Spec

=============================================================================
