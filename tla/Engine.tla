------------------------------- MODULE Engine -------------------------------
(***************************************************************************)
(* storage.Engine above its durable core: the overlay of writes no         *)
(* checkpoint has folded yet, the set of classes, the id generator, and    *)
(* the steps of the requests and of a checkpoint, which take Engine.mu     *)
(* only one step at a time.                                                *)
(*                                                                         *)
(* The durable core is what Storage shows it to be: Submit appends a       *)
(* record to the log and returns its TxID, a checkpoint folds a prefix of  *)
(* the log into the generation readers have mapped, a restart keeps both.  *)
(* A stored value is the TxID of the record that wrote it, 0 for absence.  *)
(***************************************************************************)
EXTENDS Naturals, Sequences, FiniteSetsExt

CONSTANTS
    Client,     \* goroutines serving requests
    Class,      \* the classes, each with its project: the scope keys
    MaxId,      \* bound: object ids of a class
    MaxTx,      \* bound: TxIDs
    Ops,        \* the kinds of requests that arrive
    Alone       \* what clients write one request at a time

OpKinds == {"createClass", "dropClass", "create", "put", "delete", "get", "query"}

ASSUME EngineAssumption ==
    /\ MaxId \in Nat \ {0} /\ MaxTx \in Nat
    /\ Class # {}
    /\ Class \cap (Class \X (1 .. MaxId)) = {}     \* their keys differ (nsClass)
    /\ Ops \subseteq OpKinds
    /\ Alone \subseteq {"classes", "objects"}

VARIABLES
    log,        \* the records of wal.applying.log and wal.log
    base,       \* the content of the mapped generation
    applied,    \* its LastAppliedTxID
    nextTx,     \* Sequencer.nextTx
    overlay,    \* Engine.overlay
    classes,    \* Engine.classes
    counters,   \* idgen.Generator.counters
    ck,         \* the step of Checkpoint, serialized by ckMu
    cut,        \* the records of log the rotation moved to wal.applying.log
    client,     \* the step and the local variables of each request
    overtaken   \* history: a checkpoint pruned what a drop was to merge

vars == <<log, base, applied, nextTx, overlay, classes, counters, ck, cut,
          client, overtaken>>

Id == 1 .. MaxId
Object == Class \X Id
Key == Class \union Object

Record == [tx : Nat \ {0}, keys : (SUBSET Key) \ {{}}, live : BOOLEAN]
Entry == [tx : Nat, live : BOOLEAN]     \* overlayVal; tx is 0 for no entry
NoEntry == [tx |-> 0, live |-> FALSE]

Request ==
    [at : {"idle", "assign", "lookup", "snap", "scan", "merge", "submit",
           "publish", "register", "forget", "answered"},
     op : OpKinds \union {"none"}, class : Class, ids : SUBSET Id, want : Nat,
     tx : Nat, list : [Id -> Nat], seen : SUBSET (Id \X Nat)]

Idle ==
    [at |-> "idle", op |-> "none", class |-> CHOOSE c \in Class : TRUE,
     ids |-> {}, want |-> 0, tx |-> 0, list |-> [i \in Id |-> 0], seen |-> {}]

TypeOK ==
    /\ log \in Seq(Record)
    /\ base \in [Key -> Nat]
    /\ applied \in Nat /\ nextTx \in Nat
    /\ overlay \in [Key -> Entry]
    /\ classes \subseteq Class
    /\ counters \in [Class -> Nat]
    /\ ck \in {"idle", "build", "prune"}
    /\ cut \in 0 .. Len(log)
    /\ client \in [Client -> Request]
    /\ overtaken \in BOOLEAN

(***************************************************************************)
(* The database just opened for the first time.                            *)
(***************************************************************************)
Init ==
    /\ log = <<>> /\ base = [k \in Key |-> 0] /\ applied = 0 /\ nextTx = 0
    /\ overlay = [k \in Key |-> NoEntry]
    /\ classes = {} /\ counters = [c \in Class |-> 0]
    /\ ck = "idle" /\ cut = 0
    /\ client = [c \in Client |-> Idle]
    /\ overtaken = FALSE

(***************************************************************************)
(* The content after the records recs: the last writer of a key wins, and  *)
(* a delete removes it.                                                    *)
(***************************************************************************)
LastOf(recs, k, none) ==
    LET W == {i \in DOMAIN recs : k \in recs[i].keys}
    IN  IF W = {} THEN none ELSE [tx |-> recs[Max(W)].tx, live |-> recs[Max(W)].live]

ValueOf(entry) == IF entry.live THEN entry.tx ELSE 0

Applied(content, recs) ==
    [k \in Key |-> LET e == LastOf(recs, k, NoEntry)
                   IN  IF e = NoEntry THEN content[k] ELSE ValueOf(e)]

\* What is durable, and what lookup finds when it is not interrupted.
Committed == Applied(base, log)
Visible(k) == IF overlay[k] = NoEntry THEN base[k] ELSE ValueOf(overlay[k])

-----------------------------------------------------------------------------
(***************************************************************************)
(* Requests.                                                               *)
(***************************************************************************)
ClassOps == {"createClass", "dropClass"}
Updates == {"put", "delete"}
Reads == {"get", "query"}

KeysOf(q) == IF q.op \in ClassOps THEN {q.class} ELSE {q.class} \X q.ids

Set(c, q) == client' = [client EXCEPT ![c] = q]
GoTo(c, step) == Set(c, [client[c] EXCEPT !.at = step])
Return(c) == Set(c, Idle)

(***************************************************************************)
(* What clients may ask for while others do.  With "classes" in Alone, a   *)
(* request that creates or drops a class is alone in writing to it; with   *)
(* "objects", requests in progress write different objects, and an update  *)
(* is of an id that has been assigned.  Nothing keeps checkpoints from     *)
(* anybody.                                                                *)
(***************************************************************************)
Conflict(p, q) ==
    /\ p.class = q.class
    /\ p.op \notin Reads /\ q.op \notin Reads
    /\ \/ "classes" \in Alone /\ {p.op, q.op} \cap ClassOps # {}
       \/ "objects" \in Alone /\ p.ids \cap q.ids # {}

Allowed(c, q) ==
    /\ \A d \in Client \ {c} : client[d].at # "idle" => ~Conflict(q, client[d])
    /\ "objects" \in Alone /\ q.op \in Updates =>
          \A i \in q.ids : i <= counters[q.class]

FirstStep(op) ==
    CASE op = "createClass" -> "submit"
      [] op \in {"dropClass", "query"} -> "scan"
      [] op = "create" -> "assign"
      [] OTHER -> "lookup"

(***************************************************************************)
(* A request arrives and passes its first test, ClassExists; one that does *)
(* not pass it changes nothing.  ids is the object it names, want the      *)
(* number of objects it creates: one, or several in bulk.                  *)
(***************************************************************************)
Scope(op, ids) == IF op = "query" THEN Id ELSE ids

Start(c, op, class, ids, want) ==
    /\ client[c].at = "idle"
    /\ (op = "createClass") = (class \notin classes)
    /\ LET q == [Idle EXCEPT !.at = FirstStep(op), !.op = op, !.class = class,
                             !.ids = ids, !.want = want,
                             !.seen = IF op \notin Reads THEN {} ELSE
                                 {<<i, Committed[<<class, i>>]>> : i \in Scope(op, ids)}
                                 \union {<<i, Visible(<<class, i>>)>> : i \in Scope(op, ids)}]
       IN  Allowed(c, q) /\ Set(c, q)
    /\ UNCHANGED <<log, base, applied, nextTx, overlay, classes, counters, ck,
                   cut, overtaken>>

Arrive(c) ==
    \E op \in Ops, class \in Class :
        \/ op \in ClassOps \union {"query"} /\ Start(c, op, class, {}, 0)
        \/ op \in Updates \union {"get"} /\ \E i \in Id : Start(c, op, class, {i}, 0)
        \/ op = "create" /\ \E n \in 1 .. MaxId : Start(c, op, class, {}, n)

(***************************************************************************)
(* idgen.Next, once for each object to create.                             *)
(***************************************************************************)
Assign(c) ==
    LET q == client[c]
        id == counters[q.class] + 1
    IN  /\ q.at = "assign"
        /\ id <= MaxId
        /\ counters' = [counters EXCEPT ![q.class] = id]
        /\ Set(c, [q EXCEPT !.ids = @ \union {id},
                            !.at = IF Cardinality(q.ids) + 1 = q.want
                                   THEN "submit" ELSE "assign"])
        /\ UNCHANGED <<log, base, applied, nextTx, overlay, classes, ck, cut,
                       overtaken>>

(***************************************************************************)
(* lookup found v: a read returns it, an update of nothing is refused.     *)
(***************************************************************************)
Found(c, v) ==
    LET q == client[c]
    IN  CASE q.op = "get" ->
               Set(c, [q EXCEPT !.at = "answered",
                                !.list = [i \in Id |-> IF i \in q.ids THEN v ELSE 0]])
          [] q.op # "get" /\ v = 0 -> Return(c)
          [] OTHER -> GoTo(c, "submit")

KeyOf(c) == CHOOSE k \in KeysOf(client[c]) : TRUE

\* Mutant: a deleted entry of the overlay is taken for none.
LookupSkipsDeleted(c) ==
    /\ client[c].at = "lookup"
    /\ IF ValueOf(overlay[KeyOf(c)]) = 0 THEN GoTo(c, "snap")
                                         ELSE Found(c, overlay[KeyOf(c)].tx)
    /\ UNCHANGED <<log, base, applied, nextTx, overlay, classes, counters, ck,
                   cut, overtaken>>

(***************************************************************************)
(* lookup: the overlay first, under RLock; then, unlocked, the snapshot.   *)
(***************************************************************************)
Lookup(c) ==
    /\ client[c].at = "lookup"
    /\ IF overlay[KeyOf(c)] = NoEntry THEN GoTo(c, "snap")
                                      ELSE Found(c, ValueOf(overlay[KeyOf(c)]))
    /\ UNCHANGED <<log, base, applied, nextTx, overlay, classes, counters, ck,
                   cut, overtaken>>

ReadSnapshot(c) ==
    /\ client[c].at = "snap"
    /\ Found(c, base[KeyOf(c)])
    /\ UNCHANGED <<log, base, applied, nextTx, overlay, classes, counters, ck,
                   cut, overtaken>>

(***************************************************************************)
(* QueryObjects: the snapshot is scanned and released, then the overlay is *)
(* merged in.  DropClass lists the class this way, after a second          *)
(* ClassExists, and stops at an object.                                    *)
(***************************************************************************)
Scan(c) ==
    LET q == client[c]
    IN  /\ q.at = "scan"
        /\ IF q.op = "query" \/ q.class \in classes
           THEN Set(c, [q EXCEPT !.at = "merge",
                                 !.list = [i \in Id |-> base[<<q.class, i>>]]])
           ELSE Return(c)
        /\ UNCHANGED <<log, base, applied, nextTx, overlay, classes, counters,
                       ck, cut, overtaken>>

\* Mutant: a class is taken for empty when the snapshot has none of it.
MergeSnapshotOnly(c) ==
    LET q == client[c]
    IN  /\ q.at = "merge"
        /\ CASE q.op = "query" -> GoTo(c, "answered")
             [] q.op = "dropClass" /\ \E i \in Id : q.list[i] # 0 -> Return(c)
             [] OTHER -> GoTo(c, "submit")
        /\ UNCHANGED <<log, base, applied, nextTx, overlay, classes, counters,
                       ck, cut, overtaken>>

Merge(c) ==
    LET q == client[c]
        merged == [i \in Id |-> IF overlay[<<q.class, i>>] = NoEntry THEN q.list[i]
                                ELSE ValueOf(overlay[<<q.class, i>>])]
    IN  /\ q.at = "merge"
        /\ CASE q.op = "query" ->
                  Set(c, [q EXCEPT !.at = "answered", !.list = merged])
             [] q.op = "dropClass" /\ \E i \in Id : merged[i] # 0 -> Return(c)
             [] OTHER -> GoTo(c, "submit")
        /\ UNCHANGED <<log, base, applied, nextTx, overlay, classes, counters,
                       ck, cut, overtaken>>

Answered(c) ==
    /\ client[c].at = "answered"
    /\ Return(c)
    /\ UNCHANGED <<log, base, applied, nextTx, overlay, classes, counters, ck,
                   cut, overtaken>>

(***************************************************************************)
(* Sequencer.Submit: the record is durable, the request has its TxID.      *)
(* seen gathers, for the reads in progress, the values they may return.    *)
(***************************************************************************)
Submit(c) ==
    LET q == client[c]
        r == [tx |-> nextTx + 1, keys |-> KeysOf(q), live |-> q.op \notin {"delete", "dropClass"}]
        written == {<<k[2], ValueOf(r)>> : k \in r.keys \cap Object}
    IN  /\ q.at = "submit"
        /\ nextTx < MaxTx
        /\ nextTx' = nextTx + 1
        /\ log' = Append(log, r)
        /\ client' = [d \in Client |->
               CASE d = c -> [q EXCEPT !.at = "publish", !.tx = r.tx]
                 [] d # c /\ client[d].op \in Reads /\ client[d].class = q.class ->
                        [client[d] EXCEPT !.seen = @ \union written]
                 [] OTHER -> client[d]]
        /\ UNCHANGED <<base, applied, overlay, classes, counters, ck, cut, overtaken>>

(***************************************************************************)
(* The overlay entries of one record are written under one Lock.           *)
(***************************************************************************)
Publish(c) ==
    LET q == client[c]
        e == [tx |-> q.tx, live |-> q.op \notin {"delete", "dropClass"}]
    IN  /\ q.at = "publish"
        /\ overlay' = [k \in Key |-> IF k \in KeysOf(q) THEN e ELSE overlay[k]]
        /\ IF q.op \in ClassOps THEN GoTo(c, "register") ELSE Return(c)
        /\ UNCHANGED <<log, base, applied, nextTx, classes, counters, ck, cut,
                       overtaken>>

\* Mutant: a dropped class stays in the class set.
RegisterOnly(c) ==
    LET q == client[c]
    IN  /\ q.at = "register"
        /\ classes' = classes \union {q.class}
        /\ IF q.op = "createClass" THEN Return(c) ELSE GoTo(c, "forget")
        /\ UNCHANGED <<log, base, applied, nextTx, overlay, counters, ck, cut,
                       overtaken>>

Register(c) ==
    LET q == client[c]
    IN  /\ q.at = "register"
        /\ IF q.op = "createClass"
           THEN classes' = classes \union {q.class} /\ Return(c)
           ELSE classes' = classes \ {q.class} /\ GoTo(c, "forget")
        /\ UNCHANGED <<log, base, applied, nextTx, overlay, counters, ck, cut,
                       overtaken>>

(***************************************************************************)
(* idgen.Drop.                                                             *)
(***************************************************************************)
Forget(c) ==
    /\ client[c].at = "forget"
    /\ counters' = [counters EXCEPT ![client[c].class] = 0]
    /\ Return(c)
    /\ UNCHANGED <<log, base, applied, nextTx, overlay, classes, ck, cut, overtaken>>

-----------------------------------------------------------------------------
(***************************************************************************)
(* Checkpoint: the log is cut, its retired part folded into a generation   *)
(* that readers are switched to, the overlay pruned of what was folded.    *)
(***************************************************************************)
LastTx(floor, recs) == IF recs = <<>> THEN floor ELSE recs[Len(recs)].tx

Rotate ==
    /\ ck = "idle"
    /\ cut' = Len(log)
    /\ ck' = "build"
    /\ UNCHANGED <<log, base, applied, nextTx, overlay, classes, counters,
                   client, overtaken>>

\* Mutant: the folded part of the log is still counted as retired.
FoldKeepsCut ==
    /\ base' = Applied(base, SubSeq(log, 1, cut))
    /\ applied' = LastTx(applied, SubSeq(log, 1, cut))
    /\ log' = SubSeq(log, cut + 1, Len(log))
    /\ UNCHANGED cut

FoldCut ==
    /\ base' = Applied(base, SubSeq(log, 1, cut))
    /\ applied' = LastTx(applied, SubSeq(log, 1, cut))
    /\ log' = SubSeq(log, cut + 1, Len(log))
    /\ cut' = 0

BuildAndSwap ==
    /\ ck = "build"
    /\ FoldCut
    /\ ck' = "prune"
    /\ UNCHANGED <<nextTx, overlay, classes, counters, client, overtaken>>

(***************************************************************************)
(* A drop that has scanned the snapshot is overtaken when the entries of   *)
(* its class leave the overlay before it has merged them.                  *)
(***************************************************************************)
Overtakes ==
    overtaken' =
        \/ overtaken
        \/ \E c \in Client :
              /\ client[c].op = "dropClass" /\ client[c].at = "merge"
              /\ \E i \in Id : overlay[<<client[c].class, i>>].tx \in 1 .. applied

\* Mutant: the overlay is emptied, what the log still holds included.
PruneAll ==
    /\ ck = "prune"
    /\ overlay' = [k \in Key |-> NoEntry]
    /\ ck' = "idle"
    /\ Overtakes
    /\ UNCHANGED <<log, base, applied, nextTx, classes, counters, cut, client>>

Prune ==
    /\ ck = "prune"
    /\ overlay' = [k \in Key |-> IF overlay[k].tx <= applied THEN NoEntry
                                 ELSE overlay[k]]
    /\ ck' = "idle"
    /\ Overtakes
    /\ UNCHANGED <<log, base, applied, nextTx, classes, counters, cut, client>>

\* Mutant: the ids stored in the generation are not observed.
ObservedInLog(content, recs, class) ==
    Max({0} \union {i \in Id : \E n \in DOMAIN recs :
                                  recs[n].live /\ <<class, i>> \in recs[n].keys})

(***************************************************************************)
(* A crash and the next Open: an interrupted checkpoint is completed, the  *)
(* rest of the log replayed into the overlay and the class set, and the    *)
(* ids seen in the generation and in the replayed puts observed.           *)
(***************************************************************************)
Observed(content, recs, class) ==
    Max({0} \union {i \in Id : content[<<class, i>>] # 0}
            \union {i \in Id : \E n \in DOMAIN recs :
                                  recs[n].live /\ <<class, i>> \in recs[n].keys})

\* Mutant: the sequencer resumes after the log alone, not after LastAppliedTxID.
RestartFromLog ==
    /\ FoldCut
    /\ overlay' = [k \in Key |-> LastOf(log', k, NoEntry)]
    /\ classes' = {c \in Class : Committed[c] # 0}
    /\ counters' = [c \in Class |-> Observed(base', log', c)]
    /\ nextTx' = LastTx(0, log')
    /\ client' = [c \in Client |-> Idle]
    /\ ck' = "idle"
    /\ UNCHANGED overtaken

Restart ==
    /\ FoldCut
    /\ overlay' = [k \in Key |-> LastOf(log', k, NoEntry)]
    /\ classes' = {c \in Class : Committed[c] # 0}
    /\ counters' = [c \in Class |-> Observed(base', log', c)]
    /\ nextTx' = LastTx(applied', log')
    /\ client' = [c \in Client |-> Idle]
    /\ ck' = "idle"
    /\ UNCHANGED overtaken

-----------------------------------------------------------------------------
Serve(c) ==
    \/ Arrive(c) \/ Assign(c) \/ Lookup(c) \/ ReadSnapshot(c) \/ Scan(c)
    \/ Merge(c) \/ Answered(c) \/ Submit(c) \/ Publish(c) \/ Register(c)
    \/ Forget(c)

Next ==
    \/ \E c \in Client : Serve(c)
    \/ Rotate \/ BuildAndSwap \/ Prune
    \/ Restart

Spec == Init /\ [][Next]_vars

-----------------------------------------------------------------------------
(***************************************************************************)
(* Reads see every write once it is published: whatever checkpoints and    *)
(* restarts do, overlay and snapshot together show the durable state of a  *)
(* key, unless a request that wrote it has not yet come to the overlay.    *)
(***************************************************************************)
Unpublished == UNION {KeysOf(client[c]) : c \in {d \in Client : client[d].at = "publish"}}

OverlayCurrent == \A k \in Key \ Unpublished : Visible(k) = Committed[k]

(***************************************************************************)
(* What a get returns of an object was its state at some moment of the     *)
(* get: neither an older one nor, when a checkpoint moves the object from  *)
(* the overlay to the snapshot meanwhile, none at all (mvcc.md:34).        *)
(***************************************************************************)
Fresh(q) == \A i \in Scope(q.op, q.ids) : <<i, q.list[i]>> \in q.seen

GetsFresh ==
    \A c \in Client :
        client[c].op = "get" /\ client[c].at = "answered" => Fresh(client[c])

(***************************************************************************)
(* The same of each object a query goes through: "a key is never absent    *)
(* from both" snapshot and overlay (engine.go:521).                        *)
(***************************************************************************)
QueriesFresh ==
    \A c \in Client :
        client[c].op = "query" /\ client[c].at = "answered" => Fresh(client[c])

(***************************************************************************)
(* A write still fits the objects it was checked against when its record   *)
(* reaches the log, whatever checkpoints and restarts did in between: a    *)
(* create never lands on an object that exists (the id generator stays     *)
(* ahead of every object stored), and a put or a delete never lands on one *)
(* that does not ("PutObject replaces an existing object", engine.go:396); *)
(* until a drop is overtaken, which may drop a class that has objects.     *)
(***************************************************************************)
WritesFit ==
    [][\A c \in Client :
          client[c].at = "submit" /\ client'[c].at = "publish" =>
              \/ overtaken
              \/ \A k \in KeysOf(client[c]) \cap Object :
                    (client[c].op = "create") = (Committed[k] = 0)]_vars

(***************************************************************************)
(* The class set is that of the durable class definitions, but for a class *)
(* request in progress.                                                    *)
(***************************************************************************)
ClassesDurable ==
    \A class \in Class :
        \/ (class \in classes) = (Committed[class] # 0)
        \/ \E c \in Client : /\ client[c].at \in {"publish", "register"}
                             /\ KeysOf(client[c]) = {class}

(***************************************************************************)
(* "DropClass removes an empty class from a project" (engine.go:306): no   *)
(* object is left behind in a class that does not exist.                   *)
(***************************************************************************)
NoOrphans == \A o \in Object : Committed[o] # 0 => Committed[o[1]] # 0

(***************************************************************************)
(* The same of checkpoints that cut, switch and prune at any other moment  *)
(* of a drop than between the scan and the merge of its listing.           *)
(***************************************************************************)
DropsEmpty == overtaken \/ NoOrphans

(***************************************************************************)
(* Seen through its log, the engine is a store that serves one request     *)
(* after the other: each takes effect when its record is durable, on       *)
(* classes and objects that are then as it needs them, and neither a       *)
(* checkpoint nor a restart has any effect; until a drop is overtaken.     *)
(***************************************************************************)
Store == INSTANCE ObjectStore WITH content <- Committed, version <- nextTx

ImplementsStore ==
    Store!Init /\ [][Store!Next \/ overtaken]_<<Committed, nextTx>>
=============================================================================
