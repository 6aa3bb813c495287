# ZadoDB in TLA+

This directory models ZadoDB: its storage engine (`src/internal/storage`) with the
write-ahead log and its sequencer, checkpoints, recovery, the mapped snapshots
readers share, and the engine that puts them together for requests; and the
server around it (`src/internal/server`) with the HTTP API, and how it runs and
stops. The modules are checked with TLC on small instances, and their invariants,
with the two refinements of an abstract specification, are proved with TLAPS for
instances of any size.

## 1. Inventory

| Component | Source | State | Operations | Interacts with |
|---|---|---|---|---|
| Sequencer | `wal/sequencer.go`, `wal/fsyncmode.go` | channels `reqs`, `rot`, `done`; `nextTx`; writer `w` | `Submit`, `Rotate`, `Close`; goroutine `run` | called by Engine (any goroutine) and by checkpoint |
| Log files | `wal/writer.go`, `reader.go`, `record.go` | `wal.log`, `wal.applying.log` | `Append`, `Sync`, `Next`; entry and key encoding | written by the sequencer, read by checkpoint and recovery |
| Checkpoint | `checkpoint/checkpoint.go`, `layout/layout.go` | `data.<g>`, `CURRENT` | `Run`, `BuildGeneration`, merge, cleanup | rotates the sequencer, swaps the snapshot |
| Recovery | `recovery/recovery.go` | the directory | `Recover`, `initFresh`, `replayWAL`, `truncateWAL` | reuses `BuildGeneration`; feeds Engine |
| Snapshots | `mvcc/snapshot.go` | `current`, `refs`, `retired` | `Acquire`, `Release`, `SwapTo`, `Close` | readers, checkpoint, shutdown |
| Id generator | `idgen/idgen.go` | `counters` | `Next`, `Observe`, `Drop` | Engine, recovery |
| Engine | `engine.go` | `overlay`, `classes`, locks `mu`, `ckMu` | classes, objects, bulk, queries, `Checkpoint`, `Open`, `Close` | all of the above |
| B+tree, pages | `btree/*`, `page/*` | pages of a generation | insert, delete, bulk build, scan | checkpoint, snapshots |
| HTTP server | `server/http/*` | none of its own | one handler per route, filters, `ListenAndServe`, `Shutdown` | Engine, daemon |
| Daemon and commands | `server/daemon`, `cmd` | `ctx`, `errCh` | `RunForeground`, `Execute`; installation | HTTP server, Engine |
| Config, test tools | `server/config`, `testutil` | none | | |

Hard behaviours: a write is a chain of steps under different locks (channel,
file, fsync, overlay) that interleaves with other writes, with readers and with
a checkpoint; a crash or an I/O error may hit between any two of the
checkpoint's file operations and boot has to make sense of what is left; readers
leave and enter a mapping without locks while it is being retired; `Close` races
with everything, and waits for goroutines that wait for others. The list of hazards, each with its line and the properties that
watch it, is in `PROJECT.json`.

What makes each part correct:

- durable core (sequencer, log, checkpoint, recovery): an acknowledged write
  survives every crash; TxIDs are not reused; the log is never dropped before
  its records are in the generation in force; a checkpoint and a boot change no
  content; a boot comes up.
- sequencer: answers tell what became of the write, TxIDs follow file order and
  real time, every caller is answered.
- snapshots: the count is that of the readers, the current mapping is mapped, a
  retired one goes when, and only when, its last reader is gone.
- B+tree: every root is the map it was built to be, for as long as its file is
  read; lookups, prefix scans and the decoding of keys agree with that map; a
  merged generation is the old one overridden by the log, without unused pages.
- engine: reads return what is durable; a write still fits the objects it was
  checked against when it is logged; the class set is that of the log; a dropped
  class leaves nothing behind.
- server: what requests and checkpoints use is closed after them; a stop ends,
  every request is answered, every write comes to a generation.
- HTTP API: a listing has what its filters say, on the page asked for; a client
  that pages beside creates misses nothing; refused requests change nothing.

## 2. Modules

| Module | What it is |
|---|---|
| `Log` | log files, generations, replay of a log over a generation |
| `DurableMap` | abstract specification of the durable core |
| `Storage` | sequencer's file operations, checkpoint, recovery, crashes; implements `DurableMap` |
| `Sequencer` | the channels and goroutines around the run loop |
| `Snapshot` | `MappedFile` and its readers, one atomic operation per step |
| `Service` | host, `RunForeground`, listener, requests, checkpoint loop and `Close`, composed with `Snapshot` |
| `ObjectStore` | abstract specification of the engine: a map that each request changes in one step |
| `Engine` | requests, overlay, class set, ids, over an atomic durable core; implements `ObjectStore` |
| `Http` | routes, filters and pages, with creates step by step, over otherwise atomic operations of the engine |
| `Keys` | encoding, order and prefixes of the tree's keys |
| `BTree` | the copy-on-write tree in its pages, the bulk builder, the merge |
| `StorageProofs`, `SequencerProofs`, `SnapshotProofs`, `ServiceProofs`, `EngineProofs`, `HttpProofs`, `KeysProofs`, `BTreeProofs` | lemmas and theorems |
| `MCStorage`, `MCSequencer`, `MCSnapshot`, `MCService`, `MCEngine`, `MCBTree`, `MCHttp` | instances for TLC |

Definitions marked `Mutant:` are variants of the action that follows them, with
a bug the code could have. They are in no next-state relation; each shows that
a property would notice the bug when it takes the action's place.

### Log, Storage, DurableMap

A record is its TxID and the set of keys it writes. A database is abstracted to
the TxID of the record that governs each key (0: none): the value a reader sees,
or its absence, is a function of that record. A log file is what a `wal.Reader`
returns before it stops, plus a flag saying that unreadable bytes follow. The
flag is set by a short write, or by a power loss that tears the last record;
behind such bytes appended records are never read, until `truncateWAL` removes
them.

`Storage` has the directory (`current`, `gens`, `wal`, `retired`), what a power
loss spares of it (`synced`, `dirent`), and the process (`mode`, the step of the
boot; `ck`, the step of `checkpoint.Run`; `batch`, the appended records whose
callers wait). One action is one file operation of the code together with the
assignments that go with it: `RotateRename` and `RotateOpen` are `doRotate`,
`Publish` and `SwitchCurrent` are `BuildGeneration`, `Swap`, `RemoveRetired` and
`Cleanup` are the rest of `Run`; `Boot`, `InitData`, `InitCurrent`, `Purge`,
`FoldRetired`, `SwitchRecovered`, `DropRetired`, `Replay` are `Recover`. The
`...Fails` actions are the error paths. `Kill` ends the process and leaves the
files; `PowerLoss` keeps any prefix of the log that covers what was fsynced,
with a torn record behind it or not. `Faults` names the errors that may occur:

| fault | effect | acknowledged writes |
|---|---|---|
| `append`, `sync` | the batch gets an error | survive |
| `rename`, `open` | the rotation errs, the writer may be left closed | survive |
| `swap`, `remove` | readers stay on the old generation, a file stays | survive |
| `build`, `switch` | the checkpoint errs after its rotation | lost, see findings |
| `shortWrite` | garbage in the middle of the log | lost: what follows it is not replayed |
| `dirent` | power loss undoes the rename or the creation of `wal.log` | lost: the directory is fsynced only later |
| `initCrash` | a crash inside `initFresh` | none yet; boots are refused |

`Survivable` says that none of `build`, `switch`, `shortWrite`, `dirent` is
among them. It is the hypothesis of the theorems, and the safety run takes all
the others but `initCrash`. To see how a write is lost under `shortWrite` or
`dirent`, check `AckedSurvive` with `Faults = {"shortWrite"}` (`MaxTx = 3`) or
`{"dirent"}`.

`DurableMap` is what a client may rely on: a map, records pending, a flush that
commits all of them, a crash that commits a prefix. `Storage` implements it with
`committed <- Committed` (the retired log folded over the current generation,
then the fsynced prefix of the log) and `pending <- Pending` (the rest of the
log). Checkpoints and boots are stuttering steps under this mapping.

### Sequencer

Requests are pairs of a caller and a number. `Submit` is `Begin`, `Send` (the
channel has room, or `done` is closed), `Peek` (the select with a default) and
`Await` (the answer or `done`, whichever the select takes). `run` is `Take`,
`Collect`, `Commit` (the loop that appends, and the fsync: an error leaves any
prefix of the batch in the file), `Deliver` (one send per step), `Stop` and
`Drain`. `Rotate` is offered and taken, or given up; `doRotate` moves the log
away or errs (its file operations are in `Storage`).

### Snapshot

`Acquire` is `Load`, `Count`, `Check`; `Release` is `Drop` (the atomic decrement)
and, by the reader that reached zero, `LastOut` (the load of `retired` and the
unmap); `SwapTo` is `Install`, `Retire`, `Test`; `Close` is `CloseTake`,
`CloseUnmap`. With `GraceExpires` requests may be in progress when the mapping is
closed. A `Load` of nil after `Close` ends the request. The local variables of a
call are reset when it returns.

### Service

`Service` says who makes these calls, and when. `RunForeground` waits for `ctx`
(`SeeCancel`) or for the listener's error (`SeeError`), shuts the HTTP server down
(`ShutdownReturns`: no request is left, or the 10 s are over), and closes the
engine: `stopCh`, the loop, the sequencer, the mapping (`CloseEngine`, one step for
each wait). The host is a process that a signal stops or a Windows service:
both cancel once, wait and end. A listener whose address is refused, or whose
`Accept` errs, ends the server too; in the latter case, as after an expired grace
period, requests outlive it (`late`). A request reads (`Acquire` to `Release`),
submits, publishes into the overlay, or asks for the statistics, which wait for
`ckMu`. The checkpoint loop is `Tick`, the rotation, `SwapTo` in the three steps of
`Snapshot`, and `Prune`; a rotation or a switch may err, which leaves the loop with
`ckMu` free. What an erring rotation leaves of the log is `writer`: after a `Sync`
that errs, or an open that errs and is undone, it is as it was; after a `Close`, a
`Rename`, or an undoing that errs its file is closed (`sequencer.go:126-149`). Then
every submit gets an error, and every further checkpoint does nothing but err, until
a restart. Writes are TxIDs: `tx` assigned, up to `cut` rotated away, those in
`overlay` not yet pruned. The module extends `Snapshot`, and its step is a step
of `Snapshot` or leaves its variables alone.

### Engine, ObjectStore

The durable core is taken as `Storage` shows it to be: `Submit` appends a record
and gets its TxID in one step, a checkpoint cuts the log (`Rotate`), folds the
cut into the generation readers are switched to (`BuildAndSwap`), and prunes the
overlay (`Prune`). A stored value is the TxID of its record. Each request is a
record in `client`, with the step it is at and its local variables; a step is
what the code does under one hold of `Engine.mu`, of the id generator's lock, or
between two of them. `Restart` is a crash and the next `Open`. `seen` is history:
the values a read may return, because they were current at some moment of it.

`Alone` states what clients do not do at the same time. With `classes`, a
request that creates or drops a class is alone in writing to it; with `objects`,
requests in progress write different objects, and updates are of ids already
assigned. The two are there because the code does not serialise these requests
(hazards `engine.go:268`, `312`, `325`, `400`, finding 4); with them the properties of
`engine_serial` hold, without them they do not: with `Alone = {}`, `NoOrphans` already
fails by a create that stores between a drop's test and its submit. Nothing restricts
the checkpoints: they cut, switch and prune at any step of any request. The one moment
that breaks what a client relies on is a prune between the scan and the merge of a
drop's listing (finding 5); `overtaken` remembers that this has happened, and
`DropsEmpty`, `WritesFit` and `ImplementsStore` speak of behaviours until then.

`ObjectStore` is what a client sees: the version of every class and object, and a
counter of versions. A request is one step that tests what it needs (a class is
created where there is none, dropped when it is empty; objects are created under
free ids of a class that exists; puts and deletes are of objects that exist) and
changes the map. `Engine` implements it with `content <- Committed` (the log over
the generation) and `version <- nextTx`: the step is `Submit`, and that its tests,
made some steps earlier, still hold there is what `WritesFit` and `DropsEmpty` are
for. Everything else stutters. That gets return what is in this map is
`GetsFresh`, for reads do not change it.

### Http

A create takes its ids one by one (`TakeId`), and is stored some steps later
(`StoreCreated`: log and overlay, all its objects at once), beside any other request
and other creates; so a higher id may be visible before a lower one. The other
operations of the engine are one step each here; their steps, and how they interleave,
are in `Engine` and `Service`. An object is a function from fields
to values, a value its type and the characters `fieldString` gives it.
`likeToRegex` is the sequence of atoms of the regexp it compiles; what Go's
`MatchString` does with them is `Advance`, the set of atoms reached after each
character (`Behind`). Case is that of ASCII letters. The property `ListsExact` does not use
these: it says LIKE as cutting the text into pieces. `pager` is a client that lists
a class page by page at the offset of what it has, until a page is short; it is
followed as long as others do nothing but create in that class, and across
checkpoints and restarts. `logged` is the highest id of a put that the log holds, of
each class: a checkpoint empties it, a restart counts on from the highest of it and of
the objects stored, also for a class dropped since (`recovery.go:202-205`; nothing
drops the counter when the drop is replayed). `raced` remembers that a class was
dropped under a create that had an id in it: its counter starts again, the id is handed
out twice, and one create may replace the object of the other. That is the hazard
`engine.go:325`, which no line of the repository excludes; `PagesComplete` gives up
then. What `PagesComplete` does not say is that nothing is met twice: a create that
took its id before others and is published after them moves what follows it one
place on. Requests that are refused change nothing: they are the guards. Status
codes, headers and the routes that only read are left out.

### Keys, BTree

A file is a sequence of pages, for ids are given out one by one and pages written
in that order; a page is the node its body decodes to. A node that does not fit
is cut off by `encodeTo` and becomes `Damaged`, as does a page that was never
written. `Insert` and `Delete` are `Tree.Insert` and `Tree.Delete` as functions of
the file and the root; `InsertFails` is an insert one of whose page writes errs:
the pages before it stay, the root does not change. `Rebuild` is a checkpoint's
`mergeBuild`: the scan of this tree and the sorted changes of a log, merged and
added to a `Builder` over a new file. A value longer than `MaxInline` is a chain of
overflow pages, whose parts are numbered so that a wrong or incomplete chain is
told from the right one. What descends in the code is a recursive function over
page ids here (`Path`, `Walk`, `Nodes`), for children are older than their parents;
`InsertUp` and `Removed` go up such a path. Sizes are computed by the code's
formulas, with a page body of 54 bytes, keys of 2 to 7 bytes and ids of 2.
`SizeAssumption` says that one entry, or one child with its separator, fits a page:
names have at most 128 bytes (`engine.go:585`) and values in a leaf at most 512
(`node.go:15`), of pages of 4 KB. `content` and `captured` are
history: what the tree, and every root it has had, should hold. `ops` and `builds`
bound the behaviours. In the program only the merge writes generations; `Insert` and
`Delete` are called by `apply` and the tests.

`Keys` has the byte sequences themselves, because the properties are about them:
`Base = 4` makes 3 the highest byte. A class of the default project and a project
have the same name, so that the prefix of the one covers the keys of the other.

## 3. Runs

| Run | Bounds | Shows |
|---|---|---|
| `storage_safety` | 2 keys, 3 TxIDs, generations 0..3, batches of 2 | no acknowledged write lost, TxIDs fresh, the inductive invariant, `DurableMap` implemented |
| `storage_any_fault` | 1 key, 2 TxIDs, all faults but `initCrash`, fairness | order of logs, generations in use untouched, boots and checkpoints end |
| `service_shutdown` | 2 requests at a time, 2 swaps, 1 write, 1 erring checkpoint, expiring grace period, fairness | counting, current mapped, no leak, closed last; stop and requests end, retired mappings go, writes are folded |
| `engine_serial` | 2 clients, 1 class, 2 ids, 4 TxIDs, any number of restarts | reads current, writes fit, class set, drops leave nothing, `ObjectStore` implemented |
| `http_api` | 1 class, an invalid project and name, 3 bodies and a malformed one, 16 listings, 2 creates at a time, 2 ids, bulks of 0 to 3, any number of checkpoints and restarts | listings exact, paging misses nothing |
| `sequencer_answers` | 2 callers, 3 calls, 1 rotation, channel of 1, batches of 2, errors, fairness | answers true, order, all calls return |
| `btree_map` | 8 objects, 2 classes, 2 sizes of values, 2 inserts or deletes, 2 merges | the tree is its map in every snapshot, generations fit their pages and are compact |
| `storage_failed_build`, `storage_init_crash`, `snapshot_in_use`, `engine_overlay`, `engine_drop` | small | a counterexample each, section 6 |

Why the bounds are enough to be interesting. Three TxIDs and four generations
let a write be folded, a second one be in the retired log of an interrupted
checkpoint, and a third be in the live log when the crash comes; two keys give
batches that overlap in one of them. `MaxGen` leaves the recovery after an
interrupted checkpoint a generation to fold into, and `MayCrash` bounds crashes
accordingly. In `service_shutdown`, two readers and two swaps give a reader that loaded a snapshot two
generations ago; a write may be published before or after the checkpoint that
folded it prunes, a second checkpoint takes the latter, and either may err. Four TxIDs in `engine_serial` are a class, an object created, updated and
deleted, around a checkpoint and a restart; two ids allow a bulk create. A
channel of one and batches of two make the channel, and the batch, full.
`btree_map` loads three leaves under a full parent: one insert splits a leaf, the
parent and the root; the second one, a delete, a failed write or another merge
works on the result. The bounds on its operations end its behaviours.
`http_api`: two ids are two pages of one object; two creates take them in one order
and become visible in the other, before, between or after the pages; a checkpoint
between a delete and a restart lets an id come back. The bodies have the fields, cases,
newlines and nulls the listings tell apart; a bulk of two takes both ids, one of three
is one too many.

Two configurations are not runs: `MCBTree_Split.cfg` and `MCEngine_Query.cfg` show what
section 6 says of `NodesFit` and `QueriesFresh`.

`sequencer_answers`, `snapshot_in_use` and `service_shutdown` do not check for deadlock: the system
stops there after `Close`, and so do the bounded calls.

Fairness. `storage_any_fault`: the boot goes on (`WF(Recover)`), a checkpoint
that has started goes on; these
are single goroutines without waits between the steps. `BootCompletes` only
speaks of behaviours in which crashes stop. `service_shutdown`: `RunForeground`
with its host, each request that was taken on, and the checkpoint loop, to which
its ticker sends, go on while they can; `Release` follows each read. The
client need not ask, the host need not stop, the listener need not fail.
`WritesFolded` gives up on a server that stops, on one whose log was closed by an
erring rotation, and at the bound on generations.
`sequencer_answers`: callers and the run goroutine go on when they can, and the
batch's timer fires. `Send` and `run`'s select could be passed over for ever
under weak fairness alone only if calls never stopped coming; the calls of the
run are bounded, and Go's channels are FIFO and its select random. Nothing is
assumed to start: no client has to write, no checkpoint to begin.

## 4. Proofs

`StorageProofs` proves, for any set of keys, any bounds and any `Faults` with
`Survivable`, that `StorageInv` is an invariant of `Spec` and from it
`TypeOK`, `AckedSurvive`, `LogOrdered`, `BootServesAcked` and `FreshTx`.

`AckedSurvive` alone is not inductive. That a rotation overwrites only a retired
log already folded needs to know when it may still hold records
(`RetiredShape`); that a replay hides nothing needs the order of TxIDs over the
two logs and the generation (`LogOrdered`), which in turn needs the sequencer
beyond all of them (`TxShape`), and boots that find the files they expect
(`FilesShape`, `ProcessShape`). There is one lemma per action. Actions that leave
the content alone (`SameContent`) keep `AckedSurvive` at once; `SyncBatch` and
`PowerLoss` extend the durable prefix (`RebuiltGrows`), which can only raise the
governing TxID of a key in an increasing log; the switch of `CURRENT` replaces
base and retired log by their fold, and a log folded twice is a log folded once
(`FoldFolded`, the idempotence recovery relies on). The module begins with these
facts about replay, for every log.

From the same invariant, and under the same faults, it proves that `Storage` implements `DurableMap` (`StorageImplementsMap`), and the action
properties `RetiredOnlyDroppedFolded`, `GenerationsImmutable` (which
`storage_any_fault` also checks under faults that lose writes) and
`MaintenanceKeepsContent`, which no run checks, for `ImplementsMap` does all of it
that matters: by that one, a checkpoint step could at most make a pending write durable. The refinement rests on one fact of replay: over a log that lies
above its base, replay may stop after any record and go on over what it has
(`ReplayedSplit`). So what a boot would rebuild from a longer prefix of the log
is the map after as many pending records, whether an fsync, a rotation or a power
loss made that prefix the durable one; everything else leaves the content alone.

`SequencerProofs` proves, for any number of callers and calls, any capacity and
batch, any rotations and errors, `FileOrdered`, `RealTimeOrder` and `AnswersTrue`.
None is inductive. What makes them so is where a request can be (`QueueShape`):
not sent, in the channel, in the batch, or past its commit; in one place, once,
and until the commit without a TxID and without an answer. So what is in the log,
which has a TxID, is not in a batch about to be numbered, and its order stays
(`LogShape`); the numbers of a batch are past the counter, which no acknowledged
TxID exceeds (`FloorShape`); and what is refused as closed while the channel is
drained was never numbered (`AnswerShape`).

`SnapshotProofs` proves, for any finite set of readers and any number of swaps,
that refs counts the readers (`RefsCounted`), that the current snapshot is mapped
(`CurrentMapped`) and that no retired mapping is forgotten (`NoLeak`). Besides the
counting, the invariant needs that snapshots are numbered in the order they are
opened (`Numbered`): a snapshot that is gone is never current again.

`ServiceProofs` proves, for any finite set of requests, any number of writes,
checkpoints and errors, that the running server implements `Snapshot`
(`ServiceImplementsSnapshot`: each of its steps is a step of `Snapshot` or leaves
it alone), so that the theorems above hold of it, and that log and mapping are
closed last (`ShutdownClosesLast`). The latter needs what each step of `main`
implies: `stopCh` closed before the loop is waited for and the loop gone after it;
no request arriving once the listener is closed and the shutdown over, unless
they are late; and that only `CloseTake` makes the current mapping nil.

`TypeCorrect` of both modules proves their types. In `Service` that says that the
bounds are kept, too: a write gets its TxID some steps after its request was let
in, so the invariant counts the requests that may still submit (`Reserved`).

`EngineProofs` proves, for any classes, ids, clients, TxIDs and restarts, the
properties of `engine_serial`. `TypeCorrect` holds of any clients. The others have
a hypothesis about them, one the code needs as well: `Serial` (class requests are
alone in their class, requests in progress write different objects). Without it,
`engine_overlay` shows `OverlayCurrent` violated. What clients do at different times is
not restricted, nor is when checkpoints run; `DropsLeaveNoOrphans`,
`WritesFitWhenLogged` and `EngineImplementsStore` speak of behaviours until a prune falls
between the scan and the merge of a drop (`overtaken`), for after that they do not hold
(finding 5).

None of the invariants is inductive. `EngineInv` says where the record of a key
can be between its log and its readers: a record of the log is in the overlay,
itself or a later one, or its request is about to put it there; an overlay entry
that is not yet folded is in the log; one that is folded agrees with the
generation, unless a request is about to replace it (`OverlaysOK`). So an entry
that a checkpoint prunes is in the generation it has switched to, and an entry it
leaves is not. A request between its submit and its overlay entry is alone with
its keys (`AloneOK`), so that nothing later can be hidden by it (`PendingOK`). A get that
has looked into the overlay, but not yet into the snapshot, may find any
generation in force until then, so `ReadOK` says of every value a switch to come
could show it that it was current while the get ran. `OrderlyInv` adds that the
generator is past every object and every id in progress, and that a request which
has passed its test is still allowed (`FitOK`); `Assign` and `Submit` cannot be
told apart from outside without it. The refinement needs one fact about logs, that
a record appended with a TxID above all others governs exactly its keys, and one about
checkpoints, that the fold of the cut changes no content.

`HttpProofs` proves, for any projects, names, bodies, listings and any number of
creates at a time, the properties of `http_api`. What a client that pages relies on is
that nothing it has passed is replaced or taken away, and that needs the ids
(`IdsAreNew`): an id that a create holds is on no object, no two creates hold the same,
and all are at most the counter, also after a restart, whose creates are gone. That
holds until a class is dropped under a create with an id (`raced`). The invariant of the
pager (`PagerOK`) does not speak of the listing as it was, which changes in any place:
it says that an object of the start which the client has not got has at least as many
matching ones before it as the client has got, so that it lies at or behind the next
offset. Objects that become visible only raise that number, a page that passes the
object has it, and behind a short page there is nothing. `ListingsAreExact` needs that the regexp of a LIKE
pattern matches the texts that can be cut into pieces for it (`MatchIsLike`), for
texts and patterns of any length. That is an induction over both, and the
library's induction theorems cannot be used here; the proof takes a first
character, and there a first atom, at which the two disagree (`Least`), and shows
that both follow in the same way from what they were before (`BehindFollows`,
`BegunIs`). The same argument makes `Behind` the function its recursion describes
(`RunExists`), and `Sorted` a sequence that exists (`SortedExists`). Projects and names are
finite sets there, for the sake of the bound on ids only.

`KeysProofs` proves, for every base, every number of id bytes and all names without
the separator, that keys are told apart and decode to what they were made of
(`ClassKeysDecode`, `ObjectKeysDecode`), that the objects of a class are in the order
of their ids (`ObjectKeysInOrder`), and that `prefixUpper` bounds exactly the keys that
have the prefix, or is empty where there is no bound (`PrefixRange`); and that the
order of keys is total.

`BTreeProofs` proves the properties of `btree_map` for any objects, values, logs and
sizes. The properties speak of what a lookup or a scan finds, which is not inductive,
for an operation changes what a node far up in the tree leads to. The invariant
(`Inv`) gives every page of the file a record of its own: the map its subtree should
hold, and the marks, the keys that occur in it (`FileHolds`). A leaf's entries are
those of its map, in order, each with its value inline or in a chain of older pages; a
node's children are older pages, and the separators share its map and its marks among
them. The marks are needed because a separator may outlive its key: only by them does
the separator a split moves up lie between its neighbours. And the records are of
damaged pages, too. A tree one of whose pages was cut off goes on being used, and the
other pages, and older roots, are as good as before; the record says what the lost
page should have had. `Keeps` adds that the tree's map and every captured root's are
those of their records.

Since an operation only adds pages, it is enough that the records of the new ones
agree (`Extends`): of a leaf with an entry more or less, of the two halves of a split,
of a node with a new child or two, up the path (`ClimbsUp`, `RemovedHolds`), and of a
prefix of them when a write fails (`CutHolds`). For the builder, the leaves written and
the leaf being filled hold, side by side, what was added so far (`Leafing`), and so do
the parents of one level and those still to come (`Raising`). A lookup in a tree whose
pages are all there finds what its root's record has (`GetIs`), a scan shows it
(`ScanShows`), and the two streams of the merge stay sorted and disjoint of what was
put out (`MergesTo`). Recursions over pages, entries and steps are proved by their least
counterexample, as in `HttpProofs`.

The theorems differ in what they ask of the pages. `RootsReadBack` asks that no page
of the captured root's own tree was cut off, and nothing of others. `ReadsAgreeWithContent`,
`MergesOverride` and `KeysIdentifyObjects` ask it of the current root's tree, and
`RootsKeepTheirContent` of all captured ones (`NodesFit`). That they fit is not an
invariant of `Spec` (section 6): an insert can violate it. It does hold of what the
program does: whatever was done to the file before, the builder cuts off no page of the
next one (`GenerationsFit`, which proves `BuildsFit`), so that in a program that only builds generations, as the
server does, no tree has a damaged page and every root keeps its content
(`CheckpointsFit`).

That a generation has nothing but its tree (`GenerationsCompact`) is proved along the
builder as well. Of the pages written so far, each is held by a later one, as a node's
child or in the chain of a leaf's entry, or else the builder has it still in hand
(`Covered`): it is a node of the level being built, or in the chain of an entry the
next leaf will have. A flush passes what it had in hand to the page it writes
(`NodeCovers`, `AddEntryCovers`, `AddChildCovers`), and at the end only the root is
left. A page the root did not reach would be held by a later one that it does, if the
last such page is taken (`CoveredIsReached`).

Left to TLC: liveness, that is `BootCompletes`, `CheckpointReturns`, `StopReturns`,
`RequestsEnd`, `WritesFolded` and `CallsReturn`, which need fairness. `QueriesFresh` is
not proved for it does not hold (finding 5). Every other property of a passing run is
stated by a theorem.

## 5. Not modelled

The bytes of records and pages: framing, CRC, msgpack. In `Storage` and `Engine` a
generation is the content its tree holds; how a tree holds it is in `BTree`. Configuration (`config.Load` reads a file
once; a path that does not exist gives the defaults), service installation, flag
parsing, the routes that only read, status codes, Unicode case. A body `null` is
accepted by `jsonToStored`; what msgpack reads back for it is a library's doing, and
the bodies of `Http` are objects. In `Engine`, writes and
checkpoints that err are left to `Storage` and `Sequencer`; there a write that
errs may still be in the log. An fsync that succeeds after one that failed is
taken to cover all that was written. Windows' file semantics (no rename over an
open file, no fsync of directories) are not modelled.

## 6. Findings

1. `storage_failed_build`. A checkpoint errs after its rotation (disk full while
   the generation is built). The engine goes on; the next checkpoint renames
   `wal.log` over `wal.applying.log`, which no generation has. Acknowledged
   writes are lost (`checkpoint.go:48`, `sequencer.go:134`).
2. `storage_init_crash`. A crash after `page.Create` and before `WriteCurrent` in
   `initFresh`: `data.0` exists, `CURRENT` does not, the exclusive create errs at
   every later boot (`recovery.go:142`).
3. `snapshot_in_use`. Reader 1 decrements to zero; reader 2 acquires and checks
   the same snapshot; `SwapTo` retires it, sees a reference and leaves it; reader
   1 now loads `retired` and unmaps (`snapshot.go:95`).
4. `engine_overlay`. Two puts of one object are given TxIDs in one order and
   reach the overlay in the other (`engine.go:203`).
5. `engine_drop`. Scan, checkpoint, merge: an object is in neither
   (`engine.go:446`). `DropClass` asks this listing whether a class is empty
   (`engine.go:312`), and drops one that is not, though nobody else writes in it: the
   checkpoint is all it takes (the restart in TLC's trace is just the shortest way to a
   class). A listing that a client asks for misses the object just
   so (`QueriesFresh`, with `MCEngine_Query.cfg`).

Three more disagreements have no run. `split.go:16` says that splitting an over-full
leaf in half "always yields two halves that fit within a page". It is split by the
number of its entries: with five long values in front of six short ones and a long one
more, the half that gets the long ones is larger than a page, and `encodeTo` cuts it
off without an error (`split.go:19`, `encode.go:41`). Check `MCBTree` with
`MCBTree_Split.cfg` to see `NodesFit` violated so by one insert. No code but the tests
inserts into a tree: the server only builds, and what it builds fits (`GenerationsFit`).
`sequencer.go:88` says that "a durably-committed write is never misreported as closed
during shutdown": the last select of `Submit` takes `done` though the answer is there (`sequencer.go:99`). Check `NeverMisreported`
of `Sequencer` in `MCSequencer_Live.cfg` to see it. `idgen.go:31` says that "ids are
never reused after a restart": an object deleted with the highest id, a checkpoint
and a restart, and the next create has that id again, for nothing of the deleted
object is left to observe (`recovery.go:168`). `Restart` of `Engine` and `Http`
does so; `WritesFit` and `PagesComplete` hold nevertheless.

## 7. Plan

Done, in this order: durable core, its proofs, refinement included, snapshots, their
proofs, engine, sequencer and its proofs, B+tree, the running server and its
proofs, HTTP API, the engine's abstract specification, the proofs of engine and
HTTP API, keys and B+tree without recursive operators, and their proofs. Next:

1. Key updates that are not alone: the put that resurrects, the id counter
   dropped under a create, as behaviours of `Engine` with the restrictions on
   clients taken away one at a time.
2. Failing submits in `Engine`: a write that errs may be in the log, and come back
   with the next restart.
3. `BTree`: the scan that its callback stops, and the tree under a crash between two
   pages, with the meta page.
