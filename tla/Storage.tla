------------------------------ MODULE Storage ------------------------------
(***************************************************************************)
(* The durable core of the engine: the sequencer that appends records to   *)
(* wal.log and fsyncs them in batches, the checkpoint that rotates the log *)
(* and folds it into the next data generation, and the recovery that       *)
(* rebuilds a consistent state at boot, under process kills, power loss    *)
(* and I/O errors at every step.                                           *)
(***************************************************************************)
EXTENDS Log, Integers, FiniteSets

CONSTANTS
    MaxTx,      \* bound: TxIDs assigned in a behaviour
    MaxGen,     \* bound: the highest data generation
    MaxBatch,   \* FsyncMode.MaxBatch; 1 is FsyncPerCommit
    Faults      \* the I/O errors and crashes that may occur

FaultKinds ==
    {"append",      \* Append errs having written nothing
     "shortWrite",  \* Append errs having written part of the record
     "sync",        \* fsync of the log errs
     "rename",      \* Rotate: close or rename errs
     "open",        \* Rotate: OpenWriter errs
     "build",       \* BuildGeneration errs before CURRENT is written
     "switch",      \* WriteCurrent errs
     "swap",        \* SwapTo errs
     "remove",      \* a removal whose error the code ignores
     "dirent",      \* power loss undoes directory changes not yet fsynced
     "initCrash"}   \* a crash inside initFresh

ASSUME StorageAssumption ==
    /\ MaxTx \in Nat /\ MaxGen \in Nat
    /\ MaxBatch \in Nat \ {0}
    /\ Faults \subseteq FaultKinds

VARIABLES
    \* the directory, as the kernel shows it: it survives a kill
    current,    \* CURRENT, -1 when the file does not exist
    gens,       \* data.<g>
    wal,        \* wal.log
    retired,    \* wal.applying.log
    \* what a power loss spares of it
    synced,     \* number of records of wal known to be fsynced
    dirent,     \* directory changes around wal.log not yet fsynced
    \* the process
    mode,       \* boot step, or "up"
    ck,         \* step of checkpoint.Run, or "idle"
    nextTx,     \* Sequencer.nextTx
    batch,      \* records appended whose callers wait for the fsync
    writerOpen, \* Sequencer.w holds an open file
    mapped,     \* generation behind MappedFile.current, -1 when none
    \* history
    acked       \* records whose Submit returned without error

disk == <<current, gens, wal, retired, synced, dirent>>
process == <<mode, ck, nextTx, batch, writerOpen, mapped>>
vars == <<disk, process, acked>>

Modes == {"down", "refused", "initData", "initCurrent", "purge", "fold",
          "switch", "drop", "replay", "up"}
Steps == {"idle", "reopen", "build", "switch", "swap", "remove", "cleanup"}

TypeOK ==
    /\ current \in -1 .. MaxGen
    /\ gens \in [0 .. MaxGen -> Generation]
    /\ wal \in LogFile /\ retired \in LogFile
    /\ synced \in 0 .. Len(wal.recs)
    /\ dirent \in {"synced", "created", "renamed"}
    /\ mode \in Modes
    /\ ck \in Steps
    /\ nextTx \in Nat
    /\ batch \subseteq Record
    /\ writerOpen \in BOOLEAN
    /\ mapped \in -1 .. MaxGen
    /\ acked \subseteq Record

(***************************************************************************)
(* A directory that has never been opened, and no process.                 *)
(***************************************************************************)
Init ==
    /\ current = -1
    /\ gens = [g \in 0 .. MaxGen |-> NoGeneration]
    /\ wal = NoLog /\ retired = NoLog
    /\ synced = 0 /\ dirent = "synced"
    /\ mode = "down" /\ ck = "idle"
    /\ nextTx = 0 /\ batch = {} /\ writerOpen = FALSE /\ mapped = -1
    /\ acked = {}

Base == IF current = -1 THEN NoGeneration ELSE gens[current]

-----------------------------------------------------------------------------
(***************************************************************************)
(* Sequencer.run.  It serves a rotation only between two batches.          *)
(***************************************************************************)

(***************************************************************************)
(* One request of the batch: a TxID is taken and the record appended.      *)
(***************************************************************************)
AppendRecord(K) ==
    /\ mode = "up" /\ ck # "reopen" /\ writerOpen
    /\ Cardinality(batch) < MaxBatch
    /\ nextTx < MaxTx
    /\ LET r == [tx |-> nextTx + 1, keys |-> K]
       IN  /\ wal' = Appended(wal, r)
           /\ batch' = batch \union {r}
    /\ nextTx' = nextTx + 1
    /\ UNCHANGED <<current, gens, retired, synced, dirent, mode, ck,
                   writerOpen, mapped, acked>>

(***************************************************************************)
(* Append errs: the requests of the batch still to come take a TxID but    *)
(* are not appended, nothing is fsynced, every caller gets the error.  On  *)
(* a closed file every Append errs.                                        *)
(***************************************************************************)
AppendFails(n) ==
    /\ mode = "up" /\ ck # "reopen"
    /\ Cardinality(batch) + n <= MaxBatch
    /\ nextTx + n <= MaxTx
    /\ \/ (writerOpen => "append" \in Faults) /\ UNCHANGED wal
       \/ writerOpen /\ "shortWrite" \in Faults
          /\ wal' = [wal EXCEPT !.junk = TRUE]
    /\ nextTx' = nextTx + n
    /\ batch' = {}
    /\ UNCHANGED <<current, gens, retired, synced, dirent, mode, ck,
                   writerOpen, mapped, acked>>

\* Mutant: the callers are answered before the fsync.
AckBeforeSync ==
    /\ mode = "up" /\ batch # {} /\ writerOpen
    /\ acked' = acked \union batch
    /\ batch' = {}
    /\ UNCHANGED <<disk, mode, ck, nextTx, writerOpen, mapped>>

(***************************************************************************)
(* The fsync makes the whole batch durable and its callers return.         *)
(***************************************************************************)
SyncBatch ==
    /\ mode = "up" /\ batch # {} /\ writerOpen
    /\ synced' = Len(wal.recs)
    /\ acked' = acked \union batch
    /\ batch' = {}
    /\ UNCHANGED <<current, gens, wal, retired, dirent, mode, ck, nextTx,
                   writerOpen, mapped>>

SyncFails ==
    /\ mode = "up" /\ batch # {} /\ "sync" \in Faults
    /\ batch' = {}
    /\ UNCHANGED <<disk, mode, ck, nextTx, writerOpen, mapped, acked>>

-----------------------------------------------------------------------------
(***************************************************************************)
(* checkpoint.Run, serialized by Engine.ckMu.  A step that errs makes Run  *)
(* return: ck is "idle" again.                                             *)
(***************************************************************************)

\* Mutant: the old writer goes on after the rename.
RotateKeepsWriter ==
    /\ mode = "up" /\ ck = "idle" /\ batch = {} /\ writerOpen
    /\ current + 2 <= MaxGen
    /\ retired' = wal
    /\ wal' = NoLog
    /\ synced' = 0
    /\ dirent' = "renamed"
    /\ ck' = "build"
    /\ UNCHANGED <<current, gens, mode, nextTx, batch, writerOpen, mapped,
                   acked>>

(***************************************************************************)
(* doRotate up to the rename: the log is fsynced, closed and renamed over  *)
(* wal.applying.log.  The bound leaves recovery one generation to fold in. *)
(***************************************************************************)
RotateRename ==
    /\ mode = "up" /\ ck = "idle" /\ batch = {} /\ writerOpen
    /\ current + 2 <= MaxGen
    /\ retired' = wal
    /\ wal' = NoLog
    /\ synced' = 0
    /\ dirent' = "renamed"
    /\ writerOpen' = FALSE
    /\ ck' = "reopen"
    /\ UNCHANGED <<current, gens, mode, nextTx, batch, mapped, acked>>

(***************************************************************************)
(* The rename (or the close before it) errs: the old writer is closed and  *)
(* none replaces it.                                                       *)
(***************************************************************************)
RotateRenameFails ==
    /\ mode = "up" /\ ck = "idle" /\ batch = {} /\ writerOpen
    /\ "rename" \in Faults
    /\ synced' = Len(wal.recs)
    /\ writerOpen' = FALSE
    /\ UNCHANGED <<current, gens, wal, retired, dirent, mode, ck, nextTx,
                   batch, mapped, acked>>

RotateOpen ==
    /\ mode = "up" /\ ck = "reopen"
    /\ wal' = EmptyLog
    /\ writerOpen' = TRUE
    /\ ck' = "build"
    /\ UNCHANGED <<current, gens, retired, synced, dirent, mode, nextTx,
                   batch, mapped, acked>>

(***************************************************************************)
(* OpenWriter errs: the rename is undone and the old log reopened, each of *)
(* which may err too.                                                      *)
(***************************************************************************)
RotateOpenFails ==
    /\ mode = "up" /\ ck = "reopen" /\ "open" \in Faults
    /\ ck' = "idle"
    /\ \/ /\ wal' = retired /\ retired' = NoLog
          /\ synced' = Len(retired.recs) /\ dirent' = "synced"
          /\ writerOpen' \in BOOLEAN
       \/ UNCHANGED <<wal, retired, synced, dirent, writerOpen>>
    /\ UNCHANGED <<current, gens, mode, nextTx, batch, mapped, acked>>

(***************************************************************************)
(* BuildGeneration: the next generation is written to a temporary file,    *)
(* fsynced, renamed into place, and the directory fsynced.                 *)
(***************************************************************************)
PublishNext ==
    /\ gens[current].there
    /\ gens' = [gens EXCEPT ![current + 1] = Fold(gens[current], retired.recs)]
    /\ dirent' = "synced"
    /\ UNCHANGED <<current, wal, retired, synced>>

\* Mutant: the retired log is removed once it is folded, before the switch.
PublishRemoves ==
    /\ mode = "up" /\ ck = "build"
    /\ gens[current].there
    /\ gens' = [gens EXCEPT ![current + 1] = Fold(gens[current], retired.recs)]
    /\ retired' = NoLog
    /\ dirent' = "synced"
    /\ ck' = "switch"
    /\ UNCHANGED <<current, wal, synced, mode, nextTx, batch, writerOpen,
                   mapped, acked>>

Publish ==
    /\ mode = "up" /\ ck = "build"
    /\ PublishNext
    /\ ck' = "switch"
    /\ UNCHANGED <<mode, nextTx, batch, writerOpen, mapped, acked>>

(***************************************************************************)
(* BuildGeneration errs: before the rename, or fsyncing the directory.     *)
(***************************************************************************)
BuildFails ==
    /\ mode = "up" /\ ck = "build" /\ "build" \in Faults
    /\ ck' = "idle"
    /\ \/ UNCHANGED gens
       \/ gens' = [gens EXCEPT ![current + 1] =
                                    Fold(gens[current], retired.recs)]
    /\ UNCHANGED <<current, wal, retired, synced, dirent, mode, nextTx, batch,
                   writerOpen, mapped, acked>>

(***************************************************************************)
(* WriteCurrent: temporary file, fsync, rename, fsync of the directory.    *)
(***************************************************************************)
SwitchCurrent ==
    /\ mode = "up" /\ ck = "switch"
    /\ current' = current + 1
    /\ ck' = "swap"
    /\ UNCHANGED <<gens, wal, retired, synced, dirent, mode, nextTx, batch,
                   writerOpen, mapped, acked>>

(***************************************************************************)
(* WriteCurrent errs before its rename, or fsyncing the directory after.   *)
(***************************************************************************)
SwitchFails ==
    /\ mode = "up" /\ ck = "switch" /\ "switch" \in Faults
    /\ current' \in {current, current + 1}
    /\ ck' = "idle"
    /\ UNCHANGED <<gens, wal, retired, synced, dirent, mode, nextTx, batch,
                   writerOpen, mapped, acked>>

(***************************************************************************)
(* MappedFile.SwapTo the new generation.                                   *)
(***************************************************************************)
Swap ==
    /\ mode = "up" /\ ck = "swap"
    /\ mapped' = current
    /\ ck' = "remove"
    /\ UNCHANGED <<disk, mode, nextTx, batch, writerOpen, acked>>

SwapFails ==
    /\ mode = "up" /\ ck = "swap" /\ "swap" \in Faults
    /\ ck' = "idle"
    /\ UNCHANGED <<disk, mode, nextTx, batch, writerOpen, mapped, acked>>

\* Mutant: a removal that errs sends the checkpoint back a step.
RemoveRetries ==
    /\ mode = "up" /\ ck = "remove"
    /\ \/ retired' = NoLog /\ ck' = "cleanup"
       \/ "remove" \in Faults /\ UNCHANGED retired /\ ck' = "swap"
    /\ UNCHANGED <<current, gens, wal, synced, dirent, mode, nextTx, batch,
                   writerOpen, mapped, acked>>

(***************************************************************************)
(* The retired log is removed, an error ignored.                           *)
(***************************************************************************)
RemoveRetired ==
    /\ mode = "up" /\ ck = "remove"
    /\ \/ retired' = NoLog
       \/ "remove" \in Faults /\ UNCHANGED retired
    /\ ck' = "cleanup"
    /\ UNCHANGED <<current, gens, wal, synced, dirent, mode, nextTx, batch,
                   writerOpen, mapped, acked>>

(***************************************************************************)
(* Removal of the generations G; removals that err leave a stale one.      *)
(***************************************************************************)
Without(G) ==
    \E left \in IF "remove" \in Faults THEN SUBSET G ELSE {{}} :
        gens' = [g \in 0 .. MaxGen |->
                    IF g \in G \ left THEN NoGeneration ELSE gens[g]]

\* Mutant: the generation just switched to is taken for an old one.
CleanupInclusive ==
    /\ mode = "up" /\ ck = "cleanup"
    /\ Without({g \in 0 .. MaxGen : g <= current})
    /\ ck' = "idle"
    /\ UNCHANGED <<current, wal, retired, synced, dirent, mode, nextTx, batch,
                   writerOpen, mapped, acked>>

(***************************************************************************)
(* cleanupOldGenerations(dir, newGen), and Run returns.                    *)
(***************************************************************************)
Cleanup ==
    /\ mode = "up" /\ ck = "cleanup"
    /\ Without({g \in 0 .. MaxGen : g < current})
    /\ ck' = "idle"
    /\ UNCHANGED <<current, wal, retired, synced, dirent, mode, nextTx, batch,
                   writerOpen, mapped, acked>>

-----------------------------------------------------------------------------
(***************************************************************************)
(* recovery.Recover and storage.Open.  An I/O error here ends the process: *)
(* it is a Kill.                                                           *)
(***************************************************************************)

(***************************************************************************)
(* A boot: leftover .tmp files are removed (no other step reads them) and  *)
(* CURRENT is read.                                                        *)
(***************************************************************************)
Boot ==
    /\ mode \in {"down", "refused"}
    /\ mode' = IF current = -1 THEN "initData" ELSE "purge"
    /\ UNCHANGED <<disk, ck, nextTx, batch, writerOpen, mapped, acked>>

(***************************************************************************)
(* initFresh: page.Create is exclusive and errs when data.0 exists.        *)
(***************************************************************************)
InitData ==
    /\ mode = "initData"
    /\ IF gens[0].there
       THEN mode' = "refused" /\ UNCHANGED gens
       ELSE mode' = "initCurrent" /\ gens' = [gens EXCEPT ![0] = EmptyGeneration]
    /\ UNCHANGED <<current, wal, retired, synced, dirent, ck, nextTx, batch,
                   writerOpen, mapped, acked>>

(***************************************************************************)
(* initFresh: wal.log is created when absent, then CURRENT names data.0.   *)
(***************************************************************************)
InitCurrent ==
    /\ mode = "initCurrent"
    /\ wal' = [wal EXCEPT !.there = TRUE]
    /\ current' = 0
    /\ mode' = "purge"
    /\ UNCHANGED <<gens, retired, synced, dirent, ck, nextTx, batch,
                   writerOpen, mapped, acked>>

\* Mutant: the current generation is removed with those above it.
PurgeInclusive ==
    /\ mode = "purge"
    /\ Without({g \in 0 .. MaxGen : g >= current})
    /\ mode' = IF retired.there THEN "fold" ELSE "replay"
    /\ UNCHANGED <<current, wal, retired, synced, dirent, ck, nextTx, batch,
                   writerOpen, mapped, acked>>

(***************************************************************************)
(* removeGenerationsAbove CURRENT; then a leftover wal.applying.log means  *)
(* that a checkpoint was interrupted.                                      *)
(***************************************************************************)
Purge ==
    /\ mode = "purge"
    /\ Without({g \in 0 .. MaxGen : g > current})
    /\ mode' = IF retired.there THEN "fold" ELSE "replay"
    /\ UNCHANGED <<current, wal, retired, synced, dirent, ck, nextTx, batch,
                   writerOpen, mapped, acked>>

\* Mutant: the next generation is a copy, the log is not folded into it.
FoldNothing ==
    /\ mode = "fold"
    /\ gens[current].there
    /\ gens' = [gens EXCEPT ![current + 1] = gens[current]]
    /\ dirent' = "synced"
    /\ mode' = "switch"
    /\ UNCHANGED <<current, wal, retired, synced, ck, nextTx, batch,
                   writerOpen, mapped, acked>>

(***************************************************************************)
(* The interrupted checkpoint is completed: BuildGeneration publishes and  *)
(* switches to the next generation, then the retired log is removed.       *)
(***************************************************************************)
FoldRetired ==
    /\ mode = "fold"
    /\ PublishNext
    /\ mode' = "switch"
    /\ UNCHANGED <<ck, nextTx, batch, writerOpen, mapped, acked>>

SwitchRecovered ==
    /\ mode = "switch"
    /\ current' = current + 1
    /\ mode' = "drop"
    /\ UNCHANGED <<gens, wal, retired, synced, dirent, ck, nextTx, batch,
                   writerOpen, mapped, acked>>

DropRetired ==
    /\ mode = "drop"
    /\ retired' = NoLog
    /\ mode' = "replay"
    /\ UNCHANGED <<current, gens, wal, synced, dirent, ck, nextTx, batch,
                   writerOpen, mapped, acked>>

\* Mutant: TxIDs resume past those of the log alone.
ReplayLogOnly ==
    /\ mode = "replay"
    /\ gens[current].there
    /\ wal' = [wal EXCEPT !.there = TRUE, !.junk = FALSE]
    /\ dirent' = IF wal.there THEN dirent ELSE "created"
    /\ nextTx' = Highest(0, wal.recs)
    /\ mapped' = current
    /\ writerOpen' = TRUE
    /\ mode' = "up"
    /\ UNCHANGED <<current, gens, retired, synced, ck, batch, acked>>

(***************************************************************************)
(* replayWAL and truncateWAL, then storage.Open maps the generation, opens *)
(* (creating it if needed) the log and starts the sequencer.  Nothing is   *)
(* fsynced.                                                                *)
(***************************************************************************)
Replay ==
    /\ mode = "replay"
    /\ gens[current].there
    /\ wal' = [wal EXCEPT !.there = TRUE, !.junk = FALSE]
    /\ dirent' = IF wal.there THEN dirent ELSE "created"
    /\ nextTx' = Highest(gens[current].applied, wal.recs)
    /\ mapped' = current
    /\ writerOpen' = TRUE
    /\ mode' = "up"
    /\ UNCHANGED <<current, gens, retired, synced, ck, batch, acked>>

-----------------------------------------------------------------------------
(***************************************************************************)
(* Crashes.                                                                *)
(***************************************************************************)

(***************************************************************************)
(* What a crash may interrupt.  A bound: one in the middle of a checkpoint *)
(* needs a spare generation for recovery to fold into.                     *)
(***************************************************************************)
MayCrash ==
    /\ mode \notin {"down", "refused"}
    /\ mode = "initCurrent" => "initCrash" \in Faults
    /\ retired.there => current < MaxGen

ProcessEnds ==
    /\ mode' = "down" /\ ck' = "idle"
    /\ nextTx' = 0 /\ batch' = {} /\ writerOpen' = FALSE /\ mapped' = -1

(***************************************************************************)
(* SIGKILL, or Engine.Close: what was written stays in the page cache.     *)
(***************************************************************************)
Kill ==
    /\ MayCrash
    /\ ProcessEnds
    /\ UNCHANGED <<disk, acked>>

(***************************************************************************)
(* Power loss: the n first records of the log, at least those fsynced, are *)
(* left, with a torn one behind them or not.                               *)
(***************************************************************************)
TornLog(n, torn) ==
    [wal EXCEPT !.recs = SubSeq(@, 1, n), !.junk = torn /\ wal.there]

PowerLoss ==
    /\ MayCrash
    /\ ProcessEnds
    /\ \/ \E n \in synced .. Len(wal.recs), torn \in BOOLEAN :
             /\ wal' = TornLog(n, torn)
             /\ synced' = n
             /\ UNCHANGED retired
       \/ /\ "dirent" \in Faults /\ dirent = "renamed"
          /\ wal' = retired /\ retired' = NoLog /\ synced' = Len(retired.recs)
       \/ /\ "dirent" \in Faults /\ dirent = "created"
          /\ wal' = NoLog /\ synced' = 0 /\ UNCHANGED retired
    /\ dirent' = "synced"
    /\ UNCHANGED <<current, gens, acked>>

-----------------------------------------------------------------------------
Sequence ==
    \/ \E K \in (SUBSET Key) \ {{}} : AppendRecord(K)
    \/ \E n \in 1 .. MaxBatch : AppendFails(n)
    \/ SyncBatch
    \/ SyncFails

Checkpoint ==
    \/ RotateRename \/ RotateRenameFails \/ RotateOpen \/ RotateOpenFails
    \/ Publish \/ BuildFails \/ SwitchCurrent \/ SwitchFails
    \/ Swap \/ SwapFails \/ RemoveRetired \/ Cleanup

Recover ==
    \/ Boot \/ InitData \/ InitCurrent \/ Purge \/ FoldRetired
    \/ SwitchRecovered \/ DropRetired \/ Replay

Crash == Kill \/ PowerLoss

Next == Sequence \/ Checkpoint \/ Recover \/ Crash

(***************************************************************************)
(* A started boot goes on, a started checkpoint too, and the sequencer     *)
(* goroutine answers a batch it has begun.  Nothing forces a client to     *)
(* write, a checkpoint to start, an error or a crash.                      *)
(***************************************************************************)
Fairness ==
    /\ WF_vars(Recover)
    /\ WF_vars(Checkpoint /\ ck # "idle")
    /\ WF_vars(SyncBatch)

Spec == Init /\ [][Next]_vars
FairSpec == Spec /\ Fairness

-----------------------------------------------------------------------------
(***************************************************************************)
(* Logs and generations are ordered by TxID, so that the rule that skips   *)
(* records at or below LastAppliedTxID (recovery.go:193) never hides one   *)
(* that is not in the generation: the log is strictly increasing, and all  *)
(* of it lies above the retired log and above the current generation,      *)
(* whatever was lost, torn, reused or replayed before.                     *)
(***************************************************************************)
LogOrdered ==
    /\ Increasing(wal.recs) /\ Increasing(retired.recs)
    /\ \A j \in DOMAIN wal.recs :
          /\ Base.applied < wal.recs[j].tx
          /\ \A i \in DOMAIN retired.recs : retired.recs[i].tx < wal.recs[j].tx

(***************************************************************************)
(* What a power loss now and a boot after it would rebuild: the retired    *)
(* log folded over the current generation, then the fsynced prefix of the  *)
(* log replayed.                                                           *)
(***************************************************************************)
Durable == SubSeq(wal.recs, 1, synced)
Committed == Replayed(Fold(Base, retired.recs), Durable)

(***************************************************************************)
(* No acknowledged write is ever lost (recovery.go:11): whatever the       *)
(* interleaving of batches, checkpoint steps, errors and crashes, the      *)
(* durable state of each key an acknowledged record wrote is governed by   *)
(* that record or by a later one.                                          *)
(***************************************************************************)
AckedSurvive ==
    \A r \in acked : \A k \in r.keys : Committed[k] >= r.tx

(***************************************************************************)
(* What replayWAL finds over the generation it maps serves every           *)
(* acknowledged write: none is hidden by the rule that skips records at or *)
(* below LastAppliedTxID, whichever crash led to this boot.                *)
(***************************************************************************)
BootServesAcked ==
    mode = "replay" =>
        \A r \in acked : \A k \in r.keys :
            Replayed(gens[current], wal.recs)[k] >= r.tx

(***************************************************************************)
(* A TxID is never reused (recovery.go:168): the sequencer resumes past    *)
(* every TxID left on disk, those of logs already folded and removed       *)
(* included.                                                               *)
(***************************************************************************)
FreshTx ==
    mode = "up" =>
        /\ \A i \in DOMAIN wal.recs : wal.recs[i].tx <= nextTx
        /\ \A i \in DOMAIN retired.recs : retired.recs[i].tx <= nextTx
        /\ \A r \in acked : r.tx <= nextTx
        /\ gens[current].applied <= nextTx

(***************************************************************************)
(* A generation in use never changes (recovery.go:2): the one CURRENT      *)
(* names and the one readers have mapped are neither rewritten nor removed *)
(* while they are, by checkpoint, cleanup or recovery.                     *)
(***************************************************************************)
InUse == {current} \union {mapped}

GenerationsImmutable ==
    [][\A g \in InUse \ {-1} : gens'[g] = gens[g]]_vars

(***************************************************************************)
(* A log is overwritten or removed only when what it held is in the        *)
(* generation CURRENT names (checkpoint.go:58): the retired log never      *)
(* disappears before the switch that folds it in.                          *)
(***************************************************************************)
RetiredOnlyDroppedFolded ==
    [][retired' # retired /\ wal' # retired =>
         \A i \in DOMAIN retired.recs :
             retired.recs[i].tx <= gens[current].applied]_vars

(***************************************************************************)
(* A checkpoint and a boot move no data: none of their steps changes what  *)
(* is durable, except that a rotation fsyncs the log.                      *)
(***************************************************************************)
MaintenanceKeepsContent ==
    [][Recover \/ (Checkpoint /\ ck # "idle") => Committed' = Committed]_vars

(***************************************************************************)
(* The inductive invariant behind AckedSurvive: which files exist at each  *)
(* step, what the process holds, and when the retired log may still hold   *)
(* records no generation has.                                              *)
(***************************************************************************)
FilesShape ==
    /\ current = -1 =>
          /\ mode \in {"down", "refused", "initData", "initCurrent"}
          /\ wal.recs = <<>> /\ retired = NoLog /\ acked = {}
          /\ mode = "initCurrent" => gens[0] = EmptyGeneration
    /\ current # -1 =>
          /\ gens[current].there
          /\ mode \notin {"initData", "initCurrent"}
    /\ \A g \in DOMAIN gens : \A k \in Key : gens[g].db[k] <= gens[g].applied
    /\ ~wal.there => wal.recs = <<>>
    /\ ~retired.there => retired.recs = <<>>
    /\ ~retired.junk
    /\ retired.there /\ mode \notin {"up", "drop"} => current < MaxGen

ProcessShape ==
    /\ mode # "up" => ck = "idle" /\ batch = {} /\ ~writerOpen /\ mapped = -1
    /\ mode \in {"fold", "switch", "drop"} => retired.there
    /\ mode = "replay" => ~retired.there
    /\ mode = "up" => mapped \in 0 .. current /\ gens[mapped].there
    /\ writerOpen => wal.there /\ ~wal.junk
    /\ ck = "reopen" => ~writerOpen /\ batch = {} /\ wal.recs = <<>>
    /\ ck \notin {"idle", "reopen"} => writerOpen
    /\ ck \notin {"idle", "cleanup"} => retired.there
    /\ ck # "idle" => current < MaxGen
    /\ ck \in {"reopen", "build", "switch"} => current + 1 < MaxGen
    /\ ck \in {"remove", "cleanup"} => mapped = current

TxShape ==
    mode = "up" =>
        /\ Base.applied <= nextTx
        /\ \A i \in DOMAIN wal.recs : wal.recs[i].tx <= nextTx
        /\ \A i \in DOMAIN retired.recs : retired.recs[i].tx <= nextTx

FoldedIn == \A i \in DOMAIN retired.recs : retired.recs[i].tx <= Base.applied

RetiredShape ==
    /\ mode = "drop" => FoldedIn
    /\ ck = "reopen" =>
          \A i \in DOMAIN retired.recs : Base.applied < retired.recs[i].tx
    /\ writerOpen /\ ck \notin {"build", "switch"} => FoldedIn
    /\ ck = "switch" \/ mode = "switch" =>
          gens[current + 1] = Fold(gens[current], retired.recs)

BatchShape ==
    \A r \in batch : \E i \in synced + 1 .. Len(wal.recs) : wal.recs[i] = r

(***************************************************************************)
(* The faults under which no acknowledged write can be lost.               *)
(***************************************************************************)
Survivable == Faults \cap {"shortWrite", "build", "switch", "dirent"} = {}

StorageInv ==
    /\ TypeOK
    /\ FilesShape
    /\ ProcessShape
    /\ TxShape
    /\ LogOrdered
    /\ RetiredShape
    /\ BatchShape
    /\ AckedSurvive

(***************************************************************************)
(* The detailed system implements the abstract durable map: rotation,      *)
(* building, switching, cleanup, boots and kills are invisible, and a      *)
(* power loss loses at most what no fsync had covered.                     *)
(***************************************************************************)
Pending == SubSeq(wal.recs, synced + 1, Len(wal.recs))

Map == INSTANCE DurableMap WITH committed <- Committed, pending <- Pending

ImplementsMap == Map!Spec

(***************************************************************************)
(* Every boot comes up (recovery-and-checkpoint.md:3): once crashes stop,  *)
(* the process that boots reaches "up" whatever the crashes left.          *)
(***************************************************************************)
BootCompletes == (<>[][~Crash]_vars) => (mode # "up" ~> mode = "up")

(***************************************************************************)
(* A checkpoint that started returns, whatever step of it errs.            *)
(***************************************************************************)
CheckpointReturns == ck # "idle" ~> ck = "idle"

(***************************************************************************)
(* A boot is never refused: whatever was interrupted, the next boot finds  *)
(* a consistent state (recovery-and-checkpoint.md:3).                      *)
(***************************************************************************)
NeverRefused == mode # "refused"
=============================================================================
