------------------------------ MODULE Service ------------------------------
(***************************************************************************)
(* The running server: the host that starts and stops it, RunForeground,   *)
(* the HTTP listener with its requests, the checkpoint loop and            *)
(* Engine.Close, over the mapped generations of Snapshot.  Requests read   *)
(* through Acquire and Release, the checkpoint loop calls SwapTo, the      *)
(* shutdown Close; here is who calls them when.                            *)
(*                                                                         *)
(* Writes are their TxIDs.  The file operations of a checkpoint are in     *)
(* Storage, the channels of the sequencer in Sequencer.                    *)
(***************************************************************************)
EXTENDS Snapshot

CONSTANTS
    MaxTx,      \* bound: writes
    WALLimit,   \* Config.CheckpointWALBytes, in records
    MaxErrors   \* bound: checkpoints that err

ASSUME ServiceAssumption ==
    MaxTx \in Nat /\ WALLimit \in Nat \ {0} /\ MaxErrors \in Nat

VARIABLES
    host,       \* serveForeground, or the handler of the Windows service
    listener,   \* ListenAndServe; what it returned is in errCh
    main,       \* the step of RunForeground, Engine.Close included
    late,       \* history: requests may have outlived the HTTP server
    at,         \* the step of each request
    got,        \* the TxID its Submit returned
    seq,        \* the sequencer: done and the run goroutine
    writer,     \* the log's file, which an erring rotation may leave closed
    tx,         \* the TxID of the last record in the log
    cut,        \* tx when the log was last rotated
    overlay,    \* the TxIDs in Engine.overlay
    ckMu,       \* Engine.ckMu is locked by the checkpoint loop
    loop,       \* the step of checkpointLoop, Checkpoint included
    errors      \* checkpoints that have erred

daemon == <<host, listener, main, late>>
requests == <<at, got>>
writes == <<seq, writer, tx, cut, overlay>>
checkpoints == <<ckMu, loop, errors>>
serviceVars == <<vars, daemon, requests, writes, checkpoints>>

ServiceTypeOK ==
    /\ TypeOK
    /\ host \in {"running", "stopping", "ended"}
    /\ listener \in {"starting", "listening", "refused", "failed", "closed"}
    /\ main \in {"serve", "shutdown", "stop", "wait", "sequencer", "drain",
                 "unmap", "returned"}
    /\ late \in BOOLEAN
    /\ at \in [Reader -> {"none", "read", "submit", "publish", "stats"}]
    /\ got \in [Reader -> 0 .. MaxTx]
    /\ seq \in {"open", "closing", "closed"} /\ writer \in {"open", "closed"}
    /\ tx \in 0 .. MaxTx /\ cut \in 0 .. tx
    /\ overlay \subseteq 1 .. tx
    /\ ckMu \in BOOLEAN
    /\ loop \in {"select", "rotate", "install", "swap", "prune", "exited"}
    /\ errors \in 0 .. MaxErrors

(***************************************************************************)
(* Open has returned, the goroutines of the listener and of the loop are   *)
(* started.                                                                *)
(***************************************************************************)
ServiceInit ==
    /\ Init
    /\ host = "running" /\ listener = "starting" /\ main = "serve"
    /\ late = FALSE
    /\ at = [r \in Reader |-> "none"] /\ got = [r \in Reader |-> 0]
    /\ seq = "open" /\ writer = "open" /\ tx = 0 /\ cut = 0 /\ overlay = {}
    /\ ckMu = FALSE /\ loop = "select" /\ errors = 0

-----------------------------------------------------------------------------
(***************************************************************************)
(* The host: a signal, or a Stop of the service manager, cancels ctx once; *)
(* then, or when RunForeground has returned by itself, it waits for it to  *)
(* return and ends.                                                        *)
(***************************************************************************)
Cancel ==
    /\ host = "running"
    /\ host' = "stopping"
    /\ UNCHANGED <<vars, listener, main, late, requests, writes, checkpoints>>

HostEnds ==
    /\ host # "ended" /\ main = "returned"
    /\ host' = "ended"
    /\ UNCHANGED <<vars, listener, main, late, requests, writes, checkpoints>>

(***************************************************************************)
(* ListenAndServe: the address may be refused; later an Accept may err,    *)
(* which leaves the connections open, and their requests running.          *)
(***************************************************************************)
Listen ==
    /\ listener = "starting"
    /\ listener' \in {"listening", "refused"}
    /\ UNCHANGED <<vars, host, main, late, requests, writes, checkpoints>>

AcceptFails ==
    /\ listener = "listening" /\ GraceExpires
    /\ listener' = "failed"
    /\ UNCHANGED <<vars, host, main, late, requests, writes, checkpoints>>

(***************************************************************************)
(* RunForeground: its select takes ctx, and shuts the server down, or the  *)
(* error of the listener.  Shutdown returns when no request is left, or    *)
(* when its ten seconds are over.  Either way the deferred Close follows.  *)
(***************************************************************************)
Busy == \E r \in Reader : at[r] # "none"

SeeCancel ==
    /\ main = "serve" /\ host = "stopping"
    /\ main' = "shutdown"
    /\ listener' = IF listener \in {"starting", "refused"} THEN "refused" ELSE "closed"
    /\ UNCHANGED <<vars, host, late, requests, writes, checkpoints>>

SeeError ==
    /\ main = "serve" /\ listener \in {"refused", "failed"}
    /\ main' = "stop"
    /\ late' = (listener = "failed")
    /\ UNCHANGED <<vars, host, listener, requests, writes, checkpoints>>

ShutdownReturns ==
    /\ main = "shutdown"
    /\ Busy => GraceExpires
    /\ main' = "stop"
    /\ late' = Busy
    /\ UNCHANGED <<vars, host, listener, requests, writes, checkpoints>>

(***************************************************************************)
(* Engine.Close: stopCh is closed, the loop waited for, the sequencer and  *)
(* then the mapping closed.                                                *)
(***************************************************************************)
CloseStop ==
    /\ main = "stop"
    /\ main' = "wait"
    /\ UNCHANGED <<vars, host, listener, late, requests, writes, checkpoints>>

\* Mutant: the loop is waited for before stopCh is closed.
StopClosedLate == main \notin {"serve", "shutdown", "stop", "wait"}

StopClosed == main \notin {"serve", "shutdown", "stop"}

\* Mutant: the loop is told to stop but not waited for.
CloseNoWait ==
    /\ main = "wait"
    /\ main' = "sequencer"
    /\ UNCHANGED <<vars, host, listener, late, requests, writes, checkpoints>>

CloseWait ==
    /\ main = "wait" /\ loop = "exited"
    /\ main' = "sequencer"
    /\ UNCHANGED <<vars, host, listener, late, requests, writes, checkpoints>>

CloseSequencer ==
    /\ \/ main = "sequencer" /\ main' = "drain" /\ seq' = "closing"
       \/ main = "drain" /\ main' = "unmap" /\ seq' = "closed"
    /\ UNCHANGED <<vars, host, listener, late, requests, writer, tx, cut,
                   overlay, checkpoints>>

CloseMapped ==
    /\ main = "unmap"
    /\ \/ CloseTake /\ UNCHANGED main
       \/ CloseUnmap /\ main' = "returned"
    /\ UNCHANGED <<host, listener, late, requests, writes, checkpoints>>

-----------------------------------------------------------------------------
(***************************************************************************)
(* Requests.  They arrive while the listener listens, and while Shutdown   *)
(* has not closed their connections; after an Accept that erred nobody     *)
(* closes them.  A create submits, a get or a query reads, a put or a      *)
(* delete reads and then submits.                                          *)
(***************************************************************************)
Connected ==
    \/ listener = "listening"
    \/ listener = "closed" /\ main = "shutdown"
    \/ listener = "failed" /\ main # "returned"

MayWrite == tx + Cardinality({r \in Reader : at[r] = "submit"}) < MaxTx

Goes(r, step) ==
    /\ step = "submit" => MayWrite
    /\ at' = [at EXCEPT ![r] = step]

Arrive(r) ==
    /\ at[r] = "none" /\ Connected
    /\ Goes(r, "read") \/ Goes(r, "submit") \/ Goes(r, "stats")
    /\ UNCHANGED <<vars, daemon, got, writes, checkpoints>>

(***************************************************************************)
(* lookup, or a scan: Acquire, the read, Release.  An Acquire that finds   *)
(* no snapshot panics, and the middleware ends the request.                *)
(***************************************************************************)
Read(r) ==
    /\ at[r] = "read"
    /\ Load(r) \/ Leave(r)
    /\ \/ pc'[r] # "idle" /\ UNCHANGED at
       \/ pc'[r] = "idle" /\ Goes(r, "none")
       \/ pc'[r] = "idle" /\ pc[r] \in {"hold", "out"} /\ Goes(r, "submit")
    /\ UNCHANGED <<daemon, got, writes, checkpoints>>

(***************************************************************************)
(* Submit is answered with a TxID, with ErrClosed, or with the error of an *)
(* Append to a closed file, which ends the request (the TxID it used up is *)
(* in no record); the overlay is written after that, under Engine.mu.      *)
(***************************************************************************)
Submit(r) ==
    /\ at[r] = "submit"
    /\ \/ /\ seq # "closed" /\ writer = "open"
          /\ tx' = tx + 1
          /\ got' = [got EXCEPT ![r] = tx']
          /\ Goes(r, "publish")
       \/ /\ seq # "open" \/ writer = "closed"
          /\ Goes(r, "none") /\ UNCHANGED <<tx, got>>
    /\ UNCHANGED <<vars, daemon, seq, writer, cut, overlay, checkpoints>>

Publish(r) ==
    /\ at[r] = "publish"
    /\ overlay' = overlay \union {got[r]}
    /\ got' = [got EXCEPT ![r] = 0]
    /\ Goes(r, "none")
    /\ UNCHANGED <<vars, daemon, seq, writer, tx, cut, checkpoints>>

(***************************************************************************)
(* Stats: counters under mu, then those under ckMu, which a checkpoint     *)
(* holds from its start to its end.                                        *)
(***************************************************************************)
Stats(r) ==
    /\ at[r] = "stats" /\ ~ckMu
    /\ Goes(r, "none")
    /\ UNCHANGED <<vars, daemon, got, writes, checkpoints>>

-----------------------------------------------------------------------------
(***************************************************************************)
(* checkpointLoop: at a tick a checkpoint is due when the log is long, or  *)
(* when the overlay has entries and the interval is over; it takes ckMu.   *)
(* Whatever becomes of it, the loop comes back to its select.  Once the    *)
(* log's file is closed, a checkpoint does nothing but err, in the Sync    *)
(* its rotation starts with: it is no step here.                           *)
(***************************************************************************)
Offset == tx - cut

\* Mutant: writes are pending when the log has records.
TickOffset ==
    /\ loop = "select" /\ writer = "open" /\ opened < MaxSnap
    /\ Offset > 0 /\ ~ckMu
    /\ ckMu' = TRUE /\ loop' = "rotate"
    /\ UNCHANGED <<vars, daemon, requests, writes, errors>>

Tick ==
    /\ loop = "select" /\ writer = "open" /\ opened < MaxSnap
    /\ Offset >= WALLimit \/ overlay # {}
    /\ ~ckMu
    /\ ckMu' = TRUE /\ loop' = "rotate"
    /\ UNCHANGED <<vars, daemon, requests, writes, errors>>

LoopStops ==
    /\ loop = "select" /\ StopClosed
    /\ loop' = "exited"
    /\ UNCHANGED <<vars, daemon, requests, writes, ckMu, errors>>

CheckpointErrs ==
    /\ errors < MaxErrors
    /\ errors' = errors + 1
    /\ ckMu' = FALSE /\ loop' = "select"

(***************************************************************************)
(* doRotate errs.  A Sync that errs, or an open that errs and is undone,   *)
(* leaves the log as it was; a Close, a Rename, or an undoing that errs    *)
(* leaves its file closed.                                                 *)
(***************************************************************************)
RotateErrs == CheckpointErrs /\ writer' \in {"open", "closed"}

\* Mutant: a rotation that errs leaves ckMu locked.
RotateKeepsLock ==
    /\ loop = "rotate"
    /\ \/ seq = "open" /\ cut' = tx /\ loop' = "install" /\ UNCHANGED <<writer, errors>>
       \/ /\ errors < MaxErrors /\ errors' = errors + 1
          /\ loop' = "select" /\ UNCHANGED <<writer, cut>>
    /\ UNCHANGED <<vars, daemon, requests, seq, tx, overlay, ckMu>>

(***************************************************************************)
(* Checkpoint: the sequencer rotates the log, a generation is built, the   *)
(* readers are switched to it, and what it has leaves the overlay.  The    *)
(* rotation and the switch may err (a build that errs loses writes, see    *)
(* Storage).                                                               *)
(***************************************************************************)
RotateLog ==
    /\ loop = "rotate"
    /\ \/ /\ seq = "open"
          /\ cut' = tx /\ loop' = "install" /\ UNCHANGED <<writer, ckMu, errors>>
       \/ RotateErrs /\ UNCHANGED cut
    /\ UNCHANGED <<vars, daemon, requests, seq, tx, overlay>>

SwapTo ==
    /\ \/ loop = "install" /\ Install /\ loop' = "swap" /\ UNCHANGED <<ckMu, errors>>
       \/ loop = "install" /\ CheckpointErrs /\ UNCHANGED vars
       \/ loop = "swap" /\ Retire /\ UNCHANGED checkpoints
       \/ loop = "swap" /\ Test /\ loop' = "prune" /\ UNCHANGED <<ckMu, errors>>
    /\ UNCHANGED <<daemon, requests, writes>>

Prune ==
    /\ loop = "prune"
    /\ overlay' = {t \in overlay : t > cut}
    /\ ckMu' = FALSE /\ loop' = "select"
    /\ UNCHANGED <<vars, daemon, requests, seq, writer, tx, cut, errors>>

-----------------------------------------------------------------------------
Serve(r) == Read(r) \/ Submit(r) \/ Publish(r) \/ Stats(r)
CloseEngine == CloseStop \/ CloseWait \/ CloseSequencer \/ CloseMapped
RunForeground ==
    SeeCancel \/ SeeError \/ ShutdownReturns \/ CloseEngine \/ HostEnds
CheckpointLoop == Tick \/ LoopStops \/ RotateLog \/ SwapTo \/ Prune

ServiceNext ==
    \/ Cancel \/ Listen \/ AcceptFails
    \/ RunForeground
    \/ \E r \in Reader : Arrive(r) \/ Serve(r)
    \/ CheckpointLoop

(***************************************************************************)
(* Each goroutine goes on while it can: RunForeground with its host, each  *)
(* request that was taken on, the checkpoint loop, to which ticks come.    *)
(* Nothing makes a client ask or the host stop.                            *)
(***************************************************************************)
ServiceFairness ==
    /\ WF_serviceVars(RunForeground)
    /\ \A r \in Reader : WF_serviceVars(Serve(r))
    /\ WF_serviceVars(CheckpointLoop)

ServiceSpec == ServiceInit /\ [][ServiceNext]_serviceVars
FairServiceSpec == ServiceSpec /\ ServiceFairness

-----------------------------------------------------------------------------
(***************************************************************************)
(* The shutdown takes nothing from under anybody: the log and the mapping  *)
(* are open as long as a checkpoint runs, and as long as a request does    *)
(* that the HTTP server waited for ("shuts down gracefully",               *)
(* daemon_common.go:28).                                                   *)
(***************************************************************************)
ClosedLast ==
    seq # "open" \/ current = Nil =>
        /\ loop = "exited"
        /\ Busy => late

(***************************************************************************)
(* A stop ends: no goroutine that Close waits for waits for one that is    *)
(* gone, wherever the stop hits checkpoints and requests, and whether it   *)
(* comes from the host or from the listener.                               *)
(***************************************************************************)
StopReturns ==
    host = "stopping" \/ listener \in {"refused", "failed"} ~> host = "ended"

(***************************************************************************)
(* Every request is answered, also one that waits for a lock a checkpoint  *)
(* holds, an erring one included, and one that Close overtakes; and with   *)
(* its readers gone a generation that was retired is unmapped, even when   *)
(* readers and swaps keep coming.                                          *)
(***************************************************************************)
RequestsEnd ==
    /\ \A r \in Reader : at[r] # "none" ~> at[r] = "none"
    /\ \A s \in Snap : s \in retired ~> s \in unmapped

(***************************************************************************)
(* A write leaves the overlay for a generation in the end, also one that   *)
(* came to the overlay only after the checkpoint that folded it had pruned *)
(* it, and also when checkpoints err and leave the log usable; unless the  *)
(* server stops, or a rotation that errs leaves the log's file closed      *)
(* (sequencer.go:130-137), after which nothing is folded until a restart   *)
(* (or the bound on generations is reached).                               *)
(***************************************************************************)
WritesFolded ==
    \A t \in 1 .. MaxTx :
        t \in overlay ~> \/ t \notin overlay
                        \/ main # "serve" \/ writer = "closed" \/ opened = MaxSnap
=============================================================================
