--------------------------- MODULE ServiceProofs ---------------------------
(***************************************************************************)
(* For any number of requests, checkpoints and writes: the server uses the *)
(* mapped generations as Snapshot says they are used, so that what is      *)
(* proved of every use of them is proved of the server's; and its shutdown *)
(* takes nothing from under a checkpoint or a request it waits for.        *)
(***************************************************************************)
EXTENDS Service, SnapshotProofs

-----------------------------------------------------------------------------
(***************************************************************************)
(* A request reads through Acquire and Release only, and leaves the rest   *)
(* of the mapped file alone otherwise.                                     *)
(***************************************************************************)
LEMMA RequestUses ==
  ASSUME NEW r \in Reader, Arrive(r) \/ Serve(r)
  PROVE  Load(r) \/ Leave(r) \/ UNCHANGED vars
<1>1. CASE Arrive(r)
  BY <1>1 DEF Arrive
<1>2. CASE Read(r)
  BY <1>2 DEF Read
<1>3. CASE Submit(r) \/ Publish(r) \/ Stats(r)
  BY <1>3 DEF Submit, Publish, Stats
<1> QED BY <1>1, <1>2, <1>3 DEF Serve

(***************************************************************************)
(* So does Engine.Close, through MappedFile.Close; what comes before it in *)
(* RunForeground does not touch the mapped file.                           *)
(***************************************************************************)
LEMMA DaemonUses ==
  ASSUME Cancel \/ Listen \/ AcceptFails \/ RunForeground
  PROVE  CloseTake \/ CloseUnmap \/ UNCHANGED vars
<1>1. CASE Cancel \/ Listen \/ AcceptFails
  BY <1>1 DEF Cancel, Listen, AcceptFails
<1>2. CASE SeeCancel \/ SeeError \/ ShutdownReturns \/ HostEnds
  BY <1>2 DEF SeeCancel, SeeError, ShutdownReturns, HostEnds
<1>3. CASE CloseEngine
  BY <1>3 DEF CloseEngine, CloseStop, CloseWait, CloseSequencer, CloseMapped
<1> QED BY <1>1, <1>2, <1>3 DEF RunForeground

(***************************************************************************)
(* And the checkpoint loop, through SwapTo.                                *)
(***************************************************************************)
LEMMA LoopUses ==
  ASSUME CheckpointLoop
  PROVE  Install \/ Retire \/ Test \/ UNCHANGED vars
BY DEF CheckpointLoop, Tick, LoopStops, RotateLog, SwapTo, Prune

(***************************************************************************)
(* The running server implements Snapshot: its requests, its checkpoints   *)
(* and its shutdown call the mapped file as Snapshot lets them.            *)
(***************************************************************************)
THEOREM ServiceImplementsSnapshot == ServiceSpec => Spec
<1>1. ServiceInit => Init
  BY DEF ServiceInit
<1>2. [ServiceNext]_serviceVars => [Next]_vars
  <2> SUFFICES ASSUME [ServiceNext]_serviceVars PROVE [Next]_vars
    OBVIOUS
  <2>1. ASSUME NEW r \in Reader, Arrive(r) \/ Serve(r) PROVE [Next]_vars
    BY <2>1, RequestUses DEF Next
  <2>2. CASE Cancel \/ Listen \/ AcceptFails \/ RunForeground
    BY <2>2, DaemonUses DEF Next
  <2>3. CASE CheckpointLoop
    BY <2>3, LoopUses DEF Next
  <2>4. CASE UNCHANGED serviceVars
    BY <2>4 DEF serviceVars
  <2> QED BY <2>1, <2>2, <2>3, <2>4 DEF ServiceNext
<1> QED BY <1>1, <1>2, PTL DEF ServiceSpec, Spec

-----------------------------------------------------------------------------
(***************************************************************************)
(* Close runs through its steps in order, and requests come only from a    *)
(* listener that has listened.  Only an Accept that erred lets requests    *)
(* come after RunForeground has left its select.                           *)
(***************************************************************************)
InOrder ==
    /\ seq # "open" => main \in {"drain", "unmap", "returned"}
    /\ current = Nil => main \in {"unmap", "returned"}
    /\ main \in {"sequencer", "drain", "unmap", "returned"} => loop = "exited"

Waited ==
    /\ listener \in {"starting", "listening"} => main = "serve"
    /\ main = "shutdown" => listener \in {"refused", "closed"}
    /\ listener \in {"starting", "refused"} => ~Busy
    /\ listener = "failed" /\ main # "serve" => late
    /\ Busy /\ main \notin {"serve", "shutdown"} => late

Steps == {"none", "read", "submit", "publish", "stats"}

ServiceInv == InOrder /\ Waited /\ at \in [Reader -> Steps]

(***************************************************************************)
(* A step that serves a request makes no other request busy, and takes     *)
(* none on.                                                                *)
(***************************************************************************)
LEMMA ServeMoves ==
  ASSUME ServiceInv, NEW r \in Reader, Serve(r)
  PROVE  /\ Busy' => Busy
         /\ at' \in [Reader -> Steps]
         /\ UNCHANGED <<daemon, seq, loop>>
         /\ current' = current
<1>1. at[r] # "none"
  BY DEF Serve, Read, Submit, Publish, Stats
<1>2. Busy
  BY <1>1 DEF Busy
<1>3. at' = at \/ Goes(r, "none") \/ Goes(r, "submit") \/ Goes(r, "publish")
  BY DEF Serve, Read, Submit, Publish, Stats
<1>4. at' \in [Reader -> Steps]
  BY <1>3 DEF ServiceInv, Goes, Steps
<1>5. UNCHANGED <<daemon, seq, loop>>
  BY DEF Serve, Read, Submit, Publish, Stats, writes, checkpoints
<1>6. current' = current
  <2>1. CASE Read(r)
    BY <2>1 DEF Read, Load, Leave, Count, Check, Drop, LastOut, shared
  <2>2. CASE Submit(r) \/ Publish(r) \/ Stats(r)
    BY <2>2 DEF Submit, Publish, Stats, vars, shared
  <2> QED BY <2>1, <2>2 DEF Serve
<1> QED BY <1>2, <1>4, <1>5, <1>6

\* So the requests keep the invariant.
LEMMA ServeKeeps ==
  ASSUME ServiceInv, NEW r \in Reader, Serve(r)
  PROVE  ServiceInv'
<1>1. InOrder'
  BY ServeMoves DEF ServiceInv, InOrder, daemon
<1>2. Waited'
  BY ServeMoves DEF ServiceInv, Waited, daemon
<1> QED BY <1>1, <1>2, ServeMoves DEF ServiceInv

(***************************************************************************)
(* A request arrives at a server that listens, that still waits for its    *)
(* requests, or whose listener failed.                                     *)
(***************************************************************************)
LEMMA ArriveKeeps ==
  ASSUME ServiceInv, NEW r \in Reader, Arrive(r)
  PROVE  ServiceInv'
<1>1. UNCHANGED <<daemon, seq, loop, current>> /\ at' \in [Reader -> Steps]
  <2>1. Goes(r, "read") \/ Goes(r, "submit") \/ Goes(r, "stats")
    BY DEF Arrive
  <2>2. at' \in [Reader -> Steps]
    BY <2>1 DEF ServiceInv, Goes, Steps
  <2>3. UNCHANGED <<daemon, seq, loop, current>>
    BY DEF Arrive, writes, checkpoints, vars, shared
  <2> QED BY <2>2, <2>3
<1>2. InOrder'
  BY <1>1 DEF ServiceInv, InOrder, daemon
<1>3. \/ listener = "listening"
      \/ listener = "closed" /\ main = "shutdown"
      \/ listener = "failed"
  BY DEF Arrive, Connected
<1>4. Waited'
  BY <1>1, <1>3 DEF ServiceInv, Waited, daemon
<1> QED BY <1>1, <1>2, <1>4 DEF ServiceInv

(***************************************************************************)
(* RunForeground closes the engine when it has seen the error, or when     *)
(* Shutdown has returned; Close waits for the loop before the sequencer.   *)
(***************************************************************************)
LEMMA DaemonKeeps ==
  ASSUME ServiceInv, Cancel \/ Listen \/ AcceptFails \/ RunForeground
  PROVE  ServiceInv'
<1>1. UNCHANGED <<at, loop>> /\ Busy' = Busy
  BY DEF RunForeground, Cancel, Listen, AcceptFails, SeeCancel, SeeError,
         ShutdownReturns, HostEnds, CloseEngine, CloseStop, CloseWait,
         CloseSequencer, CloseMapped, requests, checkpoints, Busy
<1>2. CASE Cancel \/ Listen \/ AcceptFails
  BY <1>1, <1>2 DEF Cancel, Listen, AcceptFails, ServiceInv, InOrder, Waited,
                    vars, shared, writes
<1>3. CASE SeeCancel \/ SeeError \/ ShutdownReturns \/ HostEnds
  <2>1. UNCHANGED <<seq, current>> /\ InOrder'
    BY <1>1, <1>3 DEF SeeCancel, SeeError, ShutdownReturns, HostEnds, ServiceInv,
                      InOrder, vars, shared, writes
  <2>2. CASE SeeCancel
    <3>1. /\ main' = "shutdown"
          /\ listener' \in {"refused", "closed"}
          /\ listener' = "refused" => listener \in {"starting", "refused"}
      BY <2>2 DEF SeeCancel
    <3> QED BY <1>1, <2>1, <3>1 DEF ServiceInv, Waited
  <2>3. CASE SeeError
    BY <1>1, <2>1, <2>3 DEF SeeError, ServiceInv, Waited
  <2>4. CASE ShutdownReturns
    <3>1. main = "shutdown" /\ main' = "stop" /\ listener' = listener
      BY <2>4 DEF ShutdownReturns
    <3>2. Busy' => late'
      BY <1>1, <2>4 DEF ShutdownReturns
    <3>3. listener \in {"refused", "closed"}
      BY <3>1 DEF ServiceInv, Waited
    <3> QED BY <1>1, <2>1, <3>1, <3>2, <3>3 DEF ServiceInv, Waited
  <2>5. CASE HostEnds
    BY <1>1, <2>1, <2>5 DEF HostEnds, ServiceInv, Waited
  <2> QED BY <1>3, <2>2, <2>3, <2>4, <2>5
<1>4. CASE CloseStop \/ CloseWait \/ CloseSequencer
  BY <1>1, <1>4 DEF CloseStop, CloseWait, CloseSequencer, ServiceInv, InOrder,
                    Waited, vars, shared, writes
<1>5. CASE CloseMapped
  BY <1>1, <1>5 DEF CloseMapped, CloseTake, CloseUnmap, ServiceInv, InOrder,
                    Waited, shared, writes
<1> QED BY <1>1, <1>2, <1>3, <1>4, <1>5 DEF RunForeground, CloseEngine

(***************************************************************************)
(* The loop, once it has exited, makes no step; a generation it installs   *)
(* is not Nil.                                                             *)
(***************************************************************************)
LEMMA LoopKeeps ==
  ASSUME ServiceInv, TypeOK, CheckpointLoop
  PROVE  ServiceInv'
<1>1. loop # "exited" /\ UNCHANGED <<daemon, at, seq>> /\ Busy' = Busy
  BY DEF CheckpointLoop, Tick, LoopStops, RotateLog, SwapTo, Prune, requests,
         writes, Busy
<1>2. current' # Nil
  <2>1. current # Nil
    BY <1>1 DEF ServiceInv, InOrder
  <2>2. CASE Install
    BY <2>2, SnapshotAssumption DEF Install, TypeOK, Snap, Nil
  <2>3. CASE ~Install
    BY <2>1, <2>3 DEF CheckpointLoop, Tick, LoopStops, RotateLog, SwapTo, Prune,
                      Retire, Test, vars, shared
  <2> QED BY <2>2, <2>3
<1>3. InOrder'
  BY <1>1, <1>2 DEF ServiceInv, InOrder, daemon
<1>4. Waited'
  BY <1>1 DEF ServiceInv, Waited, daemon
<1> QED BY <1>1, <1>3, <1>4 DEF ServiceInv

(***************************************************************************)
(* At any moment a stop may come, the log and the mapping stay open under  *)
(* every checkpoint and under every request the HTTP server waits for, for *)
(* any number of them.                                                     *)
(***************************************************************************)
THEOREM ShutdownClosesLast == ServiceSpec => []ClosedLast
<1>1. ServiceInit => ServiceInv
  <2> SUFFICES ASSUME ServiceInit PROVE ServiceInv
    OBVIOUS
  <2>1. ~Busy /\ at \in [Reader -> Steps]
    BY DEF ServiceInit, Busy, Steps
  <2>2. InOrder
    BY DEF ServiceInit, Init, Nil, InOrder
  <2>3. Waited
    BY <2>1 DEF ServiceInit, Waited
  <2> QED BY <2>1, <2>2, <2>3 DEF ServiceInv
<1>2. ServiceInv /\ TypeOK /\ [ServiceNext]_serviceVars => ServiceInv'
  <2> SUFFICES ASSUME ServiceInv, TypeOK, [ServiceNext]_serviceVars
               PROVE  ServiceInv'
    OBVIOUS
  <2>1. ASSUME NEW r \in Reader, Arrive(r) \/ Serve(r) PROVE ServiceInv'
    BY <2>1, ArriveKeeps, ServeKeeps
  <2>2. CASE Cancel \/ Listen \/ AcceptFails \/ RunForeground
    BY <2>2, DaemonKeeps
  <2>3. CASE CheckpointLoop
    BY <2>3, LoopKeeps
  <2>4. CASE UNCHANGED serviceVars
    BY <2>4 DEF serviceVars, vars, shared, daemon, requests, writes, checkpoints,
                ServiceInv, InOrder, Waited, Busy
  <2> QED BY <2>1, <2>2, <2>3, <2>4 DEF ServiceNext
<1>3. SnapshotInv => TypeOK
  BY DEF SnapshotInv
<1>4. ServiceInv => ClosedLast
  BY DEF ServiceInv, InOrder, Waited, ClosedLast
<1> QED BY <1>1, <1>2, <1>3, <1>4, ServiceImplementsSnapshot, Invariant, PTL DEF ServiceSpec

-----------------------------------------------------------------------------
(***************************************************************************)
(* The types of the server, and the bounds that keep them: a request that  *)
(* is to write has its TxID in reserve, and publishes one that was handed  *)
(* out.                                                                    *)
(***************************************************************************)
Submitting == {r \in Reader : at[r] = "submit"}

Reserved ==
    /\ tx + Cardinality(Submitting) <= MaxTx
    /\ \A r \in Reader : at[r] = "publish" => got[r] \in 1 .. tx

ServiceTyped == ServiceTypeOK /\ Reserved

(***************************************************************************)
(* The requests that are to write are finitely many.                       *)
(***************************************************************************)
LEMMA SubmittingFinite ==
  /\ IsFiniteSet(Submitting) /\ Cardinality(Submitting) \in Nat
  /\ IsFiniteSet(Submitting') /\ Cardinality(Submitting') \in Nat
BY SnapshotAssumption, FS_Subset, FS_CardinalityType DEF SnapshotAssumption, Submitting

(***************************************************************************)
(* A request that goes on to another step than submit reserves nothing;    *)
(* one that leaves submit gives a TxID of the reserve back.                *)
(***************************************************************************)
LEMMA GoesOn ==
  ASSUME at \in [Reader -> Steps], NEW r \in Reader, NEW step \in Steps,
         Goes(r, step), step # "submit"
  PROVE  /\ at' \in [Reader -> Steps] /\ at'[r] = step
         /\ \A d \in Reader \ {r} : at'[d] = at[d]
         /\ Cardinality(Submitting') <= Cardinality(Submitting)
         /\ at[r] = "submit" => Cardinality(Submitting') = Cardinality(Submitting) - 1
<1>1. /\ at' \in [Reader -> Steps] /\ at'[r] = step
      /\ \A d \in Reader \ {r} : at'[d] = at[d]
  BY DEF Goes
<1>2. Submitting' = Submitting \ {r}
  BY <1>1 DEF Submitting
<1>3. r \in Submitting <=> at[r] = "submit"
  BY DEF Submitting
<1> QED BY <1>1, <1>2, <1>3, SubmittingFinite, FS_RemoveElement

(***************************************************************************)
(* One that goes on to submit takes a TxID that is left.                   *)
(***************************************************************************)
LEMMA GoesToSubmit ==
  ASSUME at \in [Reader -> Steps], NEW r \in Reader, Goes(r, "submit"),
         tx \in Nat, tx' = tx
  PROVE  /\ at' \in [Reader -> Steps] /\ at'[r] = "submit"
         /\ \A d \in Reader \ {r} : at'[d] = at[d]
         /\ tx' + Cardinality(Submitting') <= MaxTx
<1>1. /\ at' \in [Reader -> Steps] /\ at'[r] = "submit"
      /\ \A d \in Reader \ {r} : at'[d] = at[d]
  BY DEF Goes, Steps
<1>2. Submitting' = Submitting \union {r}
  BY <1>1 DEF Submitting
<1>3. tx + Cardinality(Submitting) < MaxTx
  BY DEF Goes, MayWrite, Submitting
<1>4. Cardinality(Submitting') <= Cardinality(Submitting) + 1
  BY <1>2, SubmittingFinite, FS_AddElement
<1> QED BY <1>1, <1>3, <1>4, SubmittingFinite, ServiceAssumption DEF ServiceAssumption

(***************************************************************************)
(* The types after a step of a request.                                    *)
(***************************************************************************)
LEMMA RequestTyped ==
  ASSUME ServiceTyped, TypeOK', NEW r \in Reader, Arrive(r) \/ Serve(r)
  PROVE  ServiceTyped'
<1>1. /\ at \in [Reader -> Steps] /\ got \in [Reader -> 0 .. MaxTx]
      /\ tx \in Nat /\ tx \in 0 .. MaxTx /\ MaxTx \in Nat
      /\ Cardinality(Submitting) \in Nat /\ Cardinality(Submitting') \in Nat
      /\ \A d \in Reader : at[d] = "publish" => got[d] \in 1 .. tx
  BY SubmittingFinite, ServiceAssumption
     DEF ServiceTyped, ServiceTypeOK, Reserved, Steps, ServiceAssumption
<1>2. UNCHANGED <<daemon, seq, writer, cut, ckMu, loop, errors>>
  BY DEF Arrive, Serve, Read, Submit, Publish, Stats, writes, checkpoints
<1>3. SUFFICES /\ at' \in [Reader -> Steps] /\ got' \in [Reader -> 0 .. MaxTx]
               /\ tx' \in 0 .. MaxTx /\ tx <= tx' /\ overlay' \subseteq 1 .. tx'
               /\ Reserved'
  BY <1>1, <1>2 DEF ServiceTyped, ServiceTypeOK, Steps, daemon
<1>4. ASSUME UNCHANGED <<tx, overlay, got>>, NEW step \in {"none", "read", "stats", "submit"},
             Goes(r, step)
      PROVE  /\ at' \in [Reader -> Steps] /\ got' \in [Reader -> 0 .. MaxTx]
             /\ tx' \in 0 .. MaxTx /\ tx <= tx' /\ overlay' \subseteq 1 .. tx'
             /\ Reserved'
  <2>1. /\ at' \in [Reader -> Steps] /\ at'[r] = step
        /\ \A d \in Reader \ {r} : at'[d] = at[d]
        /\ tx' + Cardinality(Submitting') <= MaxTx
    <3>1. CASE step = "submit"
      BY <1>1, <1>4, <3>1, GoesToSubmit
    <3>2. CASE step # "submit"
      BY <1>1, <1>4, <3>2, GoesOn DEF Steps, ServiceTyped, Reserved
    <3> QED BY <3>1, <3>2
  <2> QED BY <1>1, <1>4, <2>1 DEF ServiceTyped, ServiceTypeOK, Reserved
<1>5. CASE Arrive(r)
  BY <1>4, <1>5 DEF Arrive, writes
<1>6. CASE Read(r)
  <2>1. CASE UNCHANGED at
    <3>1. Submitting' = Submitting
      BY <2>1 DEF Submitting
    <3> QED BY <1>1, <1>6, <2>1, <3>1 DEF Read, writes, ServiceTyped, ServiceTypeOK, Reserved
  <2>2. CASE Goes(r, "none") \/ Goes(r, "submit")
    BY <1>4, <1>6, <2>2 DEF Read, writes
  <2> QED BY <1>6, <2>1, <2>2 DEF Read
<1>7. CASE Submit(r)
  <2>1. CASE UNCHANGED <<tx, got>>
    <3>1. Goes(r, "none") /\ UNCHANGED <<tx, overlay, got>>
      BY <1>1, <1>7, <2>1 DEF Submit
    <3> QED BY <1>4, <3>1
  <2>2. CASE tx' = tx + 1 /\ got' = [got EXCEPT ![r] = tx'] /\ Goes(r, "publish")
    <3>1. /\ at' \in [Reader -> Steps] /\ at'[r] = "publish"
          /\ \A d \in Reader \ {r} : at'[d] = at[d]
          /\ Cardinality(Submitting') = Cardinality(Submitting) - 1
      BY <1>1, <1>7, <2>2, GoesOn DEF Submit, Steps
    <3>2. tx + Cardinality(Submitting) <= MaxTx
      BY DEF ServiceTyped, Reserved
    <3>3. tx' \in 1 .. MaxTx /\ tx' + Cardinality(Submitting') <= MaxTx
      BY <1>1, <2>2, <3>1, <3>2
    <3>4. got' \in [Reader -> 0 .. MaxTx] /\ got'[r] = tx'
          /\ \A d \in Reader \ {r} : got'[d] = got[d]
      BY <1>1, <2>2, <3>3
    <3>5. Reserved'
      BY <1>1, <2>2, <3>1, <3>3, <3>4 DEF Reserved
    <3>6. overlay' \subseteq 1 .. tx'
      BY <1>1, <1>7, <2>2 DEF Submit, ServiceTyped, ServiceTypeOK
    <3> QED BY <1>1, <2>2, <3>1, <3>3, <3>4, <3>5, <3>6
  <2> QED BY <1>7, <2>1, <2>2 DEF Submit
<1>8. CASE Publish(r)
  <2>1. /\ at[r] = "publish" /\ tx' = tx /\ Goes(r, "none")
        /\ overlay' = overlay \union {got[r]} /\ got' = [got EXCEPT ![r] = 0]
    BY <1>8 DEF Publish
  <2>2. /\ at' \in [Reader -> Steps] /\ at'[r] = "none"
        /\ \A d \in Reader \ {r} : at'[d] = at[d]
        /\ Cardinality(Submitting') <= Cardinality(Submitting)
    BY <1>1, <2>1, GoesOn DEF Steps
  <2>3. Reserved'
    BY <1>1, <2>1, <2>2 DEF ServiceTyped, Reserved
  <2>4. overlay' \subseteq 1 .. tx'
    BY <1>1, <2>1 DEF ServiceTyped, ServiceTypeOK, Publish
  <2>5. got' \in [Reader -> 0 .. MaxTx]
    BY <1>1, <2>1
  <2> QED BY <1>1, <2>1, <2>2, <2>3, <2>4, <2>5
<1>9. CASE Stats(r)
  BY <1>4, <1>9 DEF Stats, writes
<1> QED BY <1>5, <1>6, <1>7, <1>8, <1>9 DEF Serve

(***************************************************************************)
(* And after one of the daemon, of Engine.Close, or of a checkpoint.       *)
(***************************************************************************)
LEMMA OthersTyped ==
  ASSUME ServiceTyped, TypeOK',
         Cancel \/ Listen \/ AcceptFails \/ RunForeground \/ CheckpointLoop
  PROVE  ServiceTyped'
<1>1. UNCHANGED <<at, got, tx>>
  BY DEF Cancel, Listen, AcceptFails, RunForeground, SeeCancel, SeeError,
         ShutdownReturns, HostEnds, CloseEngine, CloseStop, CloseWait,
         CloseSequencer, CloseMapped, CheckpointLoop, Tick, LoopStops, RotateLog,
         SwapTo, Prune, requests, writes
<1>2. Reserved'
  <2>1. Submitting' = Submitting
    BY <1>1 DEF Submitting
  <2> QED BY <1>1, <2>1 DEF ServiceTyped, Reserved
<1>3. CASE Cancel \/ Listen \/ AcceptFails \/ RunForeground
  <2>1. UNCHANGED <<writer, cut, overlay, checkpoints>>
    BY <1>3 DEF Cancel, Listen, AcceptFails, RunForeground, SeeCancel, SeeError,
         ShutdownReturns, HostEnds, CloseEngine, CloseStop, CloseWait,
         CloseSequencer, CloseMapped, writes
  <2>2. /\ host' \in {"running", "stopping", "ended"}
        /\ listener' \in {"starting", "listening", "refused", "failed", "closed"}
        /\ main' \in {"serve", "shutdown", "stop", "wait", "sequencer", "drain",
                      "unmap", "returned"}
        /\ seq' \in {"open", "closing", "closed"}
    BY <1>3 DEF ServiceTyped, ServiceTypeOK, Cancel, Listen, AcceptFails,
         RunForeground, SeeCancel, SeeError, ShutdownReturns, HostEnds, CloseEngine,
         CloseStop, CloseWait, CloseSequencer, CloseMapped, writes
  <2>3. late' \in BOOLEAN
    <3>1. late' = late \/ late' = (listener = "failed") \/ late' = Busy
      BY <1>3 DEF Cancel, Listen, AcceptFails, RunForeground, SeeCancel, SeeError,
         ShutdownReturns, HostEnds, CloseEngine, CloseStop, CloseWait,
         CloseSequencer, CloseMapped
    <3>2. late \in BOOLEAN /\ Busy \in BOOLEAN
      BY DEF ServiceTyped, ServiceTypeOK, Busy
    <3> QED BY <3>1, <3>2
  <2> QED BY <1>1, <1>2, <2>1, <2>2, <2>3 DEF ServiceTyped, ServiceTypeOK, checkpoints
<1>4. CASE CheckpointLoop
  <2>1. UNCHANGED <<daemon, seq>>
    BY <1>4 DEF CheckpointLoop, Tick, LoopStops, RotateLog, SwapTo, Prune, writes
  <2>2. /\ cut' \in {cut, tx} /\ overlay' \subseteq overlay
        /\ ckMu' \in {ckMu, TRUE, FALSE}
        /\ loop' \in {loop, "select", "rotate", "install", "swap", "prune", "exited"}
        /\ errors' = errors \/ (errors < MaxErrors /\ errors' = errors + 1)
        /\ writer' \in {"open", "closed"}
    <3>1. CASE Tick \/ LoopStops
      BY <3>1 DEF Tick, LoopStops, writes, ServiceTyped, ServiceTypeOK
    <3>2. CASE RotateLog
      BY <3>2 DEF RotateLog, RotateErrs, CheckpointErrs, ServiceTyped, ServiceTypeOK
    <3>3. CASE SwapTo
      BY <3>3 DEF SwapTo, CheckpointErrs, writes, checkpoints, ServiceTyped, ServiceTypeOK
    <3>4. CASE Prune
      BY <3>4 DEF Prune, ServiceTyped, ServiceTypeOK
    <3> QED BY <1>4, <3>1, <3>2, <3>3, <3>4 DEF CheckpointLoop
  <2>3. /\ tx \in 0 .. MaxTx /\ cut \in 0 .. tx /\ overlay \subseteq 1 .. tx
        /\ ckMu \in BOOLEAN /\ errors \in 0 .. MaxErrors /\ MaxTx \in Nat
        /\ MaxErrors \in Nat
        /\ loop \in {"select", "rotate", "install", "swap", "prune", "exited"}
    BY ServiceAssumption DEF ServiceTyped, ServiceTypeOK, ServiceAssumption
  <2>4. errors' \in 0 .. MaxErrors /\ cut' \in 0 .. tx' /\ overlay' \subseteq 1 .. tx'
    BY <1>1, <2>2, <2>3
  <2>5. /\ ckMu' \in BOOLEAN
        /\ loop' \in {"select", "rotate", "install", "swap", "prune", "exited"}
    BY <2>2, <2>3
  <2> QED BY <1>1, <1>2, <2>1, <2>2, <2>4, <2>5 DEF ServiceTyped, ServiceTypeOK, daemon
<1> QED BY <1>3, <1>4

(***************************************************************************)
(* The types of the server: no TxID past those handed out is published or  *)
(* taken for the end of the log, whatever the requests and checkpoints do. *)
(***************************************************************************)
THEOREM TypeCorrect == ServiceSpec => []ServiceTypeOK
<1>1. ServiceInit /\ TypeOK => ServiceTyped
  <2> SUFFICES ASSUME ServiceInit, TypeOK PROVE ServiceTyped
    OBVIOUS
  <2>1. Submitting = {} /\ Cardinality(Submitting) = 0
    BY FS_EmptySet DEF ServiceInit, Submitting
  <2>2. MaxTx \in Nat /\ MaxErrors \in Nat
    BY ServiceAssumption DEF ServiceAssumption
  <2>3. Reserved
    BY <2>1, <2>2 DEF ServiceInit, Reserved
  <2>4. ServiceTypeOK
    <3>1. /\ tx \in 0 .. MaxTx /\ cut \in 0 .. tx /\ overlay \subseteq 1 .. tx
          /\ errors \in 0 .. MaxErrors /\ got \in [Reader -> 0 .. MaxTx]
      BY <2>2 DEF ServiceInit
    <3>2. /\ at \in [Reader -> {"none", "read", "submit", "publish", "stats"}]
          /\ late \in BOOLEAN /\ ckMu \in BOOLEAN
      BY DEF ServiceInit
    <3> QED BY <3>1, <3>2 DEF ServiceInit, ServiceTypeOK
  <2> QED BY <2>3, <2>4 DEF ServiceTyped
<1>2. ServiceTyped /\ TypeOK' /\ [ServiceNext]_serviceVars => ServiceTyped'
  <2> SUFFICES ASSUME ServiceTyped, TypeOK', [ServiceNext]_serviceVars
               PROVE  ServiceTyped'
    OBVIOUS
  <2>1. ASSUME NEW r \in Reader, Arrive(r) \/ Serve(r) PROVE ServiceTyped'
    BY <2>1, RequestTyped
  <2>2. CASE Cancel \/ Listen \/ AcceptFails \/ RunForeground \/ CheckpointLoop
    BY <2>2, OthersTyped
  <2>3. CASE UNCHANGED serviceVars
    BY <2>3 DEF serviceVars, daemon, requests, writes, checkpoints, ServiceTyped,
                ServiceTypeOK, Reserved, Submitting
  <2> QED BY <2>1, <2>2, <2>3 DEF ServiceNext
<1>3. SnapshotInv => TypeOK
  BY DEF SnapshotInv
<1>4. ServiceTyped => ServiceTypeOK
  BY DEF ServiceTyped
<1> QED BY <1>1, <1>2, <1>3, <1>4, ServiceImplementsSnapshot, Invariant, PTL DEF ServiceSpec

=============================================================================
