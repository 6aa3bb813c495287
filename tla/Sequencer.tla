------------------------------ MODULE Sequencer ------------------------------
(***************************************************************************)
(* wal.Sequencer as the goroutines around it see it: callers of Submit     *)
(* hand requests to the run goroutine over a bounded channel and wait for  *)
(* an answer, Rotate meets it on an unbuffered one, and Close tells all of *)
(* them to stop.  Each step is one channel operation, or what the run      *)
(* goroutine does between two of them; a select with several ready cases   *)
(* takes any of them.                                                      *)
(***************************************************************************)
EXTENDS Naturals, Sequences, SequencesExt

CONSTANTS
    Caller,     \* goroutines that call Submit
    MaxCalls,   \* bound: Submit calls
    MaxRotates, \* bound: Rotate calls
    Queue,      \* capacity of reqs
    MaxBatch,   \* FsyncMode.MaxBatch; 1 is FsyncPerCommit
    MayFail     \* Append or Sync may err

ASSUME SequencerAssumption ==
    /\ MaxCalls \in Nat /\ MaxRotates \in Nat
    /\ Queue \in Nat \ {0} /\ MaxBatch \in Nat \ {0}
    /\ MayFail \in BOOLEAN

VARIABLES
    reqs,       \* the channel of requests
    resp,       \* resp channels: the answer put into each
    done,       \* done is closed
    run,        \* the step of the run goroutine
    batch,      \* its batch
    sent,       \* how many of the batch it has answered
    err,        \* its err
    nextTx,
    txOf,       \* the TxID each request was given, 0 before
    log,        \* the requests whose record is in the active file, in order
    old,        \* the requests whose record a rotation moved away
    call,       \* the step of each caller, and what its last call returned
    calls,      \* calls made so far
    floor,      \* history: high when the call began
    high,       \* history: the highest TxID a call has returned
    rot,        \* the step of Rotate, called under Engine.ckMu
    rotates,
    closer      \* the step of Close

file == <<nextTx, txOf, log, old>>
runner == <<run, batch, sent, err>>
callers == <<call, calls, floor, high>>
vars == <<reqs, resp, done, runner, file, callers, rot, rotates, closer>>

Request == Caller \X (1 .. MaxCalls)
Outcome == {"ok", "failed", "closed"}
Current(c) == <<c, calls[c]>>

TypeOK ==
    /\ reqs \in Seq(Request) /\ Len(reqs) <= Queue
    /\ resp \in [Request -> Outcome \union {"none"}]
    /\ done \in BOOLEAN
    /\ run \in {"select", "collect", "commit", "deliver", "drain", "exited"}
    /\ batch \in Seq(Request) /\ Len(batch) <= MaxBatch
    /\ sent \in 0 .. Len(batch)
    /\ err \in BOOLEAN
    /\ nextTx \in Nat
    /\ txOf \in [Request -> Nat]
    /\ log \in Seq(Request) /\ old \in Seq(Request)
    /\ call \in [Caller -> {"idle", "send", "peek", "await"} \union Outcome]
    /\ calls \in [Caller -> 0 .. MaxCalls]
    /\ floor \in [Caller -> Nat] /\ high \in Nat
    /\ rot \in {"idle", "offer"}
    /\ rotates \in 0 .. MaxRotates
    /\ closer \in {"open", "wait", "closed"}

Init ==
    /\ reqs = <<>> /\ resp = [r \in Request |-> "none"] /\ done = FALSE
    /\ run = "select" /\ batch = <<>> /\ sent = 0 /\ err = FALSE
    /\ nextTx = 0 /\ txOf = [r \in Request |-> 0] /\ log = <<>> /\ old = <<>>
    /\ call = [c \in Caller |-> "idle"] /\ calls = [c \in Caller |-> 0]
    /\ floor = [c \in Caller |-> 0] /\ high = 0
    /\ rot = "idle" /\ rotates = 0 /\ closer = "open"

-----------------------------------------------------------------------------
CallsLeft == FoldFunction(+, 0, calls) < MaxCalls

(***************************************************************************)
(* Submit.  The call begins; the request is sent as soon as the channel    *)
(* has room, or given up when done is closed.                              *)
(***************************************************************************)
Begin(c) ==
    /\ call[c] \in {"idle"} \union Outcome
    /\ calls[c] < MaxCalls /\ CallsLeft
    /\ call' = [call EXCEPT ![c] = "send"]
    /\ calls' = [calls EXCEPT ![c] = @ + 1]
    /\ floor' = [floor EXCEPT ![c] = high]
    /\ UNCHANGED <<reqs, resp, done, runner, file, high, rot, rotates, closer>>

Return(c, outcome) ==
    /\ call' = [call EXCEPT ![c] = outcome]
    /\ high' = IF outcome = "ok" THEN Max({high, txOf[Current(c)]}) ELSE high

Send(c) ==
    /\ call[c] = "send"
    /\ \/ /\ Len(reqs) < Queue
          /\ reqs' = Append(reqs, Current(c))
          /\ call' = [call EXCEPT ![c] = "peek"]
          /\ UNCHANGED high
       \/ done /\ Return(c, "closed") /\ UNCHANGED reqs
    /\ UNCHANGED <<resp, done, runner, file, calls, floor, rot, rotates, closer>>

(***************************************************************************)
(* An answer already there is taken; else the answer or done is awaited.   *)
(***************************************************************************)
Answer(c) == resp[Current(c)] # "none" /\ Return(c, resp[Current(c)])

Peek(c) ==
    /\ call[c] = "peek"
    /\ \/ Answer(c)
       \/ /\ resp[Current(c)] = "none"
          /\ call' = [call EXCEPT ![c] = "await"]
          /\ UNCHANGED high
    /\ UNCHANGED <<reqs, resp, done, runner, file, calls, floor, rot, rotates,
                   closer>>

\* Mutant: done is not watched while the answer is awaited.
AwaitAnswer(c) ==
    /\ call[c] = "await"
    /\ Answer(c)
    /\ UNCHANGED <<reqs, resp, done, runner, file, calls, floor, rot, rotates,
                   closer>>

Await(c) ==
    /\ call[c] = "await"
    /\ Answer(c) \/ (done /\ Return(c, "closed"))
    /\ UNCHANGED <<reqs, resp, done, runner, file, calls, floor, rot, rotates,
                   closer>>

-----------------------------------------------------------------------------
(***************************************************************************)
(* run: one request begins a batch, a rotation is served, or done is seen. *)
(***************************************************************************)
Take ==
    /\ run = "select" /\ reqs # <<>>
    /\ batch' = <<Head(reqs)>>
    /\ reqs' = Tail(reqs)
    /\ run' = IF MaxBatch = 1 THEN "commit" ELSE "collect"
    /\ UNCHANGED <<resp, done, sent, err, file, callers, rot, rotates, closer>>

\* Mutant: a batch takes all there is.
CollectAll ==
    /\ run = "collect"
    /\ \/ /\ reqs # <<>>
          /\ batch' = Append(batch, Head(reqs))
          /\ reqs' = Tail(reqs)
          /\ UNCHANGED run
       \/ run' = "commit" /\ UNCHANGED <<batch, reqs>>
    /\ UNCHANGED <<resp, done, sent, err, file, callers, rot, rotates, closer>>

(***************************************************************************)
(* collectBatch: more requests while there is room, until the timer fires  *)
(* or done is seen.                                                        *)
(***************************************************************************)
Collect ==
    /\ run = "collect"
    /\ \/ /\ reqs # <<>> /\ Len(batch) < MaxBatch
          /\ batch' = Append(batch, Head(reqs))
          /\ reqs' = Tail(reqs)
          /\ UNCHANGED run
       \/ run' = "commit" /\ UNCHANGED <<batch, reqs>>
    /\ UNCHANGED <<resp, done, sent, err, file, callers, rot, rotates, closer>>

(***************************************************************************)
(* Every request of the batch takes a TxID; records are appended until one *)
(* errs, and fsynced when none did.                                        *)
(***************************************************************************)
Numbered ==
    [r \in Request |-> IF r \in ToSet(batch)
                       THEN nextTx + (CHOOSE i \in DOMAIN batch : batch[i] = r)
                       ELSE txOf[r]]

\* Mutant: the batch takes one TxID from the counter.
CommitCountsOnce ==
    /\ run = "commit"
    /\ txOf' = Numbered
    /\ nextTx' = nextTx + 1
    /\ err' = FALSE /\ log' = log \o batch
    /\ run' = "deliver"
    /\ UNCHANGED <<reqs, resp, done, batch, sent, old, callers, rot, rotates,
                   closer>>

\* Mutant: only the error of the last call counts.
CommitLastError ==
    /\ run = "commit"
    /\ txOf' = Numbered
    /\ nextTx' = nextTx + Len(batch)
    /\ err' = FALSE
    /\ \E n \in 0 .. Len(batch) :
          /\ MayFail \/ n = Len(batch)
          /\ log' = log \o SubSeq(batch, 1, n)
    /\ run' = "deliver"
    /\ UNCHANGED <<reqs, resp, done, batch, sent, old, callers, rot, rotates,
                   closer>>

Commit ==
    /\ run = "commit"
    /\ txOf' = Numbered
    /\ nextTx' = nextTx + Len(batch)
    /\ \/ err' = FALSE /\ log' = log \o batch
       \/ /\ MayFail
          /\ err' = TRUE
          /\ \E n \in 0 .. Len(batch) : log' = log \o SubSeq(batch, 1, n)
    /\ run' = "deliver"
    /\ UNCHANGED <<reqs, resp, done, batch, sent, old, callers, rot, rotates,
                   closer>>

(***************************************************************************)
(* Each request of the batch is answered, the same way.                    *)
(***************************************************************************)
Deliver ==
    /\ run = "deliver"
    /\ resp' = [resp EXCEPT ![batch[sent + 1]] = IF err THEN "failed" ELSE "ok"]
    /\ IF sent + 1 = Len(batch)
       THEN run' = "select" /\ batch' = <<>> /\ sent' = 0 /\ err' = FALSE
       ELSE sent' = sent + 1 /\ UNCHANGED <<run, batch, err>>
    /\ UNCHANGED <<reqs, done, file, callers, rot, rotates, closer>>

(***************************************************************************)
(* done seen: drainClosed answers what is queued, and run returns when the *)
(* channel is empty.                                                       *)
(***************************************************************************)
Stop ==
    /\ run = "select" /\ done
    /\ run' = "drain"
    /\ UNCHANGED <<reqs, resp, done, batch, sent, err, file, callers, rot,
                   rotates, closer>>

Drain ==
    /\ run = "drain"
    /\ IF reqs = <<>>
       THEN run' = "exited" /\ UNCHANGED <<reqs, resp>>
       ELSE /\ resp' = [resp EXCEPT ![Head(reqs)] = "closed"]
            /\ reqs' = Tail(reqs)
            /\ UNCHANGED run
    /\ UNCHANGED <<done, batch, sent, err, file, callers, rot, rotates, closer>>

-----------------------------------------------------------------------------
(***************************************************************************)
(* Rotate: offered to run, or given up when done is closed.  doRotate then *)
(* moves the log away; an error leaves it (its steps are in Storage).      *)
(***************************************************************************)
OfferRotate ==
    /\ rot = "idle" /\ rotates < MaxRotates
    /\ rot' = "offer" /\ rotates' = rotates + 1
    /\ UNCHANGED <<reqs, resp, done, runner, file, callers, closer>>

RotateClosed ==
    /\ rot = "offer" /\ done
    /\ rot' = "idle"
    /\ UNCHANGED <<reqs, resp, done, runner, file, callers, rotates, closer>>

\* Mutant: the TxIDs start again with the new file.
DoRotateRestarts ==
    /\ rot = "offer" /\ run = "select"
    /\ old' = old \o log /\ log' = <<>> /\ nextTx' = 0
    /\ rot' = "idle"
    /\ UNCHANGED <<reqs, resp, done, runner, txOf, callers, rotates, closer>>

DoRotate ==
    /\ rot = "offer" /\ run = "select"
    /\ \/ old' = old \o log /\ log' = <<>>
       \/ MayFail /\ UNCHANGED <<old, log>>
    /\ rot' = "idle"
    /\ UNCHANGED <<reqs, resp, done, runner, nextTx, txOf, callers, rotates,
                   closer>>

(***************************************************************************)
(* Close: done is closed, run waited for, the writer closed.               *)
(***************************************************************************)
CloseDone ==
    /\ closer = "open"
    /\ done' = TRUE /\ closer' = "wait"
    /\ UNCHANGED <<reqs, resp, runner, file, callers, rot, rotates>>

CloseWait ==
    /\ closer = "wait" /\ run = "exited"
    /\ closer' = "closed"
    /\ UNCHANGED <<reqs, resp, done, runner, file, callers, rot, rotates>>

-----------------------------------------------------------------------------
Run == Take \/ Collect \/ Commit \/ Deliver \/ Stop \/ Drain \/ DoRotate

Next ==
    \/ \E c \in Caller : Begin(c) \/ Send(c) \/ Peek(c) \/ Await(c)
    \/ Run
    \/ OfferRotate \/ RotateClosed
    \/ CloseDone \/ CloseWait

(***************************************************************************)
(* Goroutines that can go on do; the timer of a batch fires.  Nothing      *)
(* makes a caller call, a checkpoint start or the engine close.            *)
(***************************************************************************)
Fairness ==
    /\ \A c \in Caller : WF_vars(Send(c) \/ Peek(c) \/ Await(c))
    /\ WF_vars(Run)
    /\ WF_vars(RotateClosed)
    /\ WF_vars(CloseWait)

Spec == Init /\ [][Next]_vars
FairSpec == Spec /\ Fairness

-----------------------------------------------------------------------------
(***************************************************************************)
(* An answer tells what became of the write: one that was told ok has its  *)
(* record in the log, one that was refused as closed has none, and no      *)
(* record is there twice.                                                  *)
(***************************************************************************)
File == old \o log
Written == ToSet(File)

AnswersTrue ==
    /\ \A r \in Request : /\ resp[r] = "ok" => r \in Written
                          /\ resp[r] = "closed" => r \notin Written
    /\ Cardinality(Written) = Len(File)

(***************************************************************************)
(* TxIDs increase along the log, rotations and failed batches included:    *)
(* the "monotonic TxID" replay and the overlay's pruning rely on.          *)
(***************************************************************************)
FileOrdered ==
    \A i, j \in DOMAIN File : i < j => txOf[File[i]] < txOf[File[j]]

(***************************************************************************)
(* TxIDs respect real time: a write that began after another was           *)
(* acknowledged is later than it.                                          *)
(***************************************************************************)
RealTimeOrder ==
    \A c \in Caller : calls[c] > 0 /\ txOf[Current(c)] # 0 =>
                          txOf[Current(c)] > floor[c]

(***************************************************************************)
(* "a durably-committed write is never misreported as closed during        *)
(* shutdown" (sequencer.go:88).                                            *)
(***************************************************************************)
NeverMisreported ==
    \A c \in Caller : call[c] = "closed" => Current(c) \notin Written

(***************************************************************************)
(* Nobody waits for ever: neither a caller whose request came in just as   *)
(* the run goroutine left, nor a checkpoint, nor Close.                    *)
(***************************************************************************)
CallsReturn ==
    /\ \A c \in Caller : call[c] = "send" ~> call[c] \in Outcome
    /\ rot = "offer" ~> rot = "idle"
    /\ closer = "wait" ~> closer = "closed"
=============================================================================
