--------------------------- MODULE SequencerProofs ---------------------------
(***************************************************************************)
(* For any number of callers, calls, rotations and errors: TxIDs follow    *)
(* the log and real time, and answers tell what became of the writes.      *)
(***************************************************************************)
EXTENDS Sequencer, FiniteSetTheorems, SequenceTheorems, TLAPS

-----------------------------------------------------------------------------
(***************************************************************************)
(* The inductive invariant.  A request is unsent until its caller has put  *)
(* it into the channel; it is then in the channel or in the batch, once,   *)
(* without a TxID and without an answer, until the batch is committed.     *)
(***************************************************************************)
Unsent(r) ==
    \/ r[2] > calls[r[1]]
    \/ r[2] = calls[r[1]] /\ call[r[1]] = "send"

New(r) == txOf[r] = 0 /\ resp[r] = "none"

Once(s) == \A i, j \in 1 .. Len(s) : s[i] = s[j] => i = j

RunShape ==
    /\ run = "deliver" => sent < Len(batch)
    /\ run \in {"collect", "commit"} => batch # <<>> /\ sent = 0
    /\ run \in {"select", "drain", "exited"} => batch = <<>> /\ sent = 0

QueueShape ==
    /\ \A r \in Request : Unsent(r) =>
          /\ New(r)
          /\ \A i \in 1 .. Len(reqs) : reqs[i] # r
          /\ \A j \in 1 .. Len(batch) : batch[j] # r
    /\ Once(reqs) /\ Once(batch)
    /\ \A i \in 1 .. Len(reqs), j \in 1 .. Len(batch) : reqs[i] # batch[j]
    /\ \A i \in 1 .. Len(reqs) : New(reqs[i])
    /\ run \in {"collect", "commit"} => \A j \in 1 .. Len(batch) : New(batch[j])
    /\ \A c \in Caller : call[c] # "idle" => calls[c] > 0

(***************************************************************************)
(* What is in the log has a TxID the counter has passed, in order.         *)
(***************************************************************************)
LogShape ==
    /\ \A r \in Request : txOf[r] <= nextTx
    /\ \A i \in 1 .. Len(File) : txOf[File[i]] > 0
    /\ \A i, j \in 1 .. Len(File) : i < j => txOf[File[i]] < txOf[File[j]]

InFile(r) == \E i \in 1 .. Len(File) : File[i] = r

AnswerShape ==
    /\ run = "deliver" /\ ~err => \A j \in 1 .. Len(batch) : InFile(batch[j])
    /\ \A r \in Request : /\ resp[r] = "ok" => InFile(r)
                          /\ resp[r] = "closed" => txOf[r] = 0

FloorShape ==
    /\ high <= nextTx
    /\ \A c \in Caller : floor[c] <= high
    /\ \A c \in Caller : calls[c] > 0 /\ txOf[Current(c)] # 0 =>
                             txOf[Current(c)] > floor[c]

SequencerInv ==
    TypeOK /\ RunShape /\ QueueShape /\ LogShape /\ AnswerShape /\ FloorShape

-----------------------------------------------------------------------------
(***************************************************************************)
(* The log as one sequence.                                                *)
(***************************************************************************)
LEMMA FileSeq ==
  ASSUME TypeOK
  PROVE  File \in Seq(Request) /\ Len(File) = Len(old) + Len(log)
BY ConcatProperties DEF TypeOK, File

(***************************************************************************)
(* No call, no record: the invariant holds when the sequencer opens.       *)
(***************************************************************************)
THEOREM InitHolds == Init => SequencerInv
<1> SUFFICES ASSUME Init PROVE SequencerInv
  OBVIOUS
<1> USE SequencerAssumption
<1>1. TypeOK
  <2>1. <<>> \in Seq(Request) /\ Len(<<>>) = 0
    BY EmptySeq
  <2>2. /\ reqs \in Seq(Request) /\ Len(reqs) <= Queue
        /\ batch \in Seq(Request) /\ Len(batch) <= MaxBatch
        /\ sent \in 0 .. Len(batch)
        /\ log \in Seq(Request) /\ old \in Seq(Request)
    BY <2>1 DEF Init, SequencerAssumption
  <2>3. resp \in [Request -> Outcome \union {"none"}]
    BY DEF Init
  <2>4. /\ nextTx \in Nat /\ txOf \in [Request -> Nat]
        /\ calls \in [Caller -> 0 .. MaxCalls]
        /\ floor \in [Caller -> Nat] /\ high \in Nat
        /\ rotates \in 0 .. MaxRotates
    BY DEF Init, SequencerAssumption
  <2>5. call \in [Caller -> {"idle", "send", "peek", "await"} \union Outcome]
    BY DEF Init
  <2> QED BY <2>2, <2>3, <2>4, <2>5 DEF Init, TypeOK
<1>2. File = <<>>
  BY DEF Init, File
<1>3. RunShape
  BY DEF Init, RunShape
<1>4. QueueShape
  BY DEF Init, QueueShape, Once, New, Unsent
<1>5. LogShape
  BY <1>2 DEF Init, LogShape
<1>6. AnswerShape
  BY DEF Init, AnswerShape
<1>7. FloorShape
  BY DEF Init, FloorShape
<1> QED BY <1>1, <1>3, <1>4, <1>5, <1>6, <1>7 DEF SequencerInv

-----------------------------------------------------------------------------
(***************************************************************************)
(* Steps of the callers.                                                   *)
(***************************************************************************)
LEMMA BeginKeeps ==
  ASSUME SequencerInv, NEW c \in Caller, Begin(c)
  PROVE  SequencerInv'
<1> USE DEF SequencerInv
<1>1. TypeOK'
  <2>1. calls' \in [Caller -> 0 .. MaxCalls]
    BY SequencerAssumption DEF TypeOK, Begin, SequencerAssumption
  <2>2. call' \in [Caller -> {"idle", "send", "peek", "await"} \union Outcome]
    BY DEF TypeOK, Begin
  <2>3. floor' \in [Caller -> Nat]
    BY DEF TypeOK, Begin
  <2> QED BY <2>1, <2>2, <2>3 DEF TypeOK, Begin, runner, file
<1>2. UNCHANGED <<reqs, resp, run, batch, sent, err, nextTx, txOf, log, old, high>>
  BY DEF Begin, runner, file
<1>3. RunShape' /\ LogShape' /\ AnswerShape'
  BY <1>2 DEF RunShape, LogShape, AnswerShape, InFile, File
<1>4. \A r \in Request : Unsent(r)' => Unsent(r)
  <2> SUFFICES ASSUME NEW r \in Request, Unsent(r)' PROVE Unsent(r)
    OBVIOUS
  <2>1. r[1] \in Caller /\ r[2] \in Nat
    BY SequencerAssumption DEF Request, SequencerAssumption
  <2>2. /\ call'[r[1]] = IF r[1] = c THEN "send" ELSE call[r[1]]
        /\ calls'[r[1]] = IF r[1] = c THEN calls[c] + 1 ELSE calls[r[1]]
        /\ calls[r[1]] \in Nat
    BY <2>1, SMTT(30) DEF Begin, TypeOK
  <2> QED BY <2>1, <2>2 DEF Unsent
<1>5. QueueShape'
  <2>1. \A d \in Caller : call'[d] # "idle" => calls'[d] > 0
    BY SequencerAssumption DEF Begin, QueueShape, TypeOK, SequencerAssumption
  <2> QED BY <2>1, <1>2, <1>4 DEF QueueShape, New, Once
<1>6. ASSUME NEW d \in Caller, calls'[d] > 0, txOf'[Current(d)'] # 0
      PROVE  txOf'[Current(d)'] > floor'[d]
  <2>1. CASE d = c
    <3> DEFINE r == <<c, calls[c] + 1>>
    <3>1. r = Current(c)'
      BY DEF Begin, Current, TypeOK
    <3>2. calls[c] \in Nat /\ calls[c] + 1 \in 1 .. MaxCalls
      BY SequencerAssumption DEF Begin, TypeOK, SequencerAssumption
    <3>3. r \in Request /\ r[1] = c /\ r[2] = calls[c] + 1
      BY <3>2 DEF Request
    <3>4. Unsent(r)
      BY <3>2, <3>3 DEF Unsent
    <3>5. txOf[r] = 0
      BY <3>3, <3>4 DEF QueueShape, New
    <3> QED BY <2>1, <3>1, <3>5, <1>2, <1>6
  <2>2. CASE d # c
    BY <2>2, <1>2, <1>6 DEF Begin, Current, FloorShape, TypeOK
  <2> QED BY <2>1, <2>2
<1>7. FloorShape'
  <2>1. \A d \in Caller : floor'[d] = IF d = c THEN high ELSE floor[d]
    BY DEF Begin, TypeOK
  <2>2. high \in Nat /\ \A d \in Caller : floor'[d] <= high
    <3>1. high \in Nat
      BY DEF TypeOK
    <3>2. \A d \in Caller : floor[d] <= high
      BY DEF FloorShape
    <3> QED BY <2>1, <3>1, <3>2
  <2> QED BY <1>2, <1>6, <2>2 DEF FloorShape
<1> QED BY <1>1, <1>3, <1>5, <1>7

(***************************************************************************)
(* A call that goes on, or returns: it is sent already, and high stays     *)
(* below the counter.                                                      *)
(***************************************************************************)
LEMMA CallMoves ==
  ASSUME SequencerInv,
         call' \in [Caller -> {"idle", "send", "peek", "await"} \union Outcome],
         \A d \in Caller : /\ call'[d] = "send" => call[d] = "send"
                           /\ call'[d] # "idle" => call[d] # "idle",
         high' \in Nat, high <= high', high' <= nextTx,
         UNCHANGED <<reqs, resp, runner, file, calls, floor, done, rot, rotates,
                     closer>>
  PROVE  SequencerInv'
<1> USE DEF SequencerInv, runner, file
<1>1. TypeOK'
  BY DEF TypeOK
<1>2. RunShape' /\ LogShape' /\ AnswerShape'
  BY DEF RunShape, LogShape, AnswerShape, InFile, File
<1>3. \A r \in Request : Unsent(r)' => Unsent(r)
  BY DEF Unsent, Request
<1>4. QueueShape'
  BY <1>3 DEF QueueShape, New, Once
<1>5. FloorShape'
  <2>1. \A d \in Caller : floor[d] <= high'
    BY DEF FloorShape, TypeOK
  <2> QED BY <2>1 DEF FloorShape, Current
<1> QED BY <1>1, <1>2, <1>4, <1>5

(***************************************************************************)
(* A caller that has called has a current request.                         *)
(***************************************************************************)
LEMMA CurrentRequest ==
  ASSUME SequencerInv, NEW c \in Caller, call[c] # "idle"
  PROVE  Current(c) \in Request
<1>1. calls[c] \in 1 .. MaxCalls
  BY SequencerAssumption DEF SequencerInv, QueueShape, TypeOK, SequencerAssumption
<1> QED BY <1>1 DEF Current, Request

(***************************************************************************)
(* A call that returns raises high no further than the counter.            *)
(***************************************************************************)
LEMMA ReturnBounds ==
  ASSUME SequencerInv, NEW c \in Caller, call[c] # "idle",
         NEW outcome \in Outcome, Return(c, outcome)
  PROVE  /\ high' \in Nat /\ high <= high' /\ high' <= nextTx
         /\ call' \in [Caller -> {"idle", "send", "peek", "await"} \union Outcome]
         /\ \A d \in Caller : call'[d] = IF d = c THEN outcome ELSE call[d]
<1>1. Current(c) \in Request
  BY CurrentRequest
<1>2. txOf[Current(c)] \in Nat /\ txOf[Current(c)] <= nextTx
  BY <1>1 DEF SequencerInv, TypeOK, LogShape
<1>3. high \in Nat /\ high <= nextTx /\ nextTx \in Nat
  BY DEF SequencerInv, TypeOK, FloorShape
<1>4. Max({high, txOf[Current(c)]}) \in {high, txOf[Current(c)]}
      /\ Max({high, txOf[Current(c)]}) >= high
  <2> DEFINE t == txOf[Current(c)]
  <2>1. \E x \in {high, t} : \A y \in {high, t} : x >= y
    BY <1>2, <1>3
  <2> QED BY <2>1 DEF Max
<1> QED BY <1>2, <1>3, <1>4 DEF Return, SequencerInv, TypeOK

(***************************************************************************)
(* A request sent is new, and nowhere else.                                *)
(***************************************************************************)
LEMMA SendKeeps ==
  ASSUME SequencerInv, NEW c \in Caller, Send(c)
  PROVE  SequencerInv'
<1> USE DEF SequencerInv
<1> DEFINE q == Current(c)
<1>1. q \in Request /\ q[1] = c /\ q[2] = calls[c] /\ Unsent(q)
  BY CurrentRequest DEF Send, Current, Unsent
<1>2. CASE done /\ Return(c, "closed") /\ UNCHANGED reqs
  BY <1>2, ReturnBounds, CallMoves DEF Send, Outcome
<1>3. CASE /\ Len(reqs) < Queue
           /\ reqs' = Append(reqs, q)
           /\ call' = [call EXCEPT ![c] = "peek"]
           /\ UNCHANGED high
  <2>0. UNCHANGED <<resp, done, run, batch, sent, err, nextTx, txOf, log, old,
                    calls, floor, high, rot, rotates, closer>>
    BY <1>3 DEF Send, runner, file
  <2>1. /\ reqs' \in Seq(Request) /\ Len(reqs') = Len(reqs) + 1
        /\ \A i \in 1 .. Len(reqs') :
              reqs'[i] = IF i <= Len(reqs) THEN reqs[i] ELSE q
        /\ Len(reqs) \in Nat
    <3> HIDE DEF q
    <3>1. reqs \in Seq(Request) /\ Len(reqs) \in Nat
      BY LenProperties DEF TypeOK
    <3>2. /\ reqs' \in Seq(Request) /\ Len(reqs') = Len(reqs) + 1
          /\ \A i \in 1 .. Len(reqs) : reqs'[i] = reqs[i]
          /\ reqs'[Len(reqs) + 1] = q
      BY <1>1, <1>3, <3>1, AppendProperties
    <3> QED BY <3>1, <3>2
  <2>2. TypeOK'
    <3>1. Len(reqs') <= Queue
      BY <1>3, <2>1, SequencerAssumption DEF SequencerAssumption
    <3>2. call' \in [Caller -> {"idle", "send", "peek", "await"} \union Outcome]
      BY <1>3 DEF TypeOK
    <3> QED BY <2>0, <2>1, <3>1, <3>2 DEF TypeOK
  <2>3. RunShape' /\ LogShape' /\ AnswerShape'
    BY <2>0 DEF RunShape, LogShape, AnswerShape, InFile, File
  <2>4. FloorShape'
    BY <2>0 DEF FloorShape, Current
  <2>5. \A r \in Request : Unsent(r)' => Unsent(r) /\ r # q
    <3> SUFFICES ASSUME NEW r \in Request, Unsent(r)' PROVE Unsent(r) /\ r # q
      OBVIOUS
    <3>1. call'[r[1]] = IF r[1] = c THEN "peek" ELSE call[r[1]]
      BY <1>3 DEF Request, TypeOK
    <3>2. calls[c] \in Nat /\ calls'[r[1]] = calls[r[1]]
      BY <2>0, SequencerAssumption DEF TypeOK, SequencerAssumption
    <3> QED BY <3>1, <3>2, <1>1 DEF Unsent
  <2>6. New(q) /\ (\A i \in 1 .. Len(reqs) : reqs[i] # q)
        /\ (\A j \in 1 .. Len(batch) : batch[j] # q)
    BY <1>1 DEF QueueShape
  <2>7. QueueShape'
    <3>1. \A r \in Request : Unsent(r)' =>
             /\ New(r)'
             /\ \A i \in 1 .. Len(reqs') : reqs'[i] # r
             /\ \A j \in 1 .. Len(batch) : batch[j] # r
      BY <2>0, <2>1, <2>5 DEF QueueShape, New
    <3>2. Once(reqs')
      BY <2>1, <2>6 DEF QueueShape, Once
    <3>3. \A i \in 1 .. Len(reqs'), j \in 1 .. Len(batch) : reqs'[i] # batch[j]
      BY <2>1, <2>6 DEF QueueShape
    <3>4. \A i \in 1 .. Len(reqs') :
             txOf'[reqs'[i]] = 0 /\ resp'[reqs'[i]] = "none"
      BY <2>0, <2>1, <2>6 DEF QueueShape, New
    <3>5. \A d \in Caller : call'[d] # "idle" => calls'[d] > 0
      BY <1>3, <2>0 DEF QueueShape, TypeOK, Send
    <3> QED BY <2>0, <3>1, <3>2, <3>3, <3>4, <3>5 DEF QueueShape, New, Once
  <2> QED BY <2>2, <2>3, <2>4, <2>7
<1> QED BY <1>2, <1>3 DEF Send

(***************************************************************************)
(* An answer is taken, or done is.                                         *)
(***************************************************************************)
LEMMA WaitKeeps ==
  ASSUME SequencerInv, NEW c \in Caller, Peek(c) \/ Await(c)
  PROVE  SequencerInv'
<1>1. call[c] # "idle"
  BY DEF Peek, Await
<1>2. CASE Answer(c)
  <2>1. resp[Current(c)] \in Outcome
    BY <1>1, <1>2, CurrentRequest DEF Answer, SequencerInv, TypeOK
  <2> QED BY <1>1, <1>2, <2>1, ReturnBounds, CallMoves DEF Answer, Peek, Await,
             Outcome
<1>3. CASE done /\ Return(c, "closed")
  BY <1>1, <1>3, ReturnBounds, CallMoves DEF Peek, Await, Outcome
<1>4. CASE call' = [call EXCEPT ![c] = "await"] /\ UNCHANGED high
  <2>1. high \in Nat /\ high <= nextTx
    BY DEF SequencerInv, TypeOK, FloorShape
  <2>2. call' \in [Caller -> {"idle", "send", "peek", "await"} \union Outcome]
    BY <1>4 DEF SequencerInv, TypeOK
  <2>3. \A d \in Caller : /\ call'[d] = "send" => call[d] = "send"
                          /\ call'[d] # "idle" => call[d] # "idle"
    BY <1>1, <1>4 DEF SequencerInv, TypeOK
  <2>4. UNCHANGED <<reqs, resp, runner, file, calls, floor, done, rot, rotates,
                    closer>>
    BY DEF Peek, Await
  <2> QED BY <1>4, <2>1, <2>2, <2>3, <2>4, CallMoves
<1> QED BY <1>2, <1>3, <1>4 DEF Peek, Await

(***************************************************************************)
(* Rotate and Close, but for what run does for them.                       *)
(***************************************************************************)
LEMMA QuietKeeps ==
  ASSUME SequencerInv,
         OfferRotate \/ RotateClosed \/ CloseDone \/ CloseWait \/ UNCHANGED vars
  PROVE  SequencerInv'
<1> USE DEF SequencerInv
<1>1. UNCHANGED <<reqs, resp, runner, file, callers>>
  BY DEF OfferRotate, RotateClosed, CloseDone, CloseWait, vars
<1>2. TypeOK'
  <2>1. done' \in BOOLEAN /\ rot' \in {"idle", "offer"}
        /\ closer' \in {"open", "wait", "closed"}
    BY DEF TypeOK, OfferRotate, RotateClosed, CloseDone, CloseWait, vars
  <2>2. rotates' \in 0 .. MaxRotates
    BY SequencerAssumption DEF TypeOK, OfferRotate, RotateClosed, CloseDone,
       CloseWait, vars, SequencerAssumption
  <2> QED BY <1>1, <2>1, <2>2 DEF TypeOK, runner, file, callers
<1>3. RunShape' /\ LogShape' /\ AnswerShape' /\ FloorShape'
  BY <1>1 DEF RunShape, LogShape, AnswerShape, FloorShape, InFile, File,
     Current, runner, file, callers
<1>4. QueueShape'
  BY <1>1 DEF QueueShape, New, Once, Unsent, runner, file, callers
<1> QED BY <1>2, <1>3, <1>4

-----------------------------------------------------------------------------
(***************************************************************************)
(* Steps of run.  The request at the head of the channel moves to the end  *)
(* of the batch.                                                           *)
(***************************************************************************)
LEMMA HeadMoves ==
  ASSUME SequencerInv, run \in {"select", "collect"}, reqs # <<>>,
         Len(batch) < MaxBatch,
         batch' = Append(batch, Head(reqs)), reqs' = Tail(reqs),
         run' \in {"collect", "commit"},
         UNCHANGED <<resp, done, sent, err, file, callers, rot, rotates, closer>>
  PROVE  SequencerInv'
<1> USE DEF SequencerInv
<1> DEFINE h == Head(reqs)
<1>0. UNCHANGED <<resp, done, sent, err, nextTx, txOf, log, old, call, calls,
                  floor, high, rot, rotates, closer>>
  BY DEF file, callers
<1>1. /\ reqs \in Seq(Request) /\ Len(reqs) \in Nat \ {0}
      /\ batch \in Seq(Request) /\ Len(batch) \in Nat
  BY EmptySeq, LenProperties DEF TypeOK
<1>2. /\ h \in Request /\ h = reqs[1]
      /\ reqs' \in Seq(Request) /\ Len(reqs') = Len(reqs) - 1
      /\ \A i \in 1 .. Len(reqs') : reqs'[i] = reqs[i + 1]
  BY <1>1, HeadTailProperties
<1>3. /\ batch' \in Seq(Request) /\ Len(batch') = Len(batch) + 1
      /\ \A i \in 1 .. Len(batch') :
            batch'[i] = IF i <= Len(batch) THEN batch[i] ELSE h
  <2> HIDE DEF h
  <2>1. batch' = Append(batch, h)
    BY DEF h
  <2>2. /\ batch' \in Seq(Request) /\ Len(batch') = Len(batch) + 1
        /\ \A i \in 1 .. Len(batch) : batch'[i] = batch[i]
        /\ batch'[Len(batch) + 1] = h
    BY <1>1, <1>2, <2>1, AppendProperties
  <2> QED BY <1>1, <2>2
<1> HIDE DEF h
<1>4. sent = 0 /\ (\A j \in 1 .. Len(batch) : New(batch[j]))
  <2>1. CASE run = "select"
    BY <2>1, EmptySeq DEF RunShape
  <2>2. CASE run = "collect"
    BY <2>2 DEF RunShape, QueueShape
  <2> QED BY <2>1, <2>2
<1>5. TypeOK'
  <2>1. Len(reqs') <= Queue /\ Len(batch') <= MaxBatch /\ sent' \in 0 .. Len(batch')
    BY <1>0, <1>1, <1>2, <1>3, <1>4, SequencerAssumption
       DEF TypeOK, SequencerAssumption
  <2> QED BY <1>0, <1>2, <1>3, <2>1 DEF TypeOK
<1>6. RunShape'
  <2>1. batch' # <<>>
    BY <1>1, <1>3, EmptySeq
  <2> QED BY <1>0, <1>4, <2>1 DEF RunShape
<1>7. QueueShape'
  <2>1. New(h) /\ \A j \in 1 .. Len(batch) : batch[j] # h
    BY <1>1, <1>2 DEF QueueShape
  <2>2. \A i \in 1 .. Len(reqs') : i + 1 \in 1 .. Len(reqs) /\ i + 1 # 1
    BY <1>1, <1>2
  <2>3. \A i \in 1 .. Len(reqs') : reqs'[i] # h
    BY <1>1, <1>2, <2>2 DEF QueueShape, Once
  <2>4. Once(reqs')
    <3> SUFFICES ASSUME NEW i \in 1 .. Len(reqs'), NEW j \in 1 .. Len(reqs'),
                        reqs'[i] = reqs'[j]
                 PROVE  i = j
      BY DEF Once
    <3>1. i + 1 = j + 1
      BY <1>2, <2>2 DEF QueueShape, Once
    <3> QED BY <3>1
  <2>5. Once(batch')
    BY <1>1, <1>3, <2>1 DEF QueueShape, Once
  <2>6. \A i \in 1 .. Len(reqs'), j \in 1 .. Len(batch') : reqs'[i] # batch'[j]
    BY <1>1, <1>2, <1>3, <2>2, <2>3 DEF QueueShape
  <2>7. \A i \in 1 .. Len(reqs') :
           txOf'[reqs'[i]] = 0 /\ resp'[reqs'[i]] = "none"
    BY <1>0, <1>2, <2>2 DEF QueueShape, New
  <2>8. \A j \in 1 .. Len(batch') :
           txOf'[batch'[j]] = 0 /\ resp'[batch'[j]] = "none"
    BY <1>0, <1>1, <1>3, <1>4, <2>1 DEF New
  <2>9. \A r \in Request : Unsent(r)' =>
           /\ New(r)'
           /\ \A i \in 1 .. Len(reqs') : reqs'[i] # r
           /\ \A j \in 1 .. Len(batch') : batch'[j] # r
    <3> SUFFICES ASSUME NEW r \in Request, Unsent(r)'
                 PROVE  /\ New(r)'
                        /\ \A i \in 1 .. Len(reqs') : reqs'[i] # r
                        /\ \A j \in 1 .. Len(batch') : batch'[j] # r
      OBVIOUS
    <3>1. Unsent(r)
      BY <1>0 DEF Unsent
    <3>2. /\ New(r)
          /\ \A i \in 1 .. Len(reqs) : reqs[i] # r
          /\ \A j \in 1 .. Len(batch) : batch[j] # r
      BY <3>1 DEF QueueShape
    <3>3. h # r
      BY <1>1, <1>2, <3>2
    <3> QED BY <1>0, <1>1, <1>2, <1>3, <2>2, <3>2, <3>3 DEF New
  <2>10. \A c \in Caller : call'[c] # "idle" => calls'[c] > 0
    BY <1>0 DEF QueueShape
  <2> QED BY <2>4, <2>5, <2>6, <2>7, <2>8, <2>9, <2>10 DEF QueueShape, New
<1>8. LogShape' /\ AnswerShape' /\ FloorShape'
  BY <1>0 DEF LogShape, AnswerShape, FloorShape, InFile, File, Current
<1> QED BY <1>5, <1>6, <1>7, <1>8

(***************************************************************************)
(* The first request of a batch.                                           *)
(***************************************************************************)
LEMMA TakeKeeps ==
  ASSUME SequencerInv, Take
  PROVE  SequencerInv'
<1>1. batch = <<>> /\ Len(batch) = 0
  BY EmptySeq DEF Take, SequencerInv, RunShape
<1>2. Head(reqs) \in Request
  BY HeadTailProperties DEF Take, SequencerInv, TypeOK
<1>3. batch' = Append(batch, Head(reqs))
  BY <1>1, <1>2 DEF Take
<1>4. Len(batch) < MaxBatch
  BY <1>1, SequencerAssumption DEF SequencerAssumption
<1> QED BY <1>3, <1>4, HeadMoves DEF Take

(***************************************************************************)
(* The next ones, or the end of the batch.                                 *)
(***************************************************************************)
LEMMA CollectKeeps ==
  ASSUME SequencerInv, Collect
  PROVE  SequencerInv'
<1>1. CASE run' = "commit" /\ UNCHANGED <<batch, reqs>>
  <2>1. UNCHANGED <<reqs, resp, done, batch, sent, err, nextTx, txOf, log, old,
                    call, calls, floor, high, rot, rotates, closer>>
    BY <1>1 DEF Collect, file, callers
  <2>2. TypeOK' /\ RunShape'
    BY <1>1, <2>1 DEF Collect, SequencerInv, TypeOK, RunShape
  <2>3. QueueShape'
    BY <1>1, <2>1 DEF Collect, SequencerInv, QueueShape, New, Once, Unsent
  <2>4. LogShape' /\ AnswerShape' /\ FloorShape'
    BY <1>1, <2>1 DEF SequencerInv, LogShape, AnswerShape, FloorShape, InFile,
       File, Current
  <2> QED BY <2>2, <2>3, <2>4 DEF SequencerInv
<1>2. CASE /\ reqs # <<>> /\ Len(batch) < MaxBatch
           /\ batch' = Append(batch, Head(reqs))
           /\ reqs' = Tail(reqs)
           /\ UNCHANGED run
  BY <1>2, HeadMoves DEF Collect
<1> QED BY <1>1, <1>2 DEF Collect

(***************************************************************************)
(* The requests of a batch take the TxIDs after nextTx, one each.          *)
(***************************************************************************)
LEMMA BatchNumbered ==
  ASSUME SequencerInv, run = "commit", txOf' = Numbered
  PROVE  /\ txOf' \in [Request -> Nat]
         /\ \A i \in 1 .. Len(batch) : txOf'[batch[i]] = nextTx + i
         /\ \A r \in Request :
               (\A i \in 1 .. Len(batch) : batch[i] # r) => txOf'[r] = txOf[r]
<1> USE DEF SequencerInv
<1>1. /\ DOMAIN batch = 1 .. Len(batch) /\ Len(batch) \in Nat
      /\ \A i \in 1 .. Len(batch) : batch[i] \in Request
  BY LenProperties, ElementOfSeq DEF TypeOK
<1>2. nextTx \in Nat /\ txOf \in [Request -> Nat]
  BY DEF TypeOK
<1>3. \A i \in 1 .. Len(batch) :
         (CHOOSE k \in DOMAIN batch : batch[k] = batch[i]) = i
  <2> TAKE i \in 1 .. Len(batch)
  <2> DEFINE k == CHOOSE k \in DOMAIN batch : batch[k] = batch[i]
  <2>1. k \in 1 .. Len(batch) /\ batch[k] = batch[i]
    BY <1>1
  <2> QED BY <2>1 DEF QueueShape, Once
<1>4. \A r \in Request : r \in ToSet(batch) <=>
                            \E i \in 1 .. Len(batch) : batch[i] = r
  BY <1>1 DEF ToSet
<1>5. \A i \in 1 .. Len(batch) : txOf'[batch[i]] = nextTx + i
  BY <1>1, <1>3, <1>4 DEF Numbered
<1>6. \A r \in Request :
         (\A i \in 1 .. Len(batch) : batch[i] # r) => txOf'[r] = txOf[r]
  BY <1>4 DEF Numbered
<1>7. \A r \in Request : txOf'[r] \in Nat
  <2> TAKE r \in Request
  <2>1. CASE \E i \in 1 .. Len(batch) : batch[i] = r
    BY <2>1, <1>1, <1>2, <1>5
  <2>2. CASE \A i \in 1 .. Len(batch) : batch[i] # r
    BY <2>2, <1>2, <1>6
  <2> QED BY <2>1, <2>2
<1>8. txOf' \in [Request -> Nat]
  <2>1. txOf' = [r \in Request |-> txOf'[r]]
    BY DEF Numbered
  <2> QED BY <2>1, <1>7
<1> QED BY <1>5, <1>6, <1>8

(***************************************************************************)
(* A batch of which the first records, or all of them, were appended.      *)
(***************************************************************************)
LEMMA CommitAppends ==
  ASSUME SequencerInv, Commit
  PROVE  \E s \in Seq(Request) :
            /\ log' = log \o s /\ Len(s) <= Len(batch)
            /\ \A i \in 1 .. Len(s) : s[i] = batch[i]
            /\ ~err' => Len(s) = Len(batch)
<1>1. batch \in Seq(Request) /\ Len(batch) \in Nat
      /\ \A i \in 1 .. Len(batch) : batch[i] \in Request
  BY LenProperties, ElementOfSeq DEF SequencerInv, TypeOK
<1>2. CASE err' = FALSE /\ log' = log \o batch
  BY <1>1, <1>2
<1>3. ASSUME err' = TRUE, NEW n \in 0 .. Len(batch),
             log' = log \o SubSeq(batch, 1, n)
      PROVE  \E s \in Seq(Request) :
                /\ log' = log \o s /\ Len(s) <= Len(batch)
                /\ \A i \in 1 .. Len(s) : s[i] = batch[i]
                /\ ~err' => Len(s) = Len(batch)
  <2> DEFINE s == SubSeq(batch, 1, n)
  <2>1. \A i \in 1 .. n : batch[i] \in Request
    BY <1>1
  <2>2. /\ s \in Seq(Request)
        /\ Len(s) = IF 1 <= n THEN n - 1 + 1 ELSE 0
        /\ \A i \in 1 .. n - 1 + 1 : s[i] = batch[1 + i - 1]
    BY <2>1, <1>1, SubSeqProperties
  <2>3. Len(s) = n /\ \A i \in 1 .. n : s[i] = batch[i]
    <3> HIDE DEF s
    <3>1. n - 1 + 1 = n /\ \A i \in 1 .. n : 1 + i - 1 = i
      BY <1>1
    <3>2. Len(s) = n
      BY <2>2, <1>1
    <3> QED BY <2>2, <3>1, <3>2
  <2>4. log' = log \o s
    BY <1>3
  <2> HIDE DEF s
  <2>5. Len(s) <= Len(batch) /\ \A i \in 1 .. Len(s) : s[i] = batch[i]
    BY <1>1, <2>3
  <2> QED BY <1>3, <2>2, <2>4, <2>5
<1> QED BY <1>2, <1>3 DEF Commit

(***************************************************************************)
(* The batch gets its TxIDs and goes to the log, or the first of it do.    *)
(***************************************************************************)
LEMMA CommitKeeps ==
  ASSUME SequencerInv, Commit
  PROVE  SequencerInv'
<1> USE DEF SequencerInv
<1>0. /\ run = "commit" /\ run' = "deliver" /\ nextTx' = nextTx + Len(batch)
      /\ UNCHANGED <<reqs, resp, done, batch, sent, old, call, calls, floor,
                     high, rot, rotates, closer>>
      /\ err' \in BOOLEAN
  BY DEF Commit, callers
<1>1. /\ Len(batch) \in Nat \ {0} /\ sent = 0 /\ nextTx \in Nat
      /\ \A i \in 1 .. Len(batch) : batch[i] \in Request
      /\ \A i \in 1 .. Len(reqs) : reqs[i] \in Request
  BY <1>0, EmptySeq, ElementOfSeq DEF TypeOK, RunShape
<1>2. \A i \in 1 .. Len(batch) : New(batch[i])
  BY <1>0 DEF QueueShape
<1>3. /\ txOf' \in [Request -> Nat]
      /\ \A i \in 1 .. Len(batch) : txOf'[batch[i]] = nextTx + i
      /\ \A r \in Request :
            (\A i \in 1 .. Len(batch) : batch[i] # r) => txOf'[r] = txOf[r]
  BY <1>0, BatchNumbered DEF Commit
<1>4. PICK s \in Seq(Request) :
         /\ log' = log \o s /\ Len(s) <= Len(batch)
         /\ \A i \in 1 .. Len(s) : s[i] = batch[i]
         /\ ~err' => Len(s) = Len(batch)
  BY CommitAppends
<1>5. /\ log' \in Seq(Request) /\ Len(File) \in Nat /\ Len(s) \in Nat
      /\ Len(File') = Len(File) + Len(s)
      /\ \A i \in 1 .. Len(File') :
            File'[i] = IF i <= Len(File) THEN File[i] ELSE s[i - Len(File)]
      /\ \A i \in 1 .. Len(File) : File[i] \in Request
  <2>1. old \in Seq(Request) /\ log \in Seq(Request)
    BY DEF TypeOK
  <2>2. File \in Seq(Request)
    BY FileSeq
  <2>3. File' = File \o s
    <3>1. File' = old \o (log \o s)
      BY <1>0, <1>4 DEF File
    <3>2. (old \o log) \o s = old \o (log \o s)
      BY <2>1, ConcatAssociative
    <3> QED BY <3>1, <3>2 DEF File
  <2>4. log' \in Seq(Request)
    BY <1>4, <2>1, ConcatProperties
  <2>5. Len(File) \in Nat /\ Len(s) \in Nat
    BY <2>2, LenProperties
  <2>6. /\ Len(File \o s) = Len(File) + Len(s)
        /\ \A i \in 1 .. Len(File) + Len(s) :
              (File \o s)[i] = IF i <= Len(File) THEN File[i] ELSE s[i - Len(File)]
    BY <2>2, ConcatProperties
  <2> QED BY <2>2, <2>3, <2>4, <2>5, <2>6, ElementOfSeq
<1> HIDE DEF File
<1>6. \A i \in 1 .. Len(File) :
         txOf'[File[i]] = txOf[File[i]] /\ txOf[File[i]] \in 1 .. nextTx
  <2> TAKE i \in 1 .. Len(File)
  <2>1. txOf[File[i]] \in 1 .. nextTx
    BY <1>1, <1>5 DEF LogShape, TypeOK
  <2>2. \A j \in 1 .. Len(batch) : batch[j] # File[i]
    BY <2>1, <1>2 DEF New
  <2> QED BY <1>3, <1>5, <2>1, <2>2
<1>7. TypeOK'
  BY <1>0, <1>1, <1>3, <1>5, SMTT(30) DEF TypeOK
<1>8. RunShape'
  BY <1>0, <1>1 DEF RunShape
<1>9. QueueShape'
  <2>1. \A r \in Request : Unsent(r)' => Unsent(r)
    BY <1>0 DEF Unsent
  <2>2. \A r \in Request : Unsent(r)' =>
           /\ txOf'[r] = 0 /\ resp'[r] = "none"
           /\ \A i \in 1 .. Len(reqs) : reqs[i] # r
           /\ \A j \in 1 .. Len(batch) : batch[j] # r
    BY <1>0, <1>3, <2>1 DEF QueueShape, New
  <2>3. \A i \in 1 .. Len(reqs) : txOf'[reqs[i]] = 0 /\ resp'[reqs[i]] = "none"
    BY <1>0, <1>1, <1>3 DEF QueueShape, New
  <2> QED BY <1>0, <2>2, <2>3 DEF QueueShape, New, Once
<1>10. LogShape'
  <2>1. \A r \in Request : txOf'[r] <= nextTx'
    <3> TAKE r \in Request
    <3>1. CASE \E i \in 1 .. Len(batch) : batch[i] = r
      BY <3>1, <1>0, <1>1, <1>3
    <3>2. CASE \A i \in 1 .. Len(batch) : batch[i] # r
      <4>1. txOf'[r] = txOf[r] /\ txOf[r] <= nextTx /\ txOf[r] \in Nat
        BY <3>2, <1>3 DEF LogShape, TypeOK
      <4> QED BY <4>1, <1>0, <1>1
    <3> QED BY <3>1, <3>2
  <2>2. \A i \in 1 .. Len(s) : txOf'[s[i]] = nextTx + i
    <3> TAKE i \in 1 .. Len(s)
    <3>1. s[i] = batch[i] /\ i \in 1 .. Len(batch)
      BY <1>1, <1>4, <1>5
    <3> QED BY <1>3, <3>1
  <2>3. \A i \in 1 .. Len(File') :
           txOf'[File'[i]] = IF i <= Len(File) THEN txOf[File[i]]
                             ELSE nextTx + (i - Len(File))
    BY <1>5, <1>6, <2>2, SMTT(30)
  <2>4. \A i \in 1 .. Len(File') : txOf'[File'[i]] > 0
    BY <1>1, <1>5, <1>6, <2>3, SMTT(30)
  <2>5. ASSUME NEW i \in 1 .. Len(File'), NEW j \in 1 .. Len(File'), i < j
        PROVE  txOf'[File'[i]] < txOf'[File'[j]]
    <3>1. i \in Nat /\ j \in Nat
      BY <1>5
    <3>2. CASE j <= Len(File)
      <4>1. i \in 1 .. Len(File) /\ j \in 1 .. Len(File)
        BY <1>5, <2>5, <3>1, <3>2
      <4>2. txOf[File[i]] < txOf[File[j]]
        BY <2>5, <4>1 DEF LogShape
      <4> QED BY <2>3, <2>5, <4>1, <4>2
    <3>3. CASE i <= Len(File) /\ ~(j <= Len(File))
      <4>1. i \in 1 .. Len(File) /\ j - Len(File) \in Nat \ {0}
        BY <1>5, <3>1, <3>3
      <4>2. txOf[File[i]] \in 1 .. nextTx
        BY <1>6, <4>1
      <4> QED BY <1>1, <2>3, <3>3, <4>1, <4>2
    <3>4. CASE ~(i <= Len(File))
      <4>1. i - Len(File) \in Nat /\ j - Len(File) \in Nat /\ ~(j <= Len(File))
            /\ i - Len(File) < j - Len(File)
        BY <1>5, <2>5, <3>1, <3>4
      <4> QED BY <1>1, <2>3, <3>4, <4>1
    <3> QED BY <3>2, <3>3, <3>4
  <2> QED BY <2>1, <2>4, <2>5 DEF LogShape
<1>11. AnswerShape'
  <2>1. \A r \in Request : InFile(r) => InFile(r)'
    <3> SUFFICES ASSUME NEW r \in Request, NEW i \in 1 .. Len(File), File[i] = r
                 PROVE  InFile(r)'
      BY DEF InFile
    <3>1. i \in 1 .. Len(File') /\ File'[i] = r
      BY <1>5
    <3> QED BY <3>1 DEF InFile
  <2>2. ASSUME ~err', NEW j \in 1 .. Len(batch)
        PROVE  \E i \in 1 .. Len(File') : File'[i] = batch[j]
    <3> DEFINE k == Len(File) + j
    <3>1. j \in 1 .. Len(s) /\ j \in Nat
      BY <1>1, <1>4, <2>2
    <3>2. /\ k \in 1 .. Len(File') /\ ~(k <= Len(File))
          /\ k - Len(File) = j
      BY <1>5, <3>1
    <3>3. k \in 1 .. Len(File') /\ File'[k] = batch[j]
      <4> HIDE DEF k
      <4> QED BY <1>4, <1>5, <3>1, <3>2
    <3> QED BY <3>3
  <2>3. \A r \in Request : resp'[r] = "closed" => txOf'[r] = 0
    BY <1>0, <1>2, <1>3 DEF AnswerShape, New
  <2>4. \A r \in Request : resp'[r] = "ok" => InFile(r)'
    BY <1>0, <2>1 DEF AnswerShape
  <2> QED BY <1>0, <2>2, <2>3, <2>4 DEF AnswerShape, InFile
<1>12. FloorShape'
  <2>1. high' <= nextTx'
    BY <1>0, <1>1 DEF FloorShape, TypeOK
  <2>2. ASSUME NEW c \in Caller, calls[c] > 0, txOf'[Current(c)] # 0
        PROVE  txOf'[Current(c)] > floor[c]
    <3>1. Current(c) \in Request
      BY <2>2, SequencerAssumption DEF Current, Request, TypeOK,
         SequencerAssumption
    <3>2. CASE \E i \in 1 .. Len(batch) : batch[i] = Current(c)
      <4>1. PICK i \in 1 .. Len(batch) : batch[i] = Current(c)
        BY <3>2
      <4>2. txOf'[Current(c)] = nextTx + i /\ i \in Nat \ {0}
        BY <1>1, <1>3, <4>1
      <4>3. high <= nextTx /\ floor[c] <= high /\ floor[c] \in Nat /\ high \in Nat
        BY DEF FloorShape, TypeOK
      <4> QED BY <1>1, <4>2, <4>3
    <3>3. CASE \A i \in 1 .. Len(batch) : batch[i] # Current(c)
      BY <3>1, <3>3, <2>2, <1>3 DEF FloorShape
    <3> QED BY <3>2, <3>3
  <2> QED BY <1>0, <2>1, <2>2 DEF FloorShape, Current
<1> QED BY <1>7, <1>8, <1>9, <1>10, <1>11, <1>12

(***************************************************************************)
(* An ok is put out only when no record of the batch failed.               *)
(***************************************************************************)
LEMMA DeliverKeeps ==
  ASSUME SequencerInv, Deliver
  PROVE  SequencerInv'
<1> USE DEF SequencerInv
<1> DEFINE b == batch[sent + 1]
           a == IF err THEN "failed" ELSE "ok"
<1>0. /\ run = "deliver"
      /\ UNCHANGED <<reqs, done, nextTx, txOf, log, old, call, calls, floor,
                     high, rot, rotates, closer>>
  BY DEF Deliver, file, callers
<1>1. /\ sent + 1 \in 1 .. Len(batch) /\ Len(batch) \in Nat /\ b \in Request
      /\ \A i \in 1 .. Len(batch) : batch[i] \in Request
      /\ \A i \in 1 .. Len(reqs) : reqs[i] \in Request
  <2>1. sent + 1 \in 1 .. Len(batch) /\ Len(batch) \in Nat
    BY <1>0, LenProperties DEF TypeOK, RunShape
  <2> QED BY <2>1, ElementOfSeq DEF TypeOK
<1>2. /\ resp' \in [Request -> Outcome \union {"none"}]
      /\ \A r \in Request : resp'[r] = IF r = b THEN a ELSE resp[r]
  BY <1>1 DEF Deliver, TypeOK, Outcome
<1>3. \/ run' = "select" /\ batch' = <<>> /\ sent' = 0 /\ err' = FALSE
      \/ /\ run' = "deliver" /\ batch' = batch /\ err' = err
         /\ sent' = sent + 1 /\ sent + 1 < Len(batch)
  BY <1>0, <1>1 DEF Deliver
<1>4. /\ \A i \in 1 .. Len(reqs) : reqs[i] # b
      /\ \A r \in Request : Unsent(r) => r # b
  BY <1>1 DEF QueueShape
<1>5. ~err => InFile(b)
  <2>1. ~err => \A j \in 1 .. Len(batch) : InFile(batch[j])
    BY <1>0 DEF AnswerShape
  <2> QED BY <1>1, <2>1
<1> HIDE DEF b
<1>6. TypeOK'
  <2>1. batch' \in Seq(Request) /\ Len(batch') <= MaxBatch
        /\ sent' \in 0 .. Len(batch') /\ err' \in BOOLEAN
        /\ run' \in {"select", "deliver"}
    <3>1. CASE run' = "select" /\ batch' = <<>> /\ sent' = 0 /\ err' = FALSE
      <4>1. batch' \in Seq(Request) /\ Len(batch') = 0
        BY <3>1, EmptySeq
      <4>2. Len(batch') <= MaxBatch /\ sent' \in 0 .. Len(batch')
        <5>1. sent' = 0
          BY <3>1
        <5> QED BY <4>1, <5>1, SequencerAssumption DEF SequencerAssumption
      <4> QED BY <3>1, <4>1, <4>2
    <3>2. CASE /\ run' = "deliver" /\ batch' = batch /\ err' = err
               /\ sent' = sent + 1 /\ sent + 1 < Len(batch)
      BY <1>1, <3>2 DEF TypeOK
    <3> QED BY <1>3, <3>1, <3>2
  <2> QED BY <1>0, <1>2, <2>1 DEF TypeOK
<1>7. RunShape'
  BY <1>3 DEF RunShape
<1>8. QueueShape'
  <2>1. \A r \in Request : Unsent(r)' => Unsent(r)
    BY <1>0 DEF Unsent
  <2>2. /\ \A j \in 1 .. Len(batch') : j \in 1 .. Len(batch) /\ batch'[j] = batch[j]
        /\ Once(batch') /\ run' \notin {"collect", "commit"}
    BY <1>3, EmptySeq DEF QueueShape, Once
  <2>3. \A r \in Request : Unsent(r)' =>
           /\ txOf'[r] = 0 /\ resp'[r] = "none"
           /\ \A i \in 1 .. Len(reqs) : reqs[i] # r
           /\ \A j \in 1 .. Len(batch') : batch'[j] # r
    BY <1>0, <1>2, <1>4, <2>1, <2>2 DEF QueueShape, New
  <2>4. \A i \in 1 .. Len(reqs) : txOf'[reqs[i]] = 0 /\ resp'[reqs[i]] = "none"
    BY <1>0, <1>1, <1>2, <1>4 DEF QueueShape, New
  <2> QED BY <1>0, <2>2, <2>3, <2>4 DEF QueueShape, New, Once
<1>9. LogShape' /\ FloorShape'
  BY <1>0 DEF LogShape, FloorShape, File, Current
<1>10. AnswerShape'
  <2>1. File' = File
    BY <1>0 DEF File
  <2>2. ASSUME NEW r \in Request
        PROVE  /\ resp'[r] = "ok" => InFile(r)
               /\ resp'[r] = "closed" => txOf[r] = 0
    BY <1>2, <1>5 DEF AnswerShape
  <2>3. run' = "deliver" /\ ~err' => \A j \in 1 .. Len(batch') : InFile(batch'[j])
    BY <1>0, <1>3 DEF AnswerShape
  <2> QED BY <1>0, <2>1, <2>2, <2>3 DEF AnswerShape, InFile
<1> QED BY <1>6, <1>7, <1>8, <1>9, <1>10

(***************************************************************************)
(* done is seen between two batches.                                       *)
(***************************************************************************)
LEMMA StopKeeps ==
  ASSUME SequencerInv, Stop
  PROVE  SequencerInv'
<1> USE DEF SequencerInv
<1>1. /\ run = "select" /\ run' = "drain"
      /\ UNCHANGED <<reqs, resp, done, batch, sent, err, nextTx, txOf, log, old,
                     call, calls, floor, high, rot, rotates, closer>>
  BY DEF Stop, file, callers
<1>2. TypeOK' /\ RunShape'
  BY <1>1 DEF TypeOK, RunShape
<1>3. QueueShape'
  BY <1>1 DEF QueueShape, New, Once, Unsent
<1>4. LogShape' /\ AnswerShape' /\ FloorShape'
  BY <1>1 DEF LogShape, AnswerShape, FloorShape, InFile, File, Current
<1> QED BY <1>2, <1>3, <1>4

(***************************************************************************)
(* What is left in the channel has no TxID.                                *)
(***************************************************************************)
LEMMA DrainKeeps ==
  ASSUME SequencerInv, Drain
  PROVE  SequencerInv'
<1> USE DEF SequencerInv
<1>0. /\ run = "drain" /\ run' \in {"drain", "exited"}
      /\ UNCHANGED <<done, batch, sent, err, nextTx, txOf, log, old, call, calls,
                     floor, high, rot, rotates, closer>>
  BY DEF Drain, file, callers
<1>1. RunShape' /\ LogShape' /\ FloorShape'
  BY <1>0 DEF RunShape, LogShape, FloorShape, File, Current
<1>2. CASE UNCHANGED <<reqs, resp>>
  <2>1. TypeOK'
    BY <1>0, <1>2 DEF TypeOK
  <2>2. QueueShape' /\ AnswerShape'
    BY <1>0, <1>2 DEF QueueShape, New, Once, Unsent, AnswerShape, InFile, File
  <2> QED BY <1>1, <2>1, <2>2
<1>3. CASE /\ reqs # <<>>
           /\ resp' = [resp EXCEPT ![Head(reqs)] = "closed"]
           /\ reqs' = Tail(reqs)
  <2> DEFINE h == Head(reqs)
  <2>1. /\ reqs \in Seq(Request) /\ Len(reqs) \in Nat \ {0}
        /\ \A i \in 1 .. Len(reqs) : reqs[i] \in Request
    BY <1>3, EmptySeq, ElementOfSeq DEF TypeOK
  <2>2. /\ h \in Request /\ h = reqs[1]
        /\ reqs' \in Seq(Request) /\ Len(reqs') = Len(reqs) - 1
        /\ \A i \in 1 .. Len(reqs') : reqs'[i] = reqs[i + 1]
    BY <1>3, <2>1, HeadTailProperties
  <2>3. /\ resp' \in [Request -> Outcome \union {"none"}]
        /\ \A r \in Request : resp'[r] = IF r = h THEN "closed" ELSE resp[r]
    BY <1>3, <2>2 DEF TypeOK, Outcome
  <2> HIDE DEF h
  <2>4. \A i \in 1 .. Len(reqs') : i + 1 \in 1 .. Len(reqs) /\ i + 1 # 1
    BY <2>1, <2>2
  <2>5. /\ New(h) /\ \A i \in 1 .. Len(reqs') : reqs'[i] # h
    BY <2>1, <2>2, <2>4 DEF QueueShape, Once
  <2>6. TypeOK'
    <3>1. Len(reqs') <= Queue
      BY <2>1, <2>2, SequencerAssumption DEF TypeOK, SequencerAssumption
    <3> QED BY <1>0, <2>2, <2>3, <3>1 DEF TypeOK
  <2>7. QueueShape'
    <3>1. Once(reqs')
      <4> SUFFICES ASSUME NEW i \in 1 .. Len(reqs'), NEW j \in 1 .. Len(reqs'),
                          reqs'[i] = reqs'[j]
                   PROVE  i = j
        BY DEF Once
      <4>1. i + 1 = j + 1
        BY <2>2, <2>4 DEF QueueShape, Once
      <4>2. i \in Nat /\ j \in Nat
        BY <2>1, <2>2
      <4> QED BY <4>1, <4>2
    <3>2. \A i \in 1 .. Len(reqs') :
             txOf'[reqs'[i]] = 0 /\ resp'[reqs'[i]] = "none"
      <4> TAKE i \in 1 .. Len(reqs')
      <4>1. reqs'[i] = reqs[i + 1] /\ i + 1 \in 1 .. Len(reqs)
        BY <2>2, <2>4
      <4>2. New(reqs'[i]) /\ reqs'[i] \in Request /\ reqs'[i] # h
        BY <2>1, <2>5, <4>1 DEF QueueShape
      <4> QED BY <1>0, <2>3, <4>2 DEF New
    <3>3. \A r \in Request : Unsent(r)' =>
             /\ txOf'[r] = 0 /\ resp'[r] = "none"
             /\ \A i \in 1 .. Len(reqs') : reqs'[i] # r
             /\ \A j \in 1 .. Len(batch) : batch[j] # r
      <4> SUFFICES ASSUME NEW r \in Request, Unsent(r)
                   PROVE  /\ txOf'[r] = 0 /\ resp'[r] = "none"
                          /\ \A i \in 1 .. Len(reqs') : reqs'[i] # r
                          /\ \A j \in 1 .. Len(batch) : batch[j] # r
        BY <1>0 DEF Unsent
      <4>1. /\ New(r) /\ \A i \in 1 .. Len(reqs) : reqs[i] # r
            /\ \A j \in 1 .. Len(batch) : batch[j] # r
        BY DEF QueueShape
      <4>2. r # h
        BY <2>1, <2>2, <4>1
      <4> QED BY <1>0, <2>2, <2>3, <2>4, <4>1, <4>2 DEF New
    <3>4. \A i \in 1 .. Len(reqs'), j \in 1 .. Len(batch) : reqs'[i] # batch[j]
      BY <2>2, <2>4 DEF QueueShape
    <3> QED BY <1>0, <3>1, <3>2, <3>3, <3>4 DEF QueueShape, New, Once
  <2>8. AnswerShape'
    <3>1. \A r \in Request : /\ resp'[r] = "ok" => InFile(r)
                             /\ resp'[r] = "closed" => txOf[r] = 0
      BY <2>3, <2>5 DEF AnswerShape, New
    <3> QED BY <1>0, <3>1 DEF AnswerShape, InFile, File
  <2> QED BY <1>1, <2>6, <2>7, <2>8
<1> QED BY <1>2, <1>3 DEF Drain

(***************************************************************************)
(* A rotation leaves the log as it is, old file and new taken together.    *)
(***************************************************************************)
LEMMA DoRotateKeeps ==
  ASSUME SequencerInv, DoRotate
  PROVE  SequencerInv'
<1> USE DEF SequencerInv
<1>0. UNCHANGED <<reqs, resp, done, run, batch, sent, err, nextTx, txOf, call,
                  calls, floor, high, rotates, closer>> /\ rot' = "idle"
  BY DEF DoRotate, runner, callers
<1>1. old' \in Seq(Request) /\ log' \in Seq(Request) /\ File' = File
  <2>1. old \in Seq(Request) /\ log \in Seq(Request)
    BY DEF TypeOK
  <2>2. CASE UNCHANGED <<old, log>>
    BY <2>1, <2>2 DEF File
  <2>3. CASE old' = old \o log /\ log' = <<>>
    <3>1. old \o log \in Seq(Request) /\ <<>> \in Seq(Request)
      BY <2>1, ConcatProperties
    <3>2. (old \o log) \o <<>> = old \o log
      BY <3>1, ConcatEmptySeq
    <3> QED BY <2>3, <3>1, <3>2 DEF File
  <2> QED BY <2>2, <2>3 DEF DoRotate
<1>2. TypeOK'
  BY <1>0, <1>1 DEF TypeOK
<1>3. RunShape' /\ LogShape' /\ AnswerShape' /\ FloorShape'
  BY <1>0, <1>1 DEF RunShape, LogShape, AnswerShape, FloorShape, InFile, Current
<1>4. QueueShape'
  BY <1>0 DEF QueueShape, New, Once, Unsent
<1> QED BY <1>2, <1>3, <1>4

-----------------------------------------------------------------------------
(***************************************************************************)
(* Every step keeps the invariant.                                         *)
(***************************************************************************)
LEMMA StepKeeps == SequencerInv /\ [Next]_vars => SequencerInv'
<1> SUFFICES ASSUME SequencerInv, [Next]_vars PROVE SequencerInv'
  OBVIOUS
<1>1. ASSUME NEW c \in Caller, Begin(c) \/ Send(c) \/ Peek(c) \/ Await(c)
      PROVE  SequencerInv'
  BY <1>1, BeginKeeps, SendKeeps, WaitKeeps
<1>2. CASE Run
  BY <1>2, TakeKeeps, CollectKeeps, CommitKeeps, DeliverKeeps, StopKeeps,
     DrainKeeps, DoRotateKeeps DEF Run
<1>3. CASE OfferRotate \/ RotateClosed \/ CloseDone \/ CloseWait \/ UNCHANGED vars
  BY <1>3, QuietKeeps
<1> QED BY <1>1, <1>2, <1>3 DEF Next

(***************************************************************************)
(* The invariant of the specification, and its parts that the runs check   *)
(* (sequencer.go, run, collectBatch, commitBatch, drainClosed).            *)
(***************************************************************************)
THEOREM Invariant == Spec => []SequencerInv
<1> QED BY InitHolds, StepKeeps, PTL DEF Spec

(***************************************************************************)
(* The types, and the bounds of the calls, hold of every behaviour.        *)
(***************************************************************************)
THEOREM TypeCorrect == Spec => []TypeOK
<1>1. SequencerInv => TypeOK
  BY DEF SequencerInv
<1> QED BY <1>1, Invariant, PTL

(***************************************************************************)
(* TxIDs increase along the log, whatever fails and whenever it rotates.   *)
(***************************************************************************)
THEOREM LogIsOrdered == Spec => []FileOrdered
<1>1. SequencerInv => FileOrdered
  <2> SUFFICES ASSUME SequencerInv PROVE FileOrdered
    OBVIOUS
  <2>1. DOMAIN File = 1 .. Len(File)
    BY FileSeq, LenProperties DEF SequencerInv
  <2> QED BY <2>1 DEF SequencerInv, LogShape, FileOrdered
<1> QED BY <1>1, Invariant, PTL

(***************************************************************************)
(* A write that began after another was acknowledged has the later TxID.   *)
(***************************************************************************)
THEOREM RealTimeIsKept == Spec => []RealTimeOrder
<1>1. SequencerInv => RealTimeOrder
  BY DEF SequencerInv, FloorShape, RealTimeOrder
<1> QED BY <1>1, Invariant, PTL

(***************************************************************************)
(* Answers tell what became of the write, and no record is in the log      *)
(* twice: its TxIDs are all different.                                     *)
(***************************************************************************)
THEOREM AnswersAreTrue == Spec => []AnswersTrue
<1>1. SequencerInv => AnswersTrue
  <2> SUFFICES ASSUME SequencerInv PROVE AnswersTrue
    OBVIOUS
  <2>1. /\ File \in Seq(Request) /\ Len(File) \in Nat
        /\ DOMAIN File = 1 .. Len(File)
    BY FileSeq, LenProperties DEF SequencerInv
  <2>2. Written = {File[i] : i \in 1 .. Len(File)}
    BY <2>1 DEF Written, ToSet
  <2>3. \A r : r \in Written <=> InFile(r)
    BY <2>2 DEF InFile
  <2>4. \A i \in 1 .. Len(File) : File[i] \in Request /\ txOf[File[i]] > 0
    BY <2>1, ElementOfSeq DEF SequencerInv, LogShape
  <2>5. \A r \in Request : /\ resp[r] = "ok" => r \in Written
                           /\ resp[r] = "closed" => r \notin Written
    BY <2>3, <2>4 DEF SequencerInv, AnswerShape, InFile
  <2>6. \A i, j \in 1 .. Len(File) : File[i] = File[j] => i = j
    <3> SUFFICES ASSUME NEW i \in 1 .. Len(File), NEW j \in 1 .. Len(File),
                        File[i] = File[j]
                 PROVE  i = j
      OBVIOUS
    <3>1. txOf[File[i]] \in Nat /\ txOf[File[j]] \in Nat
      BY <2>4 DEF SequencerInv, TypeOK
    <3>2. ~(i < j) /\ ~(j < i)
      BY <3>1 DEF SequencerInv, LogShape
    <3>3. i \in Int /\ j \in Int
      BY <2>1
    <3> QED BY <3>2, <3>3
  <2>7. Cardinality(Written) = Len(File)
    <3> DEFINE f == [i \in 1 .. Len(File) |-> File[i]]
    <3>1. f \in Bijection(1 .. Len(File), Written)
      BY <2>2, <2>6 DEF Bijection, Injection, Surjection, IsInjective
    <3>2. ExistsBijection(1 .. Len(File), Written)
      BY <3>1 DEF ExistsBijection
    <3> QED BY <2>1, <3>2, FS_CountingElements
  <2> QED BY <2>5, <2>7 DEF AnswersTrue
<1> QED BY <1>1, Invariant, PTL

=============================================================================
