----------------------------- MODULE DurableMap -----------------------------
(***************************************************************************)
(* What the durable core promises, without files, generations, checkpoints *)
(* or boots: a map from keys to the TxID of the record that governs them,  *)
(* and behind it the records written but not yet known to be durable.      *)
(* Records enter in TxID order; a flush commits all of them and may        *)
(* acknowledge some; a crash may commit a prefix and lose the others.      *)
(***************************************************************************)
EXTENDS Log

CONSTANT MaxTx      \* bound: TxIDs assigned in a behaviour

VARIABLES
    committed,  \* the durable map
    pending,    \* records written, not yet durable
    acked       \* records acknowledged to their writers

Init ==
    /\ committed = [k \in Key |-> 0]
    /\ pending = <<>>
    /\ acked = {}

(***************************************************************************)
(* The map after the first n pending records.                              *)
(***************************************************************************)
CommittedUpTo(n) ==
    Replayed([NoGeneration EXCEPT !.db = committed], SubSeq(pending, 1, n))

UsedTx == {committed[k] : k \in Key} \union {pending[i].tx : i \in DOMAIN pending}

Write(t, K) ==
    /\ pending' = Append(pending, [tx |-> t, keys |-> K])
    /\ \A u \in UsedTx : u < t
    /\ UNCHANGED <<committed, acked>>

Flush(S) ==
    /\ pending' = <<>>
    /\ acked' = acked \union S
    /\ committed' = CommittedUpTo(Len(pending))

Crash(n) ==
    /\ pending' = <<>>
    /\ UNCHANGED acked
    /\ committed' = CommittedUpTo(n)

Next ==
    \/ \E t \in 1 .. MaxTx, K \in (SUBSET Key) \ {{}} : Write(t, K)
    \/ \E S \in SUBSET {pending[i] : i \in DOMAIN pending} : Flush(S)
    \/ \E n \in 0 .. Len(pending) : Crash(n)

Spec == Init /\ [][Next]_<<committed, pending, acked>>
=============================================================================
