-------------------------------- MODULE Log --------------------------------
(***************************************************************************)
(* The files of a database directory and what replaying a write-ahead log  *)
(* over a data generation makes of them.                                   *)
(*                                                                         *)
(* A record carries its TxID and the keys it writes: one key for a single  *)
(* mutation, several for a batch, whose sub-mutations all carry the TxID   *)
(* of the record.  A database is abstracted to the TxID of the record that *)
(* governs each key (0: none does).  What a reader sees of a key, a value  *)
(* or its absence after a delete, is a function of the governing record.   *)
(***************************************************************************)
EXTENDS Naturals, Sequences, FiniteSetsExt

CONSTANT Key            \* the encoded keys: objects and class definitions

(***************************************************************************)
(* One framed WAL record (wal/writer.go, wal/record.go).                   *)
(***************************************************************************)
Record == [tx : Nat \ {0}, keys : (SUBSET Key) \ {{}}]

(***************************************************************************)
(* A log file.  recs is what wal.Reader returns before io.EOF or           *)
(* ErrCorrupt; junk says that bytes follow which it cannot read, a torn    *)
(* record: whatever is appended behind them is never read.                 *)
(***************************************************************************)
LogFile == [there : BOOLEAN, recs : Seq(Record), junk : BOOLEAN]

NoLog == [there |-> FALSE, recs |-> <<>>, junk |-> FALSE]
EmptyLog == [there |-> TRUE, recs |-> <<>>, junk |-> FALSE]

(***************************************************************************)
(* A data file data.<gen>: its content and Meta.LastAppliedTxID.           *)
(***************************************************************************)
Generation == [there : BOOLEAN, db : [Key -> Nat], applied : Nat]

NoGeneration == [there |-> FALSE, db |-> [k \in Key |-> 0], applied |-> 0]
EmptyGeneration == [NoGeneration EXCEPT !.there = TRUE]

(***************************************************************************)
(* The records that write k, those at or below the TxID above (already in  *)
(* the base) skipped; of these the last in log order governs k.            *)
(***************************************************************************)
Writers(recs, k, above) ==
    {i \in DOMAIN recs : recs[i].tx > above /\ k \in recs[i].keys}

Replayed(base, recs) ==
    [k \in Key |-> LET W == Writers(recs, k, base.applied)
                   IN  IF W = {} THEN base.db[k] ELSE recs[Max(W)].tx]

(***************************************************************************)
(* The highest TxID seen while reading a log, floor included.              *)
(***************************************************************************)
Highest(floor, recs) == Max({floor} \union {recs[i].tx : i \in DOMAIN recs})

\* Mutant: the new generation keeps the LastAppliedTxID of the old one.
FoldKeepsApplied(base, recs) ==
    [there   |-> TRUE,
     db      |-> Replayed(base, recs),
     applied |-> base.applied]

(***************************************************************************)
(* The generation BuildGeneration makes of base and a retired log.         *)
(***************************************************************************)
Fold(base, recs) ==
    [there   |-> TRUE,
     db      |-> Replayed(base, recs),
     applied |-> Highest(base.applied, recs)]

(***************************************************************************)
(* An append: behind junk the record is in the file but never read.        *)
(***************************************************************************)
Appended(log, r) ==
    IF log.junk THEN log ELSE [log EXCEPT !.recs = Append(@, r)]

Increasing(recs) ==
    \A i, j \in DOMAIN recs : i < j => recs[i].tx < recs[j].tx
=============================================================================
