------------------------------ MODULE Snapshot ------------------------------
(***************************************************************************)
(* mvcc.MappedFile: the mapped data generation readers share.  Readers     *)
(* count themselves in and out of it without a lock; SwapTo installs a new *)
(* one and unmaps the old, or leaves that to its last reader; Close unmaps *)
(* whatever is left.  Each step is one atomic operation of the code, so    *)
(* that every interleaving of them is a behaviour.                         *)
(***************************************************************************)
EXTENDS Integers, FiniteSets

CONSTANTS
    Reader,         \* goroutines that read: request handlers
    MaxSnap,        \* bound: SwapTo calls in a behaviour
    GraceExpires    \* srv.Shutdown may give up on running requests

ASSUME SnapshotAssumption ==
    /\ IsFiniteSet(Reader)
    /\ MaxSnap \in Nat
    /\ GraceExpires \in BOOLEAN

VARIABLES
    current,    \* MappedFile.current: the Snapshot, Nil after Close
    opened,     \* the newest Snapshot opened; they are numbered in order
    refs,       \* Snapshot.refs
    retired,    \* Snapshot.retired, as the set of those where it is true
    unmapped,   \* the Snapshots whose unmap has run
    pc,         \* the step of each reader
    held,       \* the Snapshot in the local variable s of each reader
    swap,       \* the step of SwapTo, serialized by Engine.ckMu
    old,        \* the Snapshot in the local variable old of SwapTo
    closer,     \* the step of Close
    last        \* the Snapshot in the local variable s of Close

shared == <<current, opened, refs, retired, unmapped>>
vars == <<shared, pc, held, swap, old, closer, last>>

Nil == -1
Snap == 0 .. MaxSnap

TypeOK ==
    /\ current \in Snap \union {Nil}
    /\ opened \in Snap
    /\ refs \in [Snap -> Nat]
    /\ retired \subseteq Snap
    /\ unmapped \subseteq Snap
    /\ pc \in [Reader -> {"idle", "count", "check", "hold", "undo", "retry",
                          "out", "outRetry"}]
    /\ held \in [Reader -> Snap]
    /\ swap \in {"idle", "retire", "test"}
    /\ old \in Snap
    /\ closer \in {"open", "unmap", "closed"}
    /\ last \in Snap

(***************************************************************************)
(* Open has mapped the first generation.                                   *)
(***************************************************************************)
Init ==
    /\ current = 0 /\ opened = 0
    /\ refs = [s \in Snap |-> 0]
    /\ retired = {} /\ unmapped = {}
    /\ pc = [r \in Reader |-> "idle"]
    /\ held = [r \in Reader |-> 0]
    /\ swap = "idle" /\ old = 0
    /\ closer = "open" /\ last = 0

-----------------------------------------------------------------------------
(***************************************************************************)
(* Acquire.  No request arrives once the server is shut down.  A nil       *)
(* pointer loaded after Close panics in refs.Add: the request is over.     *)
(***************************************************************************)
Load(r) ==
    /\ pc[r] \in {"idle", "retry"}
    /\ pc[r] = "idle" => closer = "open" \/ GraceExpires
    /\ IF current = Nil
       THEN pc' = [pc EXCEPT ![r] = "idle"] /\ UNCHANGED held
       ELSE pc' = [pc EXCEPT ![r] = "count"] /\ held' = [held EXCEPT ![r] = current]
    /\ UNCHANGED <<shared, swap, old, closer, last>>

\* Mutant: Acquire does not count itself in.
CountNothing(r) ==
    /\ pc[r] = "count"
    /\ pc' = [pc EXCEPT ![r] = "check"]
    /\ UNCHANGED <<shared, held, swap, old, closer, last>>

Count(r) ==
    /\ pc[r] = "count"
    /\ refs' = [refs EXCEPT ![held[r]] = @ + 1]
    /\ pc' = [pc EXCEPT ![r] = "check"]
    /\ UNCHANGED <<current, opened, retired, unmapped, held, swap, old, closer,
                   last>>

\* Mutant: an Acquire that tries again does not count itself out first.
CheckForgets(r) ==
    /\ pc[r] = "check"
    /\ pc' = [pc EXCEPT ![r] = IF current = held[r] THEN "hold" ELSE "retry"]
    /\ UNCHANGED <<shared, held, swap, old, closer, last>>

Check(r) ==
    /\ pc[r] = "check"
    /\ pc' = [pc EXCEPT ![r] = IF current = held[r] THEN "hold" ELSE "undo"]
    /\ UNCHANGED <<shared, held, swap, old, closer, last>>

(***************************************************************************)
(* Release: first the decrement, whose result is all that is kept of refs; *)
(* then, by the reader that brought it to zero, the test of retired and    *)
(* the unmap.  Acquire calls it before it tries again.  The local variable *)
(* is forgotten when its call is over.                                     *)
(***************************************************************************)
Forgotten(r) == [held EXCEPT ![r] = 0]

Drop(r) ==
    /\ pc[r] \in {"hold", "undo"}
    /\ refs' = [refs EXCEPT ![held[r]] = @ - 1]
    /\ pc' = [pc EXCEPT ![r] =
                 IF refs'[held[r]] = 0
                 THEN IF @ = "hold" THEN "out" ELSE "outRetry"
                 ELSE IF @ = "hold" THEN "idle" ELSE "retry"]
    /\ held' = IF pc'[r] \in {"idle", "retry"} THEN Forgotten(r) ELSE held
    /\ UNCHANGED <<current, opened, retired, unmapped, swap, old, closer, last>>

\* Mutant: whoever brings refs to zero unmaps, retired or not.
LastOutAlways(r) ==
    /\ pc[r] \in {"out", "outRetry"}
    /\ unmapped' = unmapped \union {held[r]}
    /\ pc' = [pc EXCEPT ![r] = IF @ = "out" THEN "idle" ELSE "retry"]
    /\ held' = Forgotten(r)
    /\ UNCHANGED <<current, opened, refs, retired, swap, old, closer, last>>

LastOut(r) ==
    /\ pc[r] \in {"out", "outRetry"}
    /\ unmapped' = unmapped \union ({held[r]} \cap retired)
    /\ pc' = [pc EXCEPT ![r] = IF @ = "out" THEN "idle" ELSE "retry"]
    /\ held' = Forgotten(r)
    /\ UNCHANGED <<current, opened, refs, retired, swap, old, closer, last>>

-----------------------------------------------------------------------------
(***************************************************************************)
(* SwapTo: the new generation is mapped and swapped in; the old Snapshot   *)
(* is retired; it is unmapped at once when nobody is counted in.           *)
(***************************************************************************)
Install ==
    /\ swap = "idle"
    /\ opened < MaxSnap
    /\ closer = "open" \/ GraceExpires
    /\ opened' = opened + 1
    /\ current' = opened + 1
    /\ IF current = Nil THEN UNCHANGED <<swap, old>>
                        ELSE swap' = "retire" /\ old' = current
    /\ UNCHANGED <<refs, retired, unmapped, pc, held, closer, last>>

Retire ==
    /\ swap = "retire"
    /\ retired' = retired \union {old}
    /\ swap' = "test"
    /\ UNCHANGED <<current, opened, refs, unmapped, pc, held, old, closer, last>>

\* Mutant: SwapTo leaves the unmapping to the last reader.
TestNothing ==
    /\ swap = "test"
    /\ swap' = "idle" /\ old' = 0
    /\ UNCHANGED <<shared, pc, held, closer, last>>

Test ==
    /\ swap = "test"
    /\ unmapped' = IF refs[old] = 0 THEN unmapped \union {old} ELSE unmapped
    /\ swap' = "idle" /\ old' = 0
    /\ UNCHANGED <<current, opened, refs, retired, pc, held, closer, last>>

(***************************************************************************)
(* Close, called by Engine.Close when the HTTP server is shut down: every  *)
(* request is over then, unless the grace period expired first.            *)
(***************************************************************************)
CloseTake ==
    /\ closer = "open" /\ current # Nil
    /\ \/ GraceExpires
       \/ swap = "idle" /\ \A r \in Reader : pc[r] = "idle"
    /\ last' = current
    /\ current' = Nil
    /\ closer' = "unmap"
    /\ UNCHANGED <<opened, refs, retired, unmapped, pc, held, swap, old>>

CloseUnmap ==
    /\ closer = "unmap"
    /\ retired' = retired \union {last}
    /\ unmapped' = unmapped \union {last}
    /\ closer' = "closed" /\ last' = 0
    /\ UNCHANGED <<current, opened, refs, pc, held, swap, old>>

-----------------------------------------------------------------------------
Leave(r) == Count(r) \/ Check(r) \/ Drop(r) \/ LastOut(r)

Next ==
    \/ \E r \in Reader : Load(r) \/ Leave(r)
    \/ Install \/ Retire \/ Test
    \/ CloseTake \/ CloseUnmap

Spec == Init /\ [][Next]_vars

-----------------------------------------------------------------------------
(***************************************************************************)
(* refs counts the readers between their two atomic operations on it,      *)
(* whatever SwapTo and Close do meanwhile: the count SwapTo tests is never *)
(* that of readers long gone, and never misses one.                        *)
(***************************************************************************)
Holders(s) == {r \in Reader : pc[r] \in {"check", "hold", "undo"} /\ held[r] = s}

RefsCounted == \A s \in Snap : refs[s] = Cardinality(Holders(s))

(***************************************************************************)
(* The generation new readers are given is mapped: only one that was       *)
(* retired, and is current no more, is unmapped, by whichever call notices *)
(* last.                                                                   *)
(***************************************************************************)
CurrentMapped == current \notin unmapped /\ unmapped \subseteq retired

(***************************************************************************)
(* No mapping leaks: a retired Snapshot nobody is counted in is unmapped,  *)
(* or a call that is on its way will do it, whichever of the last reader   *)
(* and SwapTo came first.                                                  *)
(***************************************************************************)
NoLeak ==
    \A s \in retired \ unmapped :
        \/ refs[s] > 0
        \/ \E r \in Reader : pc[r] \in {"out", "outRetry"} /\ held[r] = s
        \/ swap = "test" /\ old = s

(***************************************************************************)
(* "the old one is unmapped only once its last in-flight reader releases   *)
(* it" (snapshot.go:7): no reader that Acquire returned a Snapshot to      *)
(* finds it unmapped.                                                      *)
(***************************************************************************)
NoUseAfterUnmap == \A r \in Reader : pc[r] = "hold" => held[r] \notin unmapped
=============================================================================
