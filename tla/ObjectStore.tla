----------------------------- MODULE ObjectStore -----------------------------
(***************************************************************************)
(* What the engine promises its clients: classes and objects in one map,   *)
(* each request that changes it a single step.  Overlay, snapshots, logs,  *)
(* checkpoints and restarts are not seen.                                  *)
(*                                                                         *)
(* A write stores its version, later than every version before it; 0 is    *)
(* the absence of a class or an object.                                    *)
(***************************************************************************)
EXTENDS Naturals

CONSTANTS
    Class,      \* the classes, each with its project
    Id          \* object ids

VARIABLES
    content,    \* the version of every class and object
    version     \* the last version given out

Object == Class \X Id
Key == Class \union Object

Exists(k) == content[k] # 0

Init ==
    /\ content = [k \in Key |-> 0]
    /\ version = 0

Store(K, value) ==
    content' = [k \in Key |-> IF k \in K THEN value ELSE content[k]]

CreateClass(c) == ~Exists(c) /\ Store({c}, version + 1)

\* "DropClass removes an empty class" (engine.go:306).
DropClass(c) ==
    /\ Exists(c)
    /\ \A i \in Id : ~Exists(<<c, i>>)
    /\ Store({c}, 0)

\* One object, or several in bulk, under ids that no object has.
Create(c, ids) ==
    /\ Exists(c) /\ ids # {}
    /\ \A i \in ids : ~Exists(<<c, i>>)
    /\ Store({c} \X ids, version + 1)

\* "PutObject replaces an existing object" (engine.go:396).
Put(c, i) ==
    /\ Exists(c) /\ Exists(<<c, i>>)
    /\ Store({<<c, i>>}, version + 1)

Delete(c, i) ==
    /\ Exists(c) /\ Exists(<<c, i>>)
    /\ Store({<<c, i>>}, 0)

Next ==
    /\ version' = version + 1
    /\ \E c \in Class :
          \/ CreateClass(c) \/ DropClass(c)
          \/ \E ids \in SUBSET Id : Create(c, ids)
          \/ \E i \in Id : Put(c, i) \/ Delete(c, i)

Spec == Init /\ [][Next]_<<content, version>>
=============================================================================
