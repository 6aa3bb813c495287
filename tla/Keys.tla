-------------------------------- MODULE Keys --------------------------------
(***************************************************************************)
(* The keys of the B+tree (wal/record.go): byte sequences that put class   *)
(* definitions before objects, the objects of a class side by side and in  *)
(* the order of their ids.  A byte is a number below Base (256 in the      *)
(* code), an id takes IdBytes bytes (8 in the code), names have no 0.      *)
(***************************************************************************)
EXTENDS Integers, Sequences, SequencesExt

CONSTANTS Base,     \* how many values a byte has
          IdBytes   \* bytes of an encoded id

ASSUME KeysAssumption == Base \in Nat \ {0, 1, 2} /\ IdBytes \in Nat \ {0}

nsClass == 1
nsObject == 2
keySep == 0

\* The order of the tree: the first byte that differs decides, and a prefix is
\* before what extends it.
Less(a, b) ==
  \/ \E i \in DOMAIN a \cap DOMAIN b :
       a[i] < b[i] /\ \A j \in 1..(i - 1) : a[j] = b[j]
  \/ Len(a) < Len(b) /\ \A j \in DOMAIN a : a[j] = b[j]

\* Mutant: the project is not separated from the class.
ScopeUnseparated(project) == project

\* The default project has no scope, so that its keys keep their old layout.
Scope(project) == IF project = <<>> THEN <<>> ELSE project \o <<keySep>>

ClassKey(project, class) == <<nsClass>> \o Scope(project) \o class

ObjectPrefix(project, class) ==
  <<nsObject>> \o Scope(project) \o class \o <<keySep>>

\* id without its last n bytes.
Shifted(id) ==
  LET shifted[n \in 0..IdBytes] ==
        IF n = 0 THEN id ELSE shifted[n - 1] \div Base
  IN  shifted

BigEndian(id) == [i \in 1..IdBytes |-> Shifted(id)[IdBytes - i] % Base]

ObjectKey(project, class, id) == ObjectPrefix(project, class) \o BigEndian(id)

Value(bytes) ==
  LET value[n \in 0..Len(bytes)] ==
        IF n = 0 THEN 0 ELSE value[n - 1] * Base + bytes[n]
  IN  value[Len(bytes)]

\* Project and class of a key's body: the first separator ends the project.
SplitScope(body) ==
  LET at == SelectInSeq(body, LAMBDA b : b = keySep)
  IN  IF at = 0
      THEN [project |-> <<>>, class |-> body]
      ELSE [project |-> SubSeq(body, 1, at - 1),
            class |-> SubSeq(body, at + 1, Len(body))]

IsClassKey(key) == Len(key) >= 1 /\ key[1] = nsClass

DecodeClassKey(key) == SplitScope(Tail(key))

IsObjectKey(key) ==
  /\ Len(key) >= 2 + IdBytes
  /\ key[1] = nsObject
  /\ key[Len(key) - IdBytes] = keySep

DecodeObjectKey(key) ==
  LET sepPos == Len(key) - IdBytes
      scope == SplitScope(SubSeq(key, 2, sepPos - 1))
  IN  [project |-> scope.project, class |-> scope.class,
       id |-> Value(SubSeq(key, sepPos + 1, Len(key)))]

\* The smallest key above all that start with prefix; <<>> when there is none.
PrefixUpper(prefix) ==
  LET at == SelectLastInSeq(prefix, LAMBDA b : b # Base - 1)
  IN  IF at = 0
      THEN <<>>
      ELSE Append(SubSeq(prefix, 1, at - 1), prefix[at] + 1)

------------------------------------------------------------------------------
\* What validName and validProject let through, and an id that fits its bytes.
Names == Seq(1..(Base - 1)) \ {<<>>}
Projects == Seq(1..(Base - 1))
Ids == {i \in Nat : Shifted(i)[IdBytes] = 0}
=============================================================================
