-------------------------------- MODULE BTree --------------------------------
(***************************************************************************)
(* The copy-on-write B+tree of a generation (btree/*.go) in its page file  *)
(* (page/pager.go), and the merge of a checkpoint that builds the next     *)
(* generation from it (checkpoint.go).  Insert and Delete write new pages  *)
(* from the leaf up to a new root; mergeBuild streams the old tree and the *)
(* log's net changes, both in key order, into a Builder.                   *)
(*                                                                         *)
(* A page is the node its body decodes to, "damaged" when it was never     *)
(* written or its body was cut off.  Ids are given out one by one and      *)
(* pages written in that order, so a file is a sequence of pages (page 0,  *)
(* the meta page, is the variable root).  Sizes are those of the code's    *)
(* encoding, in bytes.                                                     *)
(***************************************************************************)
EXTENDS Keys, FiniteSets, FiniteSetsExt, Functions

CONSTANTS Objects,       \* records of project, class and id
          Values,        \* records with a field len, their length in bytes
          Batches,       \* what logs may change: partial functions from keys
          Deleted,       \* in a batch: the key is deleted
          BodySize,      \* bytes of a page's body
          MaxInline,     \* the longest value stored in a leaf
          MaxOps,        \* bound: inserts and deletes of a behaviour
          MaxBuilds      \* bound: generations of a behaviour

ASSUME BTreeAssumption ==
  /\ BodySize \in Nat /\ BodySize > 12
  /\ MaxInline \in Nat /\ MaxOps \in Nat /\ MaxBuilds \in Nat
  /\ \A v \in Values : v.len \in Nat
  /\ Deleted \notin Values
  /\ Objects \subseteq [project : Projects, class : Names, id : Ids]

VARIABLES pages,     \* the data file
          root,      \* Tree.root
          content,   \* history: what the tree should hold
          captured,  \* history: the roots of this file and what they held
          ops,       \* inserts and deletes so far
          builds     \* generations built

vars == <<pages, root, content, captured, ops, builds>>

ClassOf(o) == [project |-> o.project, class |-> o.class]
Classes == {ClassOf(o) : o \in Objects}
KeyOfClass(c) == ClassKey(c.project, c.class)
KeyOfObject(o) == ObjectKey(o.project, o.class, o.id)
TreeKeys ==
  {KeyOfClass(c) : c \in Classes} \cup {KeyOfObject(o) : o \in Objects}

\* A log has finitely many records, so that it changes finitely many keys.
ASSUME BatchAssumption ==
  \A deltas \in Batches :
    /\ DOMAIN deltas \subseteq TreeKeys /\ IsFiniteSet(DOMAIN deltas)
    /\ \A k \in DOMAIN deltas : deltas[k] \in Values \cup {Deleted}

InvalidPageID == -1
NoValue == [id |-> 0, len |-> 0]
overflowHeader == 12

Leaf(entries) == [kind |-> "leaf", entries |-> entries]
Internal(keys, children) ==
  [kind |-> "internal", keys |-> keys, children |-> children]
Damaged == [kind |-> "damaged"]

ChildSize(key) == 2 + Len(key) + 8

\* An entry, its value inline or in a chain, is far smaller than a page, and so
\* is a child with its separator (names are short, maxInline is an eighth of a
\* page).
ASSUME SizeAssumption ==
  \A k \in TreeKeys :
    /\ 2 + (2 + Len(k) + 1 + 4 + MaxInline) <= BodySize
    /\ 2 + (2 + Len(k) + 1 + 16) <= BodySize
    /\ 2 + 8 + ChildSize(k) <= BodySize

Total(sizes) ==
  LET total[i \in 0..Len(sizes)] ==
        IF i = 0 THEN 0 ELSE total[i - 1] + sizes[i]
  IN  total[Len(sizes)]

------------------------------------------------------------------------------
(* Values and nodes in pages *)

\* How many overflow pages a value takes; an empty one takes one as well.
Parts(v) ==
  LET chunk == BodySize - overflowHeader
  IN  IF v.len = 0 THEN 1 ELSE (v.len + chunk - 1) \div chunk

\* The chain of pages a large value spills into, when it starts at page head.
Overflow(v, head) ==
  [i \in 1..Parts(v) |->
     [kind |-> "overflow", chunk |-> <<v, i>>,
      next |-> IF i < Parts(v) THEN head + i ELSE InvalidPageID]]

\* makeLeafEntry: the entry of key and value, and the file with its chain.
MakeEntry(file, key, v) ==
  IF v.len <= MaxInline
  THEN [pages |-> file,
        entry |-> [key |-> key, inline |-> v, head |-> InvalidPageID]]
  ELSE [pages |-> file \o Overflow(v, Len(file) + 1),
        entry |-> [key |-> key, inline |-> NoValue, head |-> Len(file) + 1]]

\* The pages readOverflow comes to from head on, until there is no next one.
Chain(file, head) ==
  LET at[n \in 0..Len(file)] ==
        IF n = 0 THEN head
        ELSE IF at[n - 1] = InvalidPageID THEN InvalidPageID
        ELSE file[at[n - 1]].next
      end == CHOOSE n \in 0..Len(file) :
               at[n] = InvalidPageID /\ \A m \in 0..(n - 1) : at[m] # InvalidPageID
  IN  [n \in 1..end |-> at[n - 1]]

\* The value of an entry; NoValue when its chain is not that of a value.
Materialize(file, e) ==
  LET chain == Chain(file, e.head)
      v == file[chain[1]].chunk[1]
  IN  IF e.head = InvalidPageID
      THEN e.inline
      ELSE IF [i \in DOMAIN chain |-> file[chain[i]].chunk] =
              [i \in 1..Parts(v) |-> <<v, i>>]
      THEN v
      ELSE NoValue

EntrySize(e) ==
  2 + Len(e.key) + 1
  + (IF e.head = InvalidPageID THEN 4 + e.inline.len ELSE 16)

EncodedSize(n) ==
  IF n.kind = "leaf"
  THEN 2 + Total([i \in DOMAIN n.entries |-> EntrySize(n.entries[i])])
  ELSE 2 + 8 + Total([i \in DOMAIN n.keys |-> ChildSize(n.keys[i])])

Fits(n) == EncodedSize(n) <= BodySize

\* What a page holds once the node is copied into its body.
Stored(n) == IF Fits(n) THEN n ELSE Damaged

------------------------------------------------------------------------------
(* Lookup *)

\* The first entry not below key, or the place behind the last one.
LeafSearch(entries, key) ==
  LET at == SelectInSeq(entries, LAMBDA e : ~Less(e.key, key))
  IN  IF at = 0 THEN Len(entries) + 1 ELSE at

Found(entries, key) ==
  LET at == LeafSearch(entries, key)
  IN  at <= Len(entries) /\ entries[at].key = key

\* Mutant: a separator is covered by the child on its left.
ChildIndexLeft(n, key) ==
  LET at == SelectInSeq(n.keys, LAMBDA sep : ~Less(sep, key))
  IN  IF at = 0 THEN Len(n.children) ELSE at

\* The child that covers key: the first whose upper separator is above it.
ChildIndex(n, key) ==
  LET at == SelectInSeq(n.keys, LAMBDA sep : Less(key, sep))
  IN  IF at = 0 THEN Len(n.children) ELSE at

\* The pages from id down to the leaf that may hold key.
Path(file, id, key) ==
  LET down[p \in DOMAIN file] ==
        LET n == file[p]
        IN  IF n.kind = "internal"
            THEN <<p>> \o down[n.children[ChildIndex(n, key)]]
            ELSE <<p>>
  IN  down[id]

LeafOf(file, id, key) == file[Last(Path(file, id, key))]

Get(file, id, key) ==
  LET leaf == LeafOf(file, id, key)
  IN  IF id = InvalidPageID \/ leaf = Damaged \/ ~Found(leaf.entries, key)
      THEN NoValue
      ELSE Materialize(file, leaf.entries[LeafSearch(leaf.entries, key)])

\* Whether the range of the i-th child of n meets [lo, hi).
Meets(n, i, lo, hi) ==
  /\ ~(i <= Len(n.keys) /\ lo # <<>> /\ ~Less(lo, n.keys[i]))
  /\ ~(i > 1 /\ hi # <<>> /\ ~Less(n.keys[i - 1], hi))

Within(key, lo, hi) == ~Less(key, lo) /\ (hi = <<>> \/ Less(key, hi))

\* The pairs of a leaf that are within the bounds.
Hits(file, n, lo, hi) ==
  FlattenSeq([i \in DOMAIN n.entries |->
    LET e == n.entries[i]
    IN  IF Within(e.key, lo, hi)
        THEN <<[key |-> e.key, val |-> Materialize(file, e)]>>
        ELSE <<>>])

Walk(file, id, lo, hi) ==
  LET walk[p \in DOMAIN file] ==
        LET n == file[p]
        IN  IF n.kind = "internal"
            THEN FlattenSeq([i \in DOMAIN n.children |->
                   IF Meets(n, i, lo, hi) THEN walk[n.children[i]] ELSE <<>>])
            ELSE IF n.kind = "leaf" THEN Hits(file, n, lo, hi) ELSE <<>>
  IN  walk[id]

\* Keys and values of a tree whose keys start with prefix, in key order.
Scan(file, id, prefix) ==
  IF id = InvalidPageID
  THEN <<>>
  ELSE Walk(file, id, prefix, PrefixUpper(prefix))

\* The pages of a tree, with the chains of its values.
Nodes(file, id) ==
  LET nodes[p \in DOMAIN file] ==
        {p} \cup (IF file[p].kind = "internal"
                  THEN UNION {nodes[c] : c \in ToSet(file[p].children)}
                  ELSE {})
  IN  nodes[id]

OwnEntries(n) == IF n.kind = "leaf" THEN ToSet(n.entries) ELSE {}
Entries(file, id) == UNION {OwnEntries(file[p]) : p \in Nodes(file, id)}

Reachable(file, id) ==
  IF id = InvalidPageID
  THEN {}
  ELSE Nodes(file, id)
       \cup UNION {ToSet(Chain(file, e.head)) :
                     e \in {x \in Entries(file, id) : x.head # InvalidPageID}}

\* No page of a tree was cut off, or never written.
Whole(file, id) == \A p \in Reachable(file, id) : file[p] # Damaged

------------------------------------------------------------------------------
(* Insert *)

SplitLeaf(n) ==
  LET half == Len(n.entries) \div 2
      mid == IF half = 0 THEN 1 ELSE half
  IN  [left |-> Leaf(SubSeq(n.entries, 1, mid)),
       right |-> Leaf(SubSeq(n.entries, mid + 1, Len(n.entries))),
       sep |-> n.entries[mid + 1].key]

\* The separator in the middle moves up, it is in neither half.
SplitInternal(n) ==
  LET mid == Len(n.keys) \div 2
  IN  [left |-> Internal(SubSeq(n.keys, 1, mid),
                         SubSeq(n.children, 1, mid + 1)),
       right |-> Internal(SubSeq(n.keys, mid + 2, Len(n.keys)),
                          SubSeq(n.children, mid + 2, Len(n.children))),
       sep |-> n.keys[mid + 1]]

\* The node written, in one page or two: sep and right are for its parent.
WriteMaybeSplit(file, n) ==
  LET halves == IF n.kind = "leaf" THEN SplitLeaf(n) ELSE SplitInternal(n)
  IN  IF Fits(n)
      THEN [pages |-> Append(file, n), id |-> Len(file) + 1,
            sep |-> <<>>, right |-> InvalidPageID]
      ELSE [pages |-> file \o <<Stored(halves.left), Stored(halves.right)>>,
            id |-> Len(file) + 1, sep |-> halves.sep, right |-> Len(file) + 2]

\* A leaf with an entry of its key, in place of the one it may have.
WithEntry(n, e) ==
  LET at == LeafSearch(n.entries, e.key)
      rest == IF Found(n.entries, e.key) THEN at + 1 ELSE at
  IN  Leaf(SubSeq(n.entries, 1, at - 1) \o <<e>>
             \o SubSeq(n.entries, rest, Len(n.entries)))

\* Mutant: the parent is not told where the halves of a split child part.
WithChildAlone(n, key, below) ==
  LET ci == ChildIndex(n, key)
      children == ReplaceAt(n.children, ci, below.id)
  IN  Internal(n.keys, IF below.right = InvalidPageID THEN children
                       ELSE InsertAt(children, ci + 1, below.right))

\* A node whose child for key was written anew, in one page or two.
WithChild(n, key, below) ==
  LET ci == ChildIndex(n, key)
      children == ReplaceAt(n.children, ci, below.id)
  IN  IF below.right = InvalidPageID
      THEN Internal(n.keys, children)
      ELSE Internal(InsertAt(n.keys, ci, below.sep),
                    InsertAt(children, ci + 1, below.right))

\* Tree.insert: what comes of each page of the path, the leaf's first.
InsertUp(file, path, made) ==
  LET up[i \in 1..Len(path)] ==
        LET n == file[path[Len(path) + 1 - i]]
            below == up[i - 1]
        IN  IF i = 1
            THEN WriteMaybeSplit(made.pages, WithEntry(n, made.entry))
            ELSE WriteMaybeSplit(below.pages,
                                 WithChild(n, made.entry.key, below))
  IN  up[Len(path)]

\* Tree.Insert: the file and the root it ends with.
Inserted(file, id, key, v) ==
  LET made == MakeEntry(file, key, v)
      top == InsertUp(file, Path(file, id, key), made)
  IN  IF id = InvalidPageID
      THEN [pages |-> Append(made.pages, Stored(Leaf(<<made.entry>>))),
            root |-> Len(made.pages) + 1]
      ELSE IF top.right = InvalidPageID
      THEN [pages |-> top.pages, root |-> top.id]
      ELSE [pages |-> Append(top.pages,
                             Stored(Internal(<<top.sep>>,
                                             <<top.id, top.right>>))),
            root |-> Len(top.pages) + 1]

------------------------------------------------------------------------------
(* Delete *)

\* Mutant: the entry is removed from its leaf in place.
RemovedInPlace(file, id, key) ==
  [pages |-> [p \in DOMAIN file |->
                IF id # InvalidPageID /\ p = Last(Path(file, id, key)) /\ file[p].kind = "leaf"
                THEN Leaf(SelectSeq(file[p].entries, LAMBDA e : e.key # key))
                ELSE file[p]],
   root |-> id]

\* Tree.Delete: a key that is not there leaves every page as it is, the root
\* too; else each page of the path is written anew, the leaf first.
Removed(file, id, key) ==
  LET path == Path(file, id, key)
      entries == LeafOf(file, id, key).entries
      rewritten(i) ==
        LET n == file[path[Len(path) + 1 - i]]
        IN  IF i = 1
            THEN Leaf(RemoveAt(entries, LeafSearch(entries, key)))
            ELSE Internal(n.keys, ReplaceAt(n.children, ChildIndex(n, key),
                                            Len(file) + i - 1))
  IN  IF id = InvalidPageID \/ ~Found(entries, key)
      THEN [pages |-> file, root |-> id]
      ELSE [pages |-> file \o [i \in 1..Len(path) |-> rewritten(i)],
            root |-> Len(file) + Len(path)]

------------------------------------------------------------------------------
(* The bulk builder: b holds the file, the leaf being filled, and the leaves *)
(* written, as records of their first key and their page.                    *)

FlushLeaf(b) ==
  IF b.leaf = <<>>
  THEN b
  ELSE [pages |-> Append(b.pages, Stored(Leaf(b.leaf))),
        leaf |-> <<>>,
        leaves |-> Append(b.leaves, [first |-> b.leaf[1].key,
                                     page |-> Len(b.pages) + 1])]

\* Mutant: the leaf is flushed only when it is too large already.
AddEntryLate(b, pair) ==
  LET made == MakeEntry(b.pages, pair.key, pair.val)
      spilled == [b EXCEPT !.pages = made.pages]
      ready == IF Fits(Leaf(b.leaf)) THEN spilled ELSE FlushLeaf(spilled)
  IN  [ready EXCEPT !.leaf = Append(@, made.entry)]

\* Mutant: the entry is made again, with its chain, after a flush.
AddEntryTwice(b, pair) ==
  LET made == MakeEntry(b.pages, pair.key, pair.val)
      full == b.leaf # <<>> /\ ~Fits(Leaf(Append(b.leaf, made.entry)))
      ready == IF full THEN FlushLeaf([b EXCEPT !.pages = made.pages]) ELSE b
      again == MakeEntry(ready.pages, pair.key, pair.val)
  IN  [ready EXCEPT !.pages = again.pages, !.leaf = Append(@, again.entry)]

\* Builder.Add: the value's chain is written before the leaf is flushed.
AddEntry(b, pair) ==
  LET made == MakeEntry(b.pages, pair.key, pair.val)
      spilled == [b EXCEPT !.pages = made.pages]
      full == b.leaf # <<>> /\ ~Fits(Leaf(Append(b.leaf, made.entry)))
      ready == IF full THEN FlushLeaf(spilled) ELSE spilled
  IN  [ready EXCEPT !.leaf = Append(@, made.entry)]

\* The leaves of a new file with the given pairs.
Leaves(pairs) ==
  LET added[i \in 0..Len(pairs)] ==
        IF i = 0
        THEN [pages |-> <<>>, leaf |-> <<>>, leaves |-> <<>>]
        ELSE AddEntry(added[i - 1], pairs[i])
  IN  FlushLeaf(added[Len(pairs)])

Parent(group) ==
  Internal([i \in 1..(Len(group) - 1) |-> group[i + 1].first],
           [i \in DOMAIN group |-> group[i].page])

FlushParent(b) ==
  [pages |-> Append(b.pages, Stored(Parent(b.group))),
   group |-> <<>>,
   level |-> Append(b.level, [first |-> b.group[1].first,
                              page |-> Len(b.pages) + 1])]

\* A parent takes its next child if there is room, and two in any case.
AddChild(b, child) ==
  LET room == \/ Len(b.group) < 2
              \/ Fits(Parent(Append(b.group, child)))
      ready == IF room THEN b ELSE FlushParent(b)
  IN  [ready EXCEPT !.group = Append(@, child)]

\* buildInternalLevel: the parents of the children of one level.
Raised(file, level) ==
  LET added[i \in 0..Len(level)] ==
        IF i = 0
        THEN [pages |-> file, group |-> <<>>, level |-> <<>>]
        ELSE AddChild(added[i - 1], level[i])
  IN  FlushParent(added[Len(level)])

\* Builder.Finish: level upon level, until one page is left.
Built(pairs) ==
  LET b == Leaves(pairs)
      up[n \in 0..Len(b.leaves)] ==
        LET below == up[n - 1]
        IN  IF n = 0 THEN [pages |-> b.pages, level |-> b.leaves]
            ELSE IF Len(below.level) = 1 THEN below
            ELSE LET raised == Raised(below.pages, below.level)
                 IN  [pages |-> raised.pages, level |-> raised.level]
      top == up[Len(b.leaves)]
  IN  IF b.leaves = <<>>
      THEN [pages |-> b.pages, root |-> InvalidPageID]
      ELSE [pages |-> top.pages, root |-> top.level[1].page]

\* Builder.Add refuses a key that is not above the one before it.
Ascending(pairs) ==
  \A i \in 1..(Len(pairs) - 1) : Less(pairs[i].key, pairs[i + 1].key)

------------------------------------------------------------------------------
(* The merge of a checkpoint: m holds what was added, the place in the base, *)
(* and the keys of the log's changes not merged yet, taken in their order.   *)

Lowest(keys) == CHOOSE k \in keys : \A j \in keys : j = k \/ Less(k, j)

\* What the change of a key adds to the new tree.
Kept(deltas, k) ==
  IF deltas[k] = Deleted THEN <<>> ELSE <<[key |-> k, val |-> deltas[k]]>>

\* Mutant: a change does not replace the base's pair of its key.
MergeStepBoth(base, deltas, m) ==
  LET change == Lowest(m.left)
      pair == base[m.next]
      fromLog == m.left # {} /\ (m.next > Len(base) \/ ~Less(pair.key, change))
      fromBase == m.next <= Len(base) /\ ~fromLog
  IN  [out |-> m.out \o (IF fromLog THEN Kept(deltas, change)
                         ELSE IF fromBase THEN <<pair>> ELSE <<>>),
       left |-> IF fromLog THEN m.left \ {change} ELSE m.left,
       next |-> IF fromBase THEN m.next + 1 ELSE m.next]

\* The next key is the log's, the base's, or both: then the change counts.
MergeStep(base, deltas, m) ==
  LET change == Lowest(m.left)
      pair == base[m.next]
      fromLog == m.left # {} /\ (m.next > Len(base) \/ ~Less(pair.key, change))
      fromBase == m.next <= Len(base) /\ (m.left = {} \/ ~Less(change, pair.key))
  IN  [out |-> m.out \o (IF fromLog THEN Kept(deltas, change)
                         ELSE IF fromBase THEN <<pair>> ELSE <<>>),
       left |-> IF fromLog THEN m.left \ {change} ELSE m.left,
       next |-> IF fromBase THEN m.next + 1 ELSE m.next]

\* mergeBuild: what it adds to the builder, in this order.
Merged(base, deltas) ==
  LET steps == Len(base) + Cardinality(DOMAIN deltas)
      merged[n \in 0..steps] ==
        IF n = 0
        THEN [out |-> <<>>, left |-> DOMAIN deltas, next |-> 1]
        ELSE MergeStep(base, deltas, merged[n - 1])
  IN  merged[steps].out

------------------------------------------------------------------------------
(* The file and its tree *)

Init ==
  /\ pages = <<>>
  /\ root = InvalidPageID
  /\ content = <<>>
  /\ captured = <<>>
  /\ ops = 0
  /\ builds = 0

With(map, key, v) ==
  [k \in DOMAIN map \cup {key} |-> IF k = key THEN v ELSE map[k]]

Without(map, key) == Restrict(map, DOMAIN map \ {key})

Capture(id, map) ==
  IF id = InvalidPageID THEN captured ELSE With(captured, id, map)

Readable(file, id, key) == id # InvalidPageID => LeafOf(file, id, key) # Damaged

\* base with the changes of a log.
Overridden(base, deltas) ==
  [k \in {j \in DOMAIN base \cup DOMAIN deltas :
            j \in DOMAIN deltas => deltas[j] # Deleted} |->
     IF k \in DOMAIN deltas THEN deltas[k] ELSE base[k]]

Insert(key, v) ==
  LET done == Inserted(pages, root, key, v)
      map == With(content, key, v)
  IN  /\ ops < MaxOps
      /\ Readable(pages, root, key)
      /\ pages' = done.pages
      /\ root' = done.root
      /\ content' = map
      /\ captured' = Capture(done.root, map)
      /\ ops' = ops + 1
      /\ UNCHANGED builds

\* A page cannot be written: its id is used up, and those of its chain; the
\* root stays, the pages written before are never reached.
InsertFails(key, v) ==
  LET done == Inserted(pages, root, key, v).pages
      chain == Len(MakeEntry(pages, key, v).pages)
      used(failed) == IF failed <= chain THEN chain ELSE failed
  IN  /\ ops < MaxOps
      /\ Readable(pages, root, key)
      /\ \E failed \in (Len(pages) + 1)..Len(done) :
           pages' = [p \in 1..used(failed) |->
                       IF p < failed THEN done[p] ELSE Damaged]
      /\ ops' = ops + 1
      /\ UNCHANGED <<root, content, captured, builds>>

Delete(key) ==
  LET done == Removed(pages, root, key)
      map == Without(content, key)
  IN  /\ ops < MaxOps
      /\ Readable(pages, root, key)
      /\ pages' = done.pages
      /\ root' = done.root
      /\ content' = map
      /\ captured' = Capture(done.root, map)
      /\ ops' = ops + 1
      /\ UNCHANGED builds

\* A checkpoint: the next generation is a new file, built from this tree and
\* the log's changes; it errs when the scan comes to a page that is damaged, or
\* the builder refuses a key.
Rebuild(deltas) ==
  LET pairs == Merged(Scan(pages, root, <<>>), deltas)
      done == Built(pairs)
      map == Overridden(content, deltas)
  IN  /\ builds < MaxBuilds
      /\ Whole(pages, root)
      /\ Ascending(pairs)
      /\ pages' = done.pages
      /\ root' = done.root
      /\ content' = map
      /\ captured' = IF done.root = InvalidPageID
                     THEN <<>> ELSE [r \in {done.root} |-> map]
      /\ builds' = builds + 1
      /\ UNCHANGED ops

Next ==
  \/ \E key \in TreeKeys :
       \/ Delete(key)
       \/ \E v \in Values : Insert(key, v) \/ InsertFails(key, v)
  \/ \E deltas \in Batches : Rebuild(deltas)

Spec == Init /\ [][Next]_vars

------------------------------------------------------------------------------
(* Properties *)

PageIDs == 1..Len(pages)

\* Types: an internal node has one child more than separators, and what a node
\* points to was written before it.
TypeOK ==
  /\ \A p \in PageIDs :
       LET n == pages[p]
       IN  CASE n.kind = "leaf" ->
                  \A e \in ToSet(n.entries) :
                    /\ e.key \in TreeKeys
                    /\ e.head \in {InvalidPageID} \cup 1..(p - 1)
             [] n.kind = "internal" ->
                  /\ Len(n.children) = Len(n.keys) + 1
                  /\ ToSet(n.children) \subseteq 1..(p - 1)
             [] n.kind = "overflow" -> n.next \in PageIDs \cup {InvalidPageID}
             [] OTHER -> n = Damaged
  /\ root \in PageIDs \cup {InvalidPageID}
  /\ DOMAIN content \subseteq TreeKeys
  /\ DOMAIN captured \subseteq PageIDs
  /\ ops \in 0..MaxOps /\ builds \in 0..MaxBuilds

\* The pairs are those of the map, each key once and in order.
Lists(pairs, map) ==
  /\ Ascending(pairs)
  /\ ToSet(pairs) = {[key |-> k, val |-> map[k]] : k \in DOMAIN map}

\* Every root ever captured is an immutable snapshot: a scan from it yields
\* what the tree held then, each key once and in order, whatever was inserted,
\* deleted, or failed since (btree.go: no live page is overwritten).
RootsKeepContent ==
  \A r \in DOMAIN captured : Lists(Scan(pages, r, <<>>), captured[r])

KeyPrefixes ==
  UNION {{SubSeq(k, 1, n) : n \in 1..Len(k)} : k \in TreeKeys}

\* Lookups and scans agree with the map.  A lookup descends to the one leaf that
\* may hold the key, and finds it there exactly when it was inserted last and
\* not deleted (btree.Get, childIndex against the separators insert, split and
\* the builder leave); a scan prunes by the separators and by prefixUpper, and
\* misses no key that has the prefix (btree.Scan), for prefixes that end in the
\* highest byte too.
ReadsAgree ==
  /\ \A k \in TreeKeys :
       Get(pages, root, k) = IF k \in DOMAIN content THEN content[k] ELSE NoValue
  /\ \A p \in KeyPrefixes :
       Lists(Scan(pages, root, p),
             Restrict(content, {k \in DOMAIN content : IsPrefix(p, k)}))

\* Where, in a scan of its prefix, QueryObjects finds an object of a class: the
\* others decode to another scope.
ListedAt(c, pairs) ==
  {i \in DOMAIN pairs : /\ IsObjectKey(pairs[i].key)
                        /\ ClassOf(DecodeObjectKey(pairs[i].key)) = c}

\* The classes loadClasses finds when the engine opens.
Loaded ==
  {DecodeClassKey(pair.key) :
     pair \in {q \in ToSet(Scan(pages, root, <<nsClass>>)) : IsClassKey(q.key)}}

\* The objects observeTreeIDs finds when the id generator is seeded.
Observed ==
  {DecodeObjectKey(pair.key) :
     pair \in {q \in ToSet(Scan(pages, root, <<>>)) : IsObjectKey(q.key)}}

\* What is read back from keys is what was stored: the classes and the objects
\* of a boot, and for every class its own objects in the order of their ids,
\* also where its prefix is one of another project's keys (record.go, the key
\* layout; engine.go, QueryObjects and loadClasses; recovery.go).
KeysIdentify ==
  LET stored == {o \in Objects : KeyOfObject(o) \in DOMAIN content}
  IN  /\ Loaded = {c \in Classes : KeyOfClass(c) \in DOMAIN content}
      /\ Observed = stored
      /\ \A c \in Classes :
           LET pairs == Scan(pages, root, ObjectPrefix(c.project, c.class))
               id(i) == DecodeObjectKey(pairs[i].key).id
           IN  /\ {id(i) : i \in ListedAt(c, pairs)} =
                    {o.id : o \in {x \in stored : ClassOf(x) = c}}
               /\ \A i, j \in ListedAt(c, pairs) : i < j => id(i) < id(j)

\* The two streams of mergeBuild come out as the base overridden by the log's
\* changes: every live key once, in order, so that the builder takes them all.
MergeOverrides ==
  \A deltas \in Batches :
    Lists(Merged(Scan(pages, root, <<>>), deltas), Overridden(content, deltas))

\* No node of a tree that can be read is cut off by the size of a page.  An
\* insert does not ensure it: a leaf is split in the middle of its entries, not
\* of its bytes (split.go), so that one half may be too large for its page.
NodesFit == \A r \in DOMAIN captured : Whole(pages, r)

\* A build does: whatever the sizes of the entries it is given, each leaf is
\* flushed before it would be too large, and each parent has as many children
\* as fit, but two at least (build.go).
BuildsFit == [][builds' # builds => NodesFit']_vars

\* A generation has no page its tree does not reach (build.go: the result has
\* no copy-on-write orphans).
RebuildCompacts ==
  [][builds' # builds => Reachable(pages', root') = DOMAIN pages']_vars
=============================================================================
