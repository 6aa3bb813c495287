------------------------------- MODULE MCBTree -------------------------------
EXTENDS BTree

\* A class of the default project whose name is also that of a project, so
\* that its prefix is one of the project's keys; the names' byte is the last.
Default(ids) == {[project |-> <<>>, class |-> <<3>>, id |-> i] : i \in ids}
Named(ids) == {[project |-> <<3>>, class |-> <<1>>, id |-> i] : i \in ids}
MCObjects == Default(1..4) \cup Named(1..4)

\* One value that stays in its leaf, one that takes a chain of two pages.
Small == [id |-> 1, len |-> 1]
Large == [id |-> 2, len |-> BodySize]
MCValues == {Small, Large}

Changed(objects, v) == [k \in {KeyOfObject(o) : o \in objects} |-> v]

\* A load that fills three leaves and their parent and leaves gaps, and a log
\* with every kind of change: overrides, deletes (of an absent key too), keys
\* in front and behind.
MCBatches ==
  { [k \in {KeyOfClass(c) : c \in Classes} |-> Small]
      @@ Changed(Default({1, 2, 4}) \cup Named({1, 2, 4}), Small),
    Changed(Default({1, 3}) \cup Named({4}), Deleted)
      @@ Changed(Default({2, 4}), Large)
      @@ Changed(Named({3}), Small) }

\* A leaf of five wide values and six narrow ones behind them: there is no room
\* for a wide one more.  An entry takes a sixth of a page at most, less than in
\* the program.
SplitObjects == Default(1..12)
Wide == [id |-> 3, len |-> MaxInline]
Narrow == [id |-> 4, len |-> 1]
SplitValues == {Wide, Narrow}
SplitBatches ==
  {Changed(Default(1..5), Wide) @@ Changed(Default(7..12), Narrow)}
=============================================================================
