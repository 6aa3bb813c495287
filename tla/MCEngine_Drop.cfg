\* A drop while a checkpoint runs: a class is dropped with an object in it.
SPECIFICATION Spec
CONSTANTS
    c1 = c1
    c2 = c2
    person = person
    Client = {c1, c2}
    Class = {person}
    MaxId = 1
    MaxTx = 3
    Ops = {"createClass", "create", "dropClass"}
    Alone = {"classes", "objects"}
SYMMETRY MCSymmetry
INVARIANTS
    NoOrphans
