\* Two updates of one object at a time.
SPECIFICATION Spec
CONSTANTS
    c1 = c1
    c2 = c2
    person = person
    Client = {c1, c2}
    Class = {person}
    MaxId = 1
    MaxTx = 4
    Ops = {"createClass", "create", "put"}
    Alone = {"classes"}
SYMMETRY MCSymmetry
INVARIANTS
    OverlayCurrent
