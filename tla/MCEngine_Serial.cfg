\* Requests, checkpoints and restarts; nothing written twice at a time.
SPECIFICATION Spec
CONSTANTS
    c1 = c1
    c2 = c2
    person = person
    Client = {c1, c2}
    Class = {person}
    MaxId = 2
    MaxTx = 4
    Ops = {"createClass", "dropClass", "create", "put", "delete", "get"}
    Alone = {"classes", "objects"}
SYMMETRY MCSymmetry
INVARIANTS
    TypeOK
    OverlayCurrent
    GetsFresh
    ClassesDurable
    DropsEmpty
PROPERTIES
    WritesFit
    ImplementsStore
