\* Requests of every route, a restart and a client that pages.
SPECIFICATION Spec
CONSTANTS
    Project = {"", "!"}
    Name = {"c", "!"}
    Invalid = {"!"}
    Body <- MCBody
    Queries <- MCQueries
    Malformed = Malformed
    Absent = Absent
    Creator = {w1, w2}
    MaxBulk = 2
    DefaultLimit = 1
    PageSize = 1
    MaxObjects = 2
SYMMETRY Symmetry
INVARIANTS
    TypeOK
    ListsExact
    
