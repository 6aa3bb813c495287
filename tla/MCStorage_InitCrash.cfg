\* A crash while a database directory is initialised.
SPECIFICATION Spec
CONSTANTS
    k1 = k1
    k2 = k2
    Key <- MCKey
    MaxTx = 1
    MaxGen = 3
    MaxBatch = 2
    Faults = {"initCrash"}
SYMMETRY MCSymmetry
INVARIANTS
    NeverRefused
