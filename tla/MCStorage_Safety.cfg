\* Crashes, power loss and the I/O errors the code survives.
SPECIFICATION Spec
CONSTANTS
    k1 = k1
    k2 = k2
    Key <- MCKey
    MaxTx = 3
    MaxGen = 3
    MaxBatch = 2
    Faults = {"append", "sync", "rename", "open", "swap", "remove"}
SYMMETRY MCSymmetry
INVARIANTS
    AckedSurvive
    BootServesAcked
    FreshTx
    StorageInv
PROPERTIES
    RetiredOnlyDroppedFolded
    ImplementsMap
