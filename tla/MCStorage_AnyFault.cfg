\* What holds under every I/O error and crash, and what eventually happens.
SPECIFICATION FairSpec
CONSTANTS
    k1 = k1
    k2 = k2
    Key = {k1}
    MaxTx = 2
    MaxGen = 3
    MaxBatch = 2
    Faults = {"append", "shortWrite", "sync", "rename", "open", "build", "switch", "swap", "remove", "dirent"}
INVARIANTS
    LogOrdered
PROPERTIES
    GenerationsImmutable
    BootCompletes
    CheckpointReturns
