\* A checkpoint that errs after the rotation, then another.
SPECIFICATION Spec
CONSTANTS
    k1 = k1
    k2 = k2
    Key <- MCKey
    MaxTx = 2
    MaxGen = 3
    MaxBatch = 2
    Faults = {"build"}
SYMMETRY MCSymmetry
INVARIANTS
    AckedSurvive
