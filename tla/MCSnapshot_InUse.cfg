\* A reader that leaves while another enters and SwapTo retires.
SPECIFICATION Spec
CONSTANTS
    r1 = r1
    r2 = r2
    r3 = r3
    Reader = {r1, r2}
    MaxSnap = 1
    GraceExpires = FALSE
SYMMETRY MCSymmetry
INVARIANTS
    NoUseAfterUnmap
CHECK_DEADLOCK FALSE
