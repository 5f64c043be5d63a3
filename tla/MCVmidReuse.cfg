CONSTANTS
    A = A
    B = B
    C = C
    Machine = {A, B, C}
    Unknown = Unknown
    Keep = 4
    Rungs = {2, 1}
    MaxProtected = 1
    MaxUnreadable = 1
SPECIFICATION Spec
SYMMETRY MachineSymmetry
INVARIANT TypeOK PromiseKept
PROPERTY NoSilentEviction
