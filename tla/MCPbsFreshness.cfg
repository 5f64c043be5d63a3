CONSTANTS
    v1 = v1
    v2 = v2
    Vmid = {v1, v2}
    Absent = Absent
    MaxDay = 2
    MaxChanges = 3
    RunAt = 8
    RunLasts = 4
    CheckAt = 16
    LimitHours = 26
SPECIFICATION Spec
SYMMETRY VmidSymmetry
INVARIANT TypeOK
PROPERTY NotLandedFails
CHECK_DEADLOCK FALSE
