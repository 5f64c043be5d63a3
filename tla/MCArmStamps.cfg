CONSTANTS
    t1 = t1
    t2 = t2
    MaxJob = 3
    FirstStamped = 2
    FirstMapped = 3
    Discs <- DiscsByAge
    Titles = {t1, t2}
    MaxMoves = 2
    Null = Null
SPECIFICATION Spec
SYMMETRY TitleSymmetry
INVARIANT TypeOK StampNamesMaker PlanStaysCurrent MapIsWhole SecondRunIsQuiet
PROPERTY MapNeverShrinks
CHECK_DEADLOCK FALSE
