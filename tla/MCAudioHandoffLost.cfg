CONSTANTS
    d1 = d1
    d2 = d2
    d3 = d3
    Disc = {d1, d2, d3}
    NoDisc = NoDisc
    NameOf <- Names
    Tracks <- TrackCounts
    MaxTrack = 2
    MaxCopyFailures = 1
SPECIFICATION Spec
CHECK_DEADLOCK FALSE
INVARIANT HandsOffWhole
