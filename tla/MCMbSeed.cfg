CONSTANTS
    p = p
    q = q
    Servers = {p, q}
    MaxBook = 3
    Queues <- Inboxes
    Embedded = {2}
    Sidecar = {3}
    CoverName <- Names3
    MaxRelease = 2
    MaxStarts = 2
SPECIFICATION Spec
SYMMETRY Ports
INVARIANT TypeOK RecordedStays RightBook OnwardToNew SavedArtIsWhole
CHECK_DEADLOCK FALSE
