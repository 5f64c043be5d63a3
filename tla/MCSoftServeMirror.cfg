\* The deployed hours in units of ten minutes: hourly, a margin of an hour, a
\* deadline of fifty minutes.
CONSTANTS
    Repo <- Repositories
    Forks <- TheFork
    Refs = {0, 1}
    PerPage = 1
    Margin = 6
    Period = 6
    Deadline = 5
    MaxTime = 13
    MaxChanges = 2
    MaxFaults = 1
SPECIFICATION Spec
INVARIANT TypeOK PassIsDeserved FailsForAReason
CHECK_DEADLOCK FALSE
