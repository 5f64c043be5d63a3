SPECIFICATION Spec
CHECK_DEADLOCK FALSE
CONSTANTS
    Contents <- Kinds
    Floor = 4
    MaxDay = 1
    MaxLate = 2
    MaxChanges = 1
    MaxExtra = 1
INVARIANT TypeOK
PROPERTY MissedRunShows LossShows HealthyIsQuiet
