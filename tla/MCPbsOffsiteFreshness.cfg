\* Day 0 is a Friday; the behaviours see two Sundays and the days after both.
CONSTANTS
    MaxDay = 13
    Sunday = 2
    MaxOutages = 3
    BackupHours <- DeployedBackupHours
    SyncLimit = 26
    VerifyLimit = 192
SPECIFICATION FreshnessSpec
INVARIANT FreshnessTypeOK
INVARIANT QuietOnSchedule
INVARIANT PassIsDeserved
CHECK_DEADLOCK FALSE
