------------------------ MODULE PbsOffsiteFreshness -------------------------
(***************************************************************************)
(* pbs-offsite freshness against the estate's clocks: one backup group on  *)
(* the primary, its copies on PBS #2, and the four things that happen on a *)
(* day, at their hours UTC: a backup (10 or 11, by season), the pull (12), *)
(* on a Sunday PBS #2's verify (14), and the check itself (18).  All times *)
(* are hours since midnight of day 0, so the limits of assess meet the     *)
(* schedule exactly as deployed.                                           *)
(*                                                                         *)
(* The store keeps 31 snapshots and no behaviour here is that long, so the *)
(* prune plays no part.  PBS's pull and verify are modelled from what the  *)
(* code says of them.                                                      *)
(***************************************************************************)
EXTENDS Integers, FiniteSets, FiniteSetsExt

CONSTANTS MaxDay,       \* bound: the days a behaviour lasts
          Sunday,       \* the first Sunday, a day in 0 .. 6
          BackupHours,  \* when vzdump takes the snapshot, by season
          MaxOutages,   \* bound: the days on which no pull succeeds
          SyncLimit,    \* SYNC_LIMIT_HOURS
          VerifyLimit   \* VERIFY_LIMIT_HOURS

ASSUME FreshnessAssumption ==
    /\ MaxDay \in Nat
    /\ Sunday \in 0 .. 6
    /\ BackupHours \subseteq 0 .. 11
    /\ MaxOutages \in Nat
    /\ SyncLimit \in Nat
    /\ VerifyLimit \in Nat

VARIABLES season,   \* the hour of this season's backups
          day,      \* days since the start
          phase,    \* what happens next on that day
          live,     \* whether vzdump still visits the group
          taken,    \* times of the primary's snapshots
          copies,   \* copies here: time, arrived (the manifest's mtime), verified
          verifying,\* times of the copies a verify under way is to read
          problems, \* what the last check found
          missed,   \* days without a pull since the last, up to 2
          outages,  \* days without a pull so far
          skipped   \* whether some Sunday's verify did not run

freshnessVars == <<season, day, phase, live, taken, copies, verifying, problems, missed, outages, skipped>>

Phases == {"backup", "sync", "verify", "check"}

Time == 0 .. 24 * (MaxDay + 1)

Copy == [time : Time, arrived : Time, verified : {"none", "ok", "failed"}]

Problem == {"not copied", "failed", "unverified", "unreadable"}

At(hour) == 24 * day + hour

IsSunday(d) == d % 7 = Sunday

FreshnessTypeOK ==
    /\ season \in BackupHours
    /\ day \in 0 .. MaxDay
    /\ phase \in Phases
    /\ live \in BOOLEAN
    /\ taken \subseteq Time
    /\ copies \subseteq Copy
    /\ verifying \subseteq Time
    /\ problems \subseteq Problem
    /\ missed \in 0 .. 2
    /\ outages \in 0 .. MaxOutages
    /\ skipped \in BOOLEAN

FreshnessInit ==
    /\ season \in BackupHours
    /\ day = 0
    /\ phase = "backup"
    /\ live = TRUE
    /\ taken = {}
    /\ copies = {}
    /\ verifying = {}
    /\ problems = {}
    /\ missed = 0
    /\ outages = 0
    /\ skipped = FALSE

-----------------------------------------------------------------------------
(* A day.                                                                  *)

TakeBackup ==
    /\ phase = "backup"
    /\ live
    /\ taken' = taken \cup {At(season)}
    /\ phase' = "sync"
    /\ UNCHANGED <<season, day, live, copies, verifying, problems, missed, outages, skipped>>

\* The guest is destroyed or excluded: its group freezes, or is forgotten.
Retire ==
    /\ phase = "backup"
    /\ live' = FALSE
    /\ taken' \in {taken, {}}
    /\ phase' = "sync"
    /\ UNCHANGED <<season, day, copies, verifying, problems, missed, outages, skipped>>

Newest(held) == {c \in held : \A d \in held : d.time <= c.time}

\* The primary's own verify, on any Sunday since the copy arrived, changes the
\* manifest there; a verify here changes this store's.
DiffersFromPrimary(c) ==
    \/ c.verified # "none"
    \/ \E d \in (c.time \div 24) .. day :
        /\ IsSunday(d)
        /\ c.arrived < 24 * d + 14
        /\ 24 * d + 14 < At(12)

\* What a pull re-syncs: the group's newest copy, if the primary still has it
\* under another manifest.  It arrives anew, without its verify state.
Resynced ==
    {c \in Newest(copies) : c.time \in taken /\ DiffersFromPrimary(c)}

Pulled(t) == [time |-> t, arrived |-> At(12), verified |-> "none"]

PullCopies ==
    /\ phase = "sync"
    /\ LET held == {c.time : c \in copies}
       IN copies' = (copies \ Resynced)
                     \cup {Pulled(c.time) : c \in Resynced}
                     \cup {Pulled(t) : t \in taken \ held}
    /\ missed' = 0
    /\ phase' = "verify"
    /\ UNCHANGED <<season, day, live, taken, verifying, problems, outages, skipped>>

PullMissed ==
    /\ phase = "sync"
    /\ outages < MaxOutages
    /\ outages' = outages + 1
    /\ missed' = Min({missed + 1, 2})
    /\ phase' = "verify"
    /\ UNCHANGED <<season, day, live, taken, copies, verifying, problems, skipped>>

\* ignore-verified: only what has no result yet is read.
VerifyStarts ==
    /\ phase = "verify"
    /\ IsSunday(day)
    /\ verifying = {}
    /\ verifying' = {c.time : c \in {d \in copies : d.verified = "none"}}
    /\ UNCHANGED <<season, day, phase, live, taken, copies, problems, missed, outages, skipped>>

VerifySkipped ==
    /\ phase = "verify"
    /\ IsSunday(day)
    /\ verifying = {}
    /\ skipped' = TRUE
    /\ phase' = "check"
    /\ UNCHANGED <<season, day, live, taken, copies, verifying, problems, missed, outages>>

\* The verify finishes, on its Sunday or on the Monday, recording its results
\* in the manifests.  The newest copy may turn out damaged.
VerifyEnds ==
    /\ phase = "verify"
    /\ verifying # {}
    /\ \E damaged \in {{}, {Max(verifying)}} :
        LET result(c) ==
                [time |-> c.time, arrived |-> At(14),
                 verified |-> IF c.time \in damaged THEN "failed" ELSE "ok"]
        IN copies' = {IF c.time \in verifying THEN result(c) ELSE c : c \in copies}
    /\ verifying' = {}
    /\ phase' = "check"
    /\ UNCHANGED <<season, day, live, taken, problems, missed, outages, skipped>>

\* Nothing to verify today, or a long verify still under way; it is over by
\* the Monday.
NoResultYet ==
    /\ phase = "verify"
    /\ IF verifying = {} THEN \/ ~IsSunday(day)
                              \/ \A c \in copies : c.verified # "none"
                         ELSE IsSunday(day)
    /\ phase' = "check"
    /\ UNCHANGED <<season, day, live, taken, copies, verifying, problems, missed, outages, skipped>>

-----------------------------------------------------------------------------
(* assess, for the group.                                                  *)

\* The newest snapshot old enough to have seen a pull has to be here.
NotCopied(theirs, ours, now) ==
    LET due == {t \in theirs : t <= now - SyncLimit}
    IN due # {} /\ Max(due) \notin {c.time : c \in ours}

\* Faults: the age since the backup was taken, in place of since the copy
\* arrived; and a limit that a second Sunday fits inside.
UnverifiedSinceTaken(c, now) == c.verified = "none" /\ c.time <= now - VerifyLimit
UnverifiedSlack(c, now) == c.verified = "none" /\ c.arrived <= now - 2 * VerifyLimit

Unverified(c, now) == c.verified = "none" /\ c.arrived <= now - VerifyLimit

Assess(theirs, ours, now) ==
    {p \in Problem :
        \/ p = "not copied" /\ NotCopied(theirs, ours, now)
        \/ p = "failed" /\ \E c \in ours : c.verified = "failed"
        \/ p = "unverified" /\ \E c \in ours : Unverified(c, now)}

NextDay ==
    /\ day < MaxDay
    /\ day' = day + 1
    /\ phase' = "backup"

Check ==
    /\ phase = "check"
    /\ problems' = Assess(taken, copies, At(18))
    /\ NextDay
    /\ UNCHANGED <<season, live, taken, copies, verifying, missed, outages, skipped>>

\* Fault: the day's check not taken for done.
CheckCannotReadRetries ==
    /\ phase = "check"
    /\ problems' = {"unreadable"}
    /\ phase' = "retry"
    /\ UNCHANGED <<season, day, live, taken, copies, verifying, missed, outages, skipped>>

\* Either store could not be read: freshness() reports a failure, never a pass.
CheckCannotRead ==
    /\ phase = "check"
    /\ problems' = {"unreadable"}
    /\ NextDay
    /\ UNCHANGED <<season, live, taken, copies, verifying, missed, outages, skipped>>

FreshnessNext ==
    \/ TakeBackup
    \/ Retire
    \/ PullCopies
    \/ PullMissed
    \/ VerifyStarts
    \/ VerifySkipped
    \/ VerifyEnds
    \/ NoResultYet
    \/ Check
    \/ CheckCannotRead

FreshnessSpec == FreshnessInit /\ [][FreshnessNext]_freshnessVars

-----------------------------------------------------------------------------
(* Properties.  Each speaks of the state a check has just left behind.     *)

JustChecked == day > 0 /\ phase = "backup"

\* The hour of the check that ran last.
CheckedAt == 24 * (day - 1) + 18

\* The check is quiet on schedule: with no two pulls missed in a row, every
\* Sunday's verify run and over by Monday's check, and nothing found damaged,
\* it finds nothing -- although a verify makes the next pull strip the newest
\* copy's result, and a frozen group's copy so arrives anew every week.
QuietOnSchedule ==
    JustChecked /\ missed < 2 /\ ~skipped /\ "unreadable" \notin problems =>
        problems \subseteq {"failed"}

\* A check that passes has deserved to.  No two pulls in a row have passed over
\* a group still backed up, and every copy has been verified since it arrived or
\* has yet to be passed over by two Sundays in a row (and two days' slack).
PassIsDeserved ==
    JustChecked /\ problems = {} =>
        /\ ~ (missed = 2 /\ \E t \in taken : (t \div 24) = day - 2
                                             /\ \A c \in copies : c.time < t)
        /\ \A c \in copies :
            \/ c.verified = "ok"
            \/ Cardinality({d \in 0 .. day : /\ IsSunday(d)
                                             /\ c.arrived < 24 * d + 14
                                             /\ 24 * d + 14 <= CheckedAt - 48}) < 2
=============================================================================
