--------------------------- MODULE BackupCoverage ---------------------------
(***************************************************************************)
(* The coverage check (kubernetes/k8up/coverage/backup_coverage.py) and    *)
(* one item it judges, a claim's volume or a database dump, over the days' *)
(* backups and checks.  Times are quarter-hours since midnight of day 0,   *)
(* UTC, so that the limits meet the schedules as deployed.                 *)
(*                                                                         *)
(* K8up and restic are not part of the repository.  A run takes a snapshot *)
(* of an item in scope, late by as much as the run takes to reach it, or   *)
(* misses it without saying so.  The check lists the snapshots, then reads *)
(* the newest dump back, so a snapshot may land between the two.           *)
(***************************************************************************)
EXTENDS Naturals, Sequences, Functions

CONSTANTS Contents,      \* what an item of a kind may hold: bytes, SQLite's
                         \* sidecars, whether it is whole, and any files at all
          Floor,         \* SHRINK_FLOOR_BYTES
          MaxDay,        \* bound: the days a behaviour lasts
          MaxLate,       \* how late a run reaches the item, where it is late
          MaxChanges,    \* bound: changes to the item's declaration
          MaxExtra       \* bound: backups run by hand, or run again by a retry

ASSUME BackupCoverageAssumption ==
    /\ Contents \in [{"volume", "dump"} ->
                      SUBSET [main : Nat, side : Nat, whole : BOOLEAN, files : BOOLEAN]]
    /\ Contents["volume"] # {}
    /\ \A c \in Contents["volume"] : c.files \/ c.main + c.side = 0
    /\ \A c \in Contents["dump"] : c.side = 0    \* one file
    /\ {Floor, MaxDay, MaxLate, MaxChanges, MaxExtra} \subseteq Nat

VARIABLES kind,      \* whether the item is a claim's volume or a dump
          declared,  \* what the cluster says of the item
          created,   \* when the claim, or the pod a dump comes from, was created
          series,    \* its last two snapshots, oldest first
          day,
          slot,      \* what the day has next
          listed,    \* the series as a check under way listed it
          problems,  \* what a check just failed on
          reports,   \* what it only reported
          before,    \* the newest snapshot when the check before it ran, if any
          changes, extra

vars == <<kind, declared, created, series, day, slot, listed, problems, reports,
          before, changes, extra>>

\* The day's schedule: the full run takes volumes and dumps, the others dumps.
Day == << [what |-> "full",  at |-> 4],  [what |-> "check", at |-> 11],
          [what |-> "dumps", at |-> 28], [what |-> "check", at |-> 35],
          [what |-> "dumps", at |-> 52], [what |-> "check", at |-> 59],
          [what |-> "dumps", at |-> 76], [what |-> "check", at |-> 83] >>

Hours(n) == 4 * n

Now == 96 * day + Day[slot].at

\* Fault: two nights and their slack.
VolumeLimitLong == Hours(50)

VolumeLimit == Hours(26)
DumpLimit == Hours(7)
NewGrace == Hours(26)

\* hand, that a backup was not a scheduled run's, is history: nothing reads it.
Snapshot == [taken : Nat, hand : BOOLEAN, content : UNION Range(Contents)]

NoSnapshot == [taken |-> 0, hand |-> FALSE, content |-> CHOOSE c \in Contents["volume"] : TRUE]

Newest(s) == s[Len(s)]

Total(snapshot) == snapshot.content.main + snapshot.content.side

TypeOK ==
    /\ kind \in {"volume", "dump"}
    /\ declared \in {"absent", "excluded", "shared", "covered"}
    /\ created \in Nat
    /\ series \in Seq(Snapshot) /\ Len(series) <= 2
    /\ day \in 0 .. MaxDay /\ slot \in DOMAIN Day
    /\ listed \in Seq(Snapshot)
    /\ problems \subseteq {"never", "old", "shared", "emptied", "empty", "shrank",
                           "damaged", "unread", "unreadable"}
    /\ reports \subseteq {"new", "excluded", "nothing", "sidecars", "gone"}
    /\ before \in Snapshot

Init ==
    /\ kind \in {"volume", "dump"}
    /\ declared \in {"absent", "covered"}
    /\ created = 0
    /\ series = <<>>
    /\ day = 0
    /\ slot = 1
    /\ listed = <<>>
    /\ problems = {}
    /\ reports = {}
    /\ before = NoSnapshot
    /\ changes = 0
    /\ extra = 0

-----------------------------------------------------------------------------
(* The cluster, and K8up.                                                  *)

Declare(state) ==
    /\ listed = <<>>
    /\ changes < MaxChanges
    /\ changes' = changes + 1
    /\ state # declared
    /\ kind = "dump" => state \in {"absent", "covered"}
    /\ declared' = state
    /\ created' = IF declared = "absent" THEN Now - 1 ELSE created
    /\ UNCHANGED <<kind, series, day, slot, listed, problems, reports, before, extra>>

\* A pod replaced by another: the producer takes the new pod's age.
Replace ==
    /\ kind = "dump"
    /\ listed = <<>>
    /\ changes < MaxChanges
    /\ changes' = changes + 1
    /\ declared = "covered"
    /\ created' = Now - 1
    /\ UNCHANGED <<kind, declared, series, day, slot, listed, problems, reports,
                   before, extra>>

\* Fault: every snapshot kept.
TakenKeepsAll(at, hand) ==
    \E content \in Contents[kind] :
        series' = Append(series, [taken |-> at, hand |-> hand, content |-> content])

\* What parse_snapshots keeps of an item's snapshots.
Taken(at, hand) ==
    \E content \in Contents[kind] :
        LET s == Append(series, [taken |-> at, hand |-> hand, content |-> content])
        IN series' = SubSeq(s, IF Len(s) > 2 THEN 2 ELSE 1, Len(s))

Advance ==
    IF slot < Len(Day) THEN slot' = slot + 1 /\ day' = day
                       ELSE slot' = 1 /\ day' = day + 1 /\ day < MaxDay

Takes == declared \in {"covered", "shared"} /\ (kind = "dump" \/ Day[slot].what = "full")

\* K8up says "Succeeded" of a run that took nothing as well.
Run ==
    /\ Day[slot].what # "check"
    /\ \/ Takes /\ \E late \in {0, MaxLate} : Taken(Now + late, FALSE)
       \/ UNCHANGED series
    /\ Advance
    /\ problems' = {}
    /\ reports' = {}
    /\ UNCHANGED <<kind, declared, created, listed, before, changes, extra>>

\* A Backup started by hand, or a run's retry.
ExtraRun ==
    /\ Day[slot].what = "check"
    /\ extra < MaxExtra
    /\ extra' = extra + 1
    /\ declared \in {"covered", "shared"}
    /\ Taken(Now, TRUE)
    /\ UNCHANGED <<kind, declared, created, day, slot, listed, problems, reports, before, changes>>

-----------------------------------------------------------------------------
(* The check.                                                              *)

\* Fault: the floor itself left out.
HalvedAboveFloor(previous, size) == previous > Floor /\ 2 * size < previous

\* _halved.
Halved(previous, size) == previous >= Floor /\ 2 * size < previous

Shrank(s) == Len(s) = 2 /\ Halved(Total(s[1]), Total(s[2]))

\* Fault: the recount left unread.
VolumeContentsByTotal(s, recounted) ==
    IF ~Newest(s).content.files \/ Shrank(s) THEN [fail |-> {"shrank"}, say |-> {}]
                                         ELSE [fail |-> {}, say |-> {}]

\* recount_shrunk_volumes and _volume_contents.
VolumeContents(s, recounted) ==
    IF ~Newest(s).content.files
    THEN IF Len(s) = 2 /\ s[1].content.files THEN [fail |-> {"emptied"}, say |-> {}]
                                          ELSE [fail |-> {}, say |-> {"nothing"}]
    ELSE IF ~Shrank(s) THEN [fail |-> {}, say |-> {}]
    ELSE IF ~recounted \/ Halved(s[1].content.main, s[2].content.main)
    THEN [fail |-> {"shrank"}, say |-> {}]
    ELSE [fail |-> {}, say |-> {"sidecars"}]

\* inspect_dumps and _dump_contents.  What is read back is the newest snapshot
\* by then; its length is compared with the listed one's.
DumpContents(s, latest, readBack) ==
    IF Total(Newest(s)) = 0 THEN {"empty"}
    ELSE IF Shrank(s) THEN {"shrank"}
    ELSE IF ~readBack THEN {"unread"}
    ELSE IF latest.content.whole /\ Total(latest) = Total(Newest(s)) THEN {}
    ELSE {"damaged"}

\* Fault: a new claim's grace for every item, and the age left for last.
JudgeByGrace(s, recounted, latest, readBack) ==
    IF s = <<>> \/ Now - Newest(s).taken > NewGrace
    THEN IF Now - created <= NewGrace THEN [fail |-> {}, say |-> {"new"}]
                                      ELSE [fail |-> {"never"}, say |-> {}]
    ELSE IF kind = "volume" THEN VolumeContents(s, recounted)
    ELSE [fail |-> DumpContents(s, latest, readBack), say |-> {}]

\* _judge_volume and _judge_dump.
Judge(s, recounted, latest, readBack) ==
    IF s = <<>>
    THEN IF Now - created <= NewGrace THEN [fail |-> {}, say |-> {"new"}]
                                      ELSE [fail |-> {"never"}, say |-> {}]
    ELSE IF Now - Newest(s).taken > (IF kind = "volume" THEN VolumeLimit ELSE DumpLimit)
    THEN [fail |-> {"old"}, say |-> {}]
    ELSE IF kind = "volume" THEN VolumeContents(s, recounted)
    ELSE [fail |-> DumpContents(s, latest, readBack), say |-> {}]

\* classify.
Classify(s, recounted, latest, readBack) ==
    CASE declared = "absent" ->
            [fail |-> {}, say |-> IF s = <<>> THEN {} ELSE {"gone"}]
      [] declared = "excluded" -> [fail |-> {}, say |-> {"excluded"}]
      [] declared = "shared" -> [fail |-> {"shared"}, say |-> {}]
      [] OTHER -> Judge(s, recounted, latest, readBack)

CheckEnds ==
    /\ listed' = <<>>
    /\ before' = IF series = <<>> THEN NoSnapshot ELSE Newest(series)
    /\ Advance
    /\ UNCHANGED <<kind, declared, created, series, changes, extra>>

\* main, up to collect_snapshots.
CheckLists ==
    /\ Day[slot].what = "check"
    /\ listed = <<>>
    /\ series # <<>>
    /\ listed' = series
    /\ UNCHANGED <<kind, declared, created, series, day, slot, problems, reports, before,
                   changes, extra>>

Check(recounted, readBack) ==
    /\ Day[slot].what = "check"
    /\ listed # <<>> \/ series = <<>>
    /\ LET latest == IF series = <<>> THEN NoSnapshot ELSE Newest(series)
           verdict == Classify(listed, recounted, latest, readBack)
       IN problems' = verdict.fail /\ reports' = verdict.say
    /\ CheckEnds

\* The API or the repository could not be read.
CheckFails ==
    /\ Day[slot].what = "check"
    /\ problems' = {"unreadable"}
    /\ reports' = {}
    /\ CheckEnds

Next ==
    \/ \E state \in {"absent", "excluded", "shared", "covered"} : Declare(state)
    \/ Replace
    \/ Run
    \/ ExtraRun
    \/ CheckLists
    \/ \E recounted, readBack \in BOOLEAN : Check(recounted, readBack)
    \/ CheckFails

Spec == Init /\ [][Next]_vars

-----------------------------------------------------------------------------
(* Properties.                                                             *)

\* The last run that was to take the item, leaving a volume's night two hours
\* to be late in.
Due(i) == /\ Day[i].what = "full" \/ (kind = "dump" /\ Day[i].what = "dumps")
          /\ Day[i].at + (IF kind = "volume" THEN Hours(2) ELSE 0) <= Day[slot].at

LastDue ==
    IF \E i \in DOMAIN Day : Due(i)
    THEN 96 * day + Day[CHOOSE i \in DOMAIN Day :
                            Due(i) /\ \A j \in DOMAIN Day : Due(j) => j <= i].at
    ELSE IF day = 0 THEN 0 ELSE 96 * (day - 1) + Day[1].at

\* The newest backup, if there is one, is a scheduled run's.
NewestOnSchedule == series = <<>> \/ ~Newest(series).hand

Passes == declared = "covered" /\ problems' = {} /\ reports' # {"new"}

Covered == series # <<>> /\ Newest(series).taken >= LastDue

\* "The check after a missed run fails": a check that passes an item in scope,
\* and does not call it new, has a snapshot the last run due took, or a newer one
\* made by hand or by a retry, which the check takes for a run's.  The limits
\* beside the crons of schedules.yaml and cron-job.yaml, and _judge_volume and
\* _judge_dump.
MissedRunShows ==
    [][\A recounted, readBack \in BOOLEAN :
        Passes /\ NewestOnSchedule /\ Check(recounted, readBack) => Covered]_vars

\* An item in scope has lost half of what it held at the check before.
Lost ==
    /\ declared = "covered"
    /\ before.taken > 0
    /\ before.content.main >= Floor
    /\ 2 * Newest(series).content.main < before.content.main
    /\ 2 * Total(Newest(series)) < Total(before)

\* "Losing more than half of an item between two runs is the signal": what an
\* item held at one check and has lost half of by the next, the next fails on,
\* whichever scheduled run between was missed and whatever was declared, unless
\* the newest backup was made by hand or by a retry.  _halved over the last two
\* snapshots, which are not the two the checks saw.
LossShows ==
    [][\A recounted, readBack \in BOOLEAN :
        Lost /\ NewestOnSchedule /\ Check(recounted, readBack) => problems' # {}]_vars

Healthy(s) ==
    /\ s # <<>>
    /\ Newest(s).taken >= LastDue
    /\ Newest(s).content.main > 0
    /\ \A i \in DOMAIN s : s[i].content.whole
    /\ Len(s) = 2 => \/ Total(s[1]) < Floor
                      \/ 2 * Newest(s).content.main >= s[1].content.main

\* An item that the last run due took, that holds something, whole, and has not
\* lost half of what counts, when the check lists it and still when it judges it,
\* fails no check that could read it, unless a dump of another size landed meanwhile,
\* whose header is held against the size of the one listed: what the slack in the
\* limits, the floor, the recount and the header of "a current dump that is whole"
\* are for.
HealthyIsQuiet ==
    [][(/\ declared = "covered"
        /\ Healthy(listed)
        /\ Healthy(series)
        /\ Check(TRUE, TRUE)
        /\ kind = "dump" => Total(Newest(listed)) = Total(Newest(series))) =>
            problems' = {}]_vars
=============================================================================
