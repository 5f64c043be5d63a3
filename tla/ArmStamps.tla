------------------------------ MODULE ArmStamps ------------------------------
(***************************************************************************)
(* The stamps of ARM's raw folders: arm-job.json as ARM's jobs write it    *)
(* (init-scripts.yaml), and as tools/arm-stamps/stamps.py brings it to its *)
(* current form, or writes it where it is missing, in a container whose    *)
(* jobs keep running.                                                      *)
(*                                                                         *)
(* Jobs run one after another, all from discs of one label and title, so   *)
(* that folders and logs contend for their names.  The earliest jobs wrote *)
(* no stamp, later ones a stamp without a Blu-ray's title map, the latest  *)
(* both.  The tool plans from the database, the logs and the folders, then *)
(* writes one stamp at a time.                                             *)
(***************************************************************************)
EXTENDS Naturals, FiniteSets, Sequences

CONSTANTS MaxJob,        \* jobs are 1 .. MaxJob, in the order they start
          FirstStamped,  \* the first job under the whole-disc patch
          FirstMapped,   \* the first whose scan records a Blu-ray's title map
          Discs,         \* the types of disc each job may be of
          Titles,        \* the titles HandBrake is given of a disc
          MaxMoves,      \* bound: logs gone, and folders renamed or restored
          Null           \* a field that is null, or missing

Jobs == 1 .. MaxJob

ASSUME ArmStampsAssumption ==
    /\ MaxJob \in Nat /\ MaxMoves \in Nat
    /\ FirstStamped \in Nat /\ FirstMapped \in Nat
    /\ Discs \in [Jobs -> SUBSET {"bluray", "dvd"}]
    /\ 0 < FirstStamped /\ FirstStamped <= FirstMapped
    /\ \A S \in SUBSET (Jobs \X Titles) : Null # S
    /\ Null \notin BOOLEAN

\* A raw folder is named for its title, or for its job's stage as well; the
\* owner may give it a name of its own.  A log is named for its label alike.
Plain == <<"title">>
Staged(j) == <<"title", j>>
Renamed(j) == <<"renamed", j>>

Name == {Plain} \cup {Staged(j) : j \in Jobs} \cup {Renamed(j) : j \in Jobs}

VARIABLES job,      \* the job running, or that ran last
          at,       \* what it is doing, or "idle"
          disc,     \* job.disctype of the jobs begun
          logfile,  \* job.logfile of the jobs begun
          skip,     \* titles the running job leaves out; cleared when it ends
          logs,     \* /root/logs
          folders,  \* /root/video/raw
          todo,     \* what the tool has planned and not yet written
          moves     \* logs gone, and folders renamed or restored, so far

\* History, for the properties only.
VARIABLES finished,  \* jobs that have transcoded their last title
          lacking    \* jobs whose log the tool used before that, or whose skipped
                     \* titles their stamp does not have

jobVars == <<job, at, disc, logfile, skip>>
vars == <<jobVars, logs, folders, todo, moves, finished, lacking>>

Begun == 1 .. job

\* Each job has a disc of its own, whatever its label says.
TitlesOf(j) == {j} \X Titles

Map == {Null} \cup SUBSET (Jobs \X Titles)

\* form: the current one, or the keys of an earlier.  map: the titles listed.
Stamp == [job : Jobs, form : {"current", "earlier"}, complete : {Null} \cup BOOLEAN,
          map : Map, skipped : Map]

ASSUME NoStampIsNull == Null \notin Stamp

\* maker and made are history: the job that made the folder, and the name it had.
\* copy: nothing whole_disc takes for a copy, one that is short, or all of it; read
\* only of a folder without a stamp, so kept only of jobs that leave none.
Folder == [maker : Jobs, made : Name, copy : {"none", "short", "full"}, stamp : {Null} \cup Stamp]

Log == [opened : Jobs, paths : Seq(Name), pairs : SUBSET (Jobs \X Titles)]

Change == [name : Name, before : {Null} \cup Stamp, after : Stamp]

TypeOK ==
    /\ job \in 0 .. MaxJob
    /\ at \in {"idle", "naming", "stamping", "copying", "extracting", "scanning",
               "encoding"}
    /\ disc \in [Begun -> {"bluray", "dvd"}]
    /\ logfile \in [Begun -> Name]
    /\ skip \in SUBSET (Jobs \X Titles)
    /\ DOMAIN logs \subseteq Name
    /\ \A l \in DOMAIN logs : logs[l] \in Log
    /\ DOMAIN folders \subseteq Name
    /\ \A n \in DOMAIN folders : folders[n] \in Folder
    /\ todo \in SUBSET Change
    /\ moves \in 0 .. MaxMoves
    /\ finished \in SUBSET Jobs
    /\ lacking \in SUBSET Jobs

Init ==
    /\ job = 0
    /\ at = "idle"
    /\ disc = <<>>
    /\ logfile = <<>>
    /\ skip = {}
    /\ logs = [l \in {} |-> Null]
    /\ folders = [n \in {} |-> Null]
    /\ todo = {}
    /\ moves = 0
    /\ finished = {}
    /\ lacking = {}

\* A directory with the entry n, new or replaced; and without it.
With(dir, n, entry) == [m \in DOMAIN dir \cup {n} |-> IF m = n THEN entry ELSE dir[m]]
Without(dir, n) == [m \in DOMAIN dir \ {n} |-> dir[m]]

FreeOf(dir) == IF Plain \in DOMAIN dir THEN Staged(job') ELSE Plain

-----------------------------------------------------------------------------
(* A job.                                                                  *)

\* A log of the label's name, unless another job's is there.
StartJob ==
    /\ at = "idle"
    /\ job < MaxJob
    /\ job' = job + 1
    /\ at' = "naming"
    /\ \E type \in Discs[job'] : disc' = Append(disc, type)
    /\ logfile' = Append(logfile, FreeOf(logs))
    /\ logs' = With(logs, FreeOf(logs), [opened |-> job', paths |-> <<>>, pairs |-> {}])
    /\ UNCHANGED <<skip, folders, todo, moves, finished, lacking>>

Does(step, next) ==
    /\ at = step
    /\ at' = next
    /\ UNCHANGED <<job, disc, logfile, todo, moves, finished, lacking>>

OwnLog == logfile[job]

\* The folder, with the stage on its name where the title's is taken; the name
\* tried first is logged too.
MakeFolder ==
    /\ Does("naming", IF job < FirstStamped THEN "copying" ELSE "stamping")
    /\ folders' = With(folders, FreeOf(folders),
                       [maker |-> job, made |-> FreeOf(folders), copy |-> "none",
                        stamp |-> Null])
    /\ logs' = [logs EXCEPT ![OwnLog].paths =
                    IF FreeOf(folders) = Plain THEN <<Plain>> ELSE <<Plain, Staged(job)>>]
    /\ UNCHANGED skip

\* The folder the running job works in.
Own == CHOOSE n \in DOMAIN folders : folders[n].maker = job

\* _arm_write_stamp: the stamp anew, from the job and what it is given.
Written(complete, map) ==
    [job |-> job, form |-> "current", complete |-> complete, map |-> map,
     skipped |-> Null]

Stamps ==
    /\ Does("stamping", "copying")
    /\ folders' = [folders EXCEPT ![Own].stamp = Written(Null, Null)]
    /\ UNCHANGED <<skip, logs>>

\* A backup, checked since the patch, which fails the job if it is short.
\* Before the patch a DVD was not backed up.
Copy ==
    \E copied \in {"short", "full"} :
        /\ Does("copying", IF job >= FirstStamped /\ copied = "short" THEN "idle"
                           ELSE IF job >= FirstStamped /\ disc[job] = "dvd"
                                THEN "extracting" ELSE "scanning")
        /\ folders' =
            IF job >= FirstStamped
            THEN [folders EXCEPT ![Own].stamp = Written(copied = "full", Null)]
            ELSE IF disc[job] = "dvd" THEN folders
                 ELSE [folders EXCEPT ![Own].copy = copied]
        /\ UNCHANGED <<skip, logs>>

\* _arm_backup_dvd: the map of the titles MakeMKV extracted.
Extract ==
    /\ Does("extracting", "scanning")
    /\ folders' = [folders EXCEPT ![Own].stamp = Written(TRUE, TitlesOf(job))]
    /\ UNCHANGED <<skip, logs>>

\* _arm_record_scan, into the stamp as it reads it: what is skipped, and for a
\* Blu-ray every title.  Before the patch nothing is skipped.
Scan ==
    /\ Does("scanning", "encoding")
    /\ skip' \in IF job < FirstStamped THEN {{}} ELSE SUBSET TitlesOf(job) \ {TitlesOf(job)}
    /\ folders' =
        IF job < FirstStamped THEN folders
        ELSE [folders EXCEPT
                ![Own].stamp.skipped = skip',
                ![Own].stamp.map =
                    IF disc[job] = "bluray" /\ job >= FirstMapped THEN TitlesOf(job) ELSE @]
    /\ UNCHANGED logs

\* Whatever the scan trips on is logged, and every title transcoded.
ScanFails ==
    /\ job >= FirstStamped
    /\ Does("scanning", "encoding")
    /\ skip' = {}
    /\ UNCHANGED <<folders, logs>>

\* _arm_record_scan cannot read the stamp: what is skipped stays skipped, and is
\* not recorded, nor a map.
ScanUnrecorded ==
    /\ job >= FirstStamped
    /\ at = "scanning" /\ at' = "encoding"
    /\ skip' \in SUBSET TitlesOf(job) \ {{}, TitlesOf(job)}
    /\ lacking' = lacking \cup {job}
    /\ UNCHANGED <<job, disc, logfile, logs, folders, todo, moves, finished>>

Left == TitlesOf(job) \ (skip \cup logs[OwnLog].pairs)

Encode ==
    /\ at = "encoding"
    /\ \E t \in Left :
        /\ at' = IF Left = {t} THEN "idle" ELSE at
        /\ finished' = IF Left = {t} THEN finished \cup {job} ELSE finished
        /\ logs' = [logs EXCEPT ![OwnLog].pairs = @ \cup {t}]
    /\ skip' = IF at' = "idle" THEN {} ELSE skip
    /\ UNCHANGED <<job, disc, logfile, folders, todo, moves, lacking>>

\* The job fails or is abandoned.  A backup cut short may look like a copy.
Die ==
    /\ at # "idle"
    /\ Does(at, "idle")
    /\ \/ UNCHANGED folders
       \/ /\ at = "copying" /\ job < FirstStamped /\ disc[job] = "bluray"
          /\ folders' = [folders EXCEPT ![Own].copy = "short"]
    /\ skip' = {}
    /\ UNCHANGED logs

-----------------------------------------------------------------------------
(* The owner, who leaves the folders alone while the tool runs, and the    *)
(* running job's folder alone altogether.  Logs age out, oldest first.     *)

Moves ==
    /\ moves < MaxMoves
    /\ moves' = moves + 1
    /\ UNCHANGED <<jobVars, todo, finished, lacking>>

Idle(n) == todo = {} /\ (at = "idle" \/ folders[n].maker # job)

Rename(n) ==
    /\ Moves
    /\ Idle(n)
    /\ Renamed(folders[n].maker) \notin DOMAIN folders
    /\ folders' = With(Without(folders, n), Renamed(folders[n].maker), folders[n])
    /\ UNCHANGED logs

\* From a snapshot older than the current form.
Restore(n) ==
    /\ Moves
    /\ Idle(n)
    /\ folders[n].stamp # Null
    /\ folders[n].stamp.form = "current"
    /\ folders' = [folders EXCEPT ![n].stamp.form = "earlier"]
    /\ UNCHANGED logs

AgeOut(l) ==
    /\ Moves
    /\ at = "idle" \/ l # OwnLog
    /\ \A m \in DOMAIN logs : logs[l].opened <= logs[m].opened
    /\ logs' = Without(logs, l)
    /\ UNCHANGED folders

-----------------------------------------------------------------------------
(* stamps.py.                                                              *)

\* Fault: the log of the job's name, whoever wrote it.
AnyLog(j) == IF logfile[j] \in DOMAIN logs THEN {logs[logfile[j]]} ELSE {}

\* _own_log: the log the job's row names, if it opens when the job started.
\* Jobs that take one name over from another start days apart, and the window
\* is ten minutes.
LogOf(j) ==
    IF logfile[j] \in DOMAIN logs /\ logs[logfile[j]].opened = j
    THEN {logs[logfile[j]]} ELSE {}

\* log_title_map: the titles transcoded, none without a log.
LogMap(j) == UNION {log.pairs : log \in LogOf(j)}

\* Fault: a null for what is skipped taken for a title.
BlurayMapWithNull(pairs, skipped) == pairs \cup (IF skipped = Null THEN {Null} ELSE skipped)

\* bluray_title_map: the titles the log names, and those skipped.
BlurayMap(pairs, skipped) == pairs \cup (IF skipped = Null THEN {} ELSE skipped)

\* Faults: a map made from an empty log; the keys of the earlier form forgotten.
ConformEmpty(disctype, stamp, pairs) ==
    [stamp EXCEPT
        !.form = "current",
        !.map = IF disctype = "bluray" /\ @ = Null THEN BlurayMap(pairs, stamp.skipped)
                ELSE @]

ConformForgets(disctype, stamp, pairs) ==
    [stamp EXCEPT !.form = "current",
                  !.map = IF stamp.form = "earlier" THEN Null ELSE @]

\* conform: the shape, and a Blu-ray's missing map from its job's log.
Conform(disctype, stamp, pairs) ==
    [stamp EXCEPT
        !.form = "current",
        !.map = IF disctype = "bluray" /\ @ = Null /\ pairs # {}
                THEN BlurayMap(pairs, stamp.skipped) ELSE @]

\* Fault: the map left for a later run to fill.
BackfillBare(j, folder) ==
    [job |-> j, form |-> "current", map |-> Null, skipped |-> Null,
     complete |-> IF folder.copy = "short" THEN FALSE ELSE Null]

\* backfill: complete only as false, and a Blu-ray's map from its log.
Backfill(j, folder) ==
    [job |-> j, form |-> "current", skipped |-> Null,
     complete |-> IF folder.copy = "short" THEN FALSE ELSE Null,
     map |-> IF disc[j] = "bluray" /\ LogMap(j) # {} THEN BlurayMap(LogMap(j), Null)
             ELSE Null]

\* Fault: the first path logged.
FirstLogPath(j) == {log.paths[1] : log \in {l \in LogOf(j) : l.paths # <<>>}}

\* log_raw_path: the last path logged.
LogPath(j) ==
    {log.paths[Len(log.paths)] : log \in {l \in LogOf(j) : l.paths # <<>>}}

\* _proven_folder: by the log or by the stage, and by both if both name one.
Proven(j, raw) ==
    LET candidates == (LogPath(j) \cup {Staged(j)}) \cap DOMAIN raw
    IN IF Cardinality(candidates) = 1 THEN candidates ELSE {}

\* A folder claimed by two jobs is passed over, and so is one with a stamp.
Claims(raw, n) ==
    LET stamped == {raw[m].stamp.job : m \in {f \in DOMAIN raw : raw[f].stamp # Null}}
    IN {j \in Begun \ stamped : n \in Proven(j, raw) /\ raw[n].copy # "none"}

Rewrites(raw) ==
    {change \in
        {[name |-> n, before |-> raw[n].stamp,
          after |-> Conform(disc[raw[n].stamp.job], raw[n].stamp,
                            LogMap(raw[n].stamp.job))] :
            n \in {f \in DOMAIN raw : raw[f].stamp # Null}} :
        change.after # change.before}

Backfills(raw) ==
    {[name |-> n, before |-> Null, after |-> Backfill(CHOOSE j \in Claims(raw, n) : TRUE, raw[n])] :
        n \in {f \in DOMAIN raw : raw[f].stamp = Null /\ Cardinality(Claims(raw, f)) = 1}}

PlanFor(raw) == Rewrites(raw) \cup Backfills(raw)

\* main with --write: the plan is whole before the first stamp is written.  The
\* tool came after the last patch: every earlier job has ended.
Plan ==
    /\ job >= FirstMapped \/ (job + 1 = FirstMapped /\ at = "idle")
    /\ todo = {}
    /\ todo' = PlanFor(folders)
    /\ lacking' = lacking \cup {j \in Begun \ finished :
                    LogMap(j) # {} /\ \E change \in todo' : change.after.job = j}
    /\ UNCHANGED <<jobVars, logs, folders, moves, finished>>

\* write: whole or not at all.
Write(change) ==
    /\ folders' = [folders EXCEPT ![change.name].stamp = change.after]
    /\ todo' = todo \ {change}
    /\ UNCHANGED <<jobVars, logs, moves, finished, lacking>>

\* The run is stopped, or its pod is gone.
StopTool ==
    /\ todo # {}
    /\ todo' = {}
    /\ UNCHANGED <<jobVars, logs, folders, moves, finished, lacking>>

-----------------------------------------------------------------------------
JobStep ==
    \/ StartJob \/ MakeFolder \/ Stamps \/ Copy \/ Extract
    \/ Scan \/ ScanFails \/ ScanUnrecorded \/ Encode \/ Die

Next ==
    \/ JobStep
    \/ \E n \in DOMAIN folders : Rename(n) \/ Restore(n)
    \/ \E l \in DOMAIN logs : AgeOut(l)
    \/ Plan
    \/ \E change \in todo : Write(change)
    \/ StopTool

Spec == Init /\ [][Next]_vars

-----------------------------------------------------------------------------
(* Properties.                                                             *)

StampOf(n) == folders[n].stamp

StampedNames == {n \in DOMAIN folders : StampOf(n) # Null}

\* A stamp names the job that made its folder, whichever logs have aged out and
\* whichever names were taken -- unless the job it names made a folder under the
\* same name before, since renamed: its log's last path is then no proof.
StampNamesMaker ==
    \A n \in StampedNames : \E m \in DOMAIN folders :
        /\ folders[m].maker = StampOf(n).job
        /\ folders[m].made = folders[n].made

\* No job writes a stamp that the tool has read, means to change and has not yet
\* written: what it overwrites is what it planned from, though nothing locks.
PlanStaysCurrent ==
    \A change \in todo :
        change.name \in DOMAIN folders /\ StampOf(change.name) = change.before

\* A Blu-ray's map, where it has one, lists every title HandBrake was given, and
\* of that very disc -- unless the tool ran while the job was transcoding, or the
\* job failed at it: it then lists the titles so far, and no later run adds more;
\* or unless the job could not record what it skipped: the log is without it.
MapIsWhole ==
    \A n \in StampedNames :
        disc[StampOf(n).job] = "bluray" /\ StampOf(n).job \notin lacking =>
            StampOf(n).map \in {Null, TitlesOf(StampOf(n).job)}

\* A run leaves the next one nothing to do, unless logs or folders change.
SecondRunIsQuiet ==
    LET plan == PlanFor(folders)
        changed == {c.name : c \in plan}
        after == [n \in DOMAIN folders |->
                    IF n \notin changed THEN folders[n]
                    ELSE [folders[n] EXCEPT
                            !.stamp = (CHOOSE c \in plan : c.name = n).after]]
    IN plan # {} => PlanFor(after) = {}

\* No step, of a job or of the tool, takes a title off a map: the earlier forms
\* are read, and a job's stamp written anew is one that had no map yet.
MapNeverShrinks ==
    [][\A n \in StampedNames \cap DOMAIN folders' :
        /\ folders'[n].maker = folders[n].maker
        /\ StampOf(n).map # Null
        => /\ StampOf(n)'.map # Null
           /\ StampOf(n).map \subseteq StampOf(n)'.map]_folders
=============================================================================
