-------------------------- MODULE ArmStampsProofs ---------------------------
(***************************************************************************)
(* What a stamp is worth, for any jobs, discs, titles and ages of the      *)
(* patches, and any logs gone and folders renamed.  The invariant says     *)
(* which folders and logs can have a name, what the running job's stamp is *)
(* at each of its steps, and what the tool has planned.                    *)
(***************************************************************************)
EXTENDS ArmStamps, FiniteSetTheorems, SequenceTheorems, TLAPS

\* The steps of a job that has its folder, and those before its first title.
BeforeTitles == {"stamping", "copying", "extracting", "scanning"}
Working == BeforeTitles \cup {"encoding"}

\* Job j made a folder under the name n, whatever its name is now.
MadeBy(j, n) ==
    \E m \in DOMAIN folders : folders[m].maker = j /\ folders[m].made = n

\* A job makes one folder.  It keeps its name or has its owner's, and of those
\* made under the title's name only the latest can still have it.
FoldersByMaker ==
    /\ \A n \in DOMAIN folders :
        /\ folders[n].maker \in Begun
        /\ at = "naming" => folders[n].maker # job
        /\ n = folders[n].made \/ n = Renamed(folders[n].maker)
        /\ folders[n].made \in {Plain, Staged(folders[n].maker)}
        /\ folders[n].made = Plain /\ Plain \in DOMAIN folders =>
            folders[n].maker <= folders[Plain].maker
    /\ \A n, m \in DOMAIN folders : folders[n].maker = folders[m].maker => n = m
    /\ at \in Working => \E n \in DOMAIN folders : folders[n].maker = job

\* A log is of the job that opened it: its last path is the folder it made, and
\* its titles are of its disc.  The running job's is there.
LogsByJob ==
    /\ \A j \in Begun : logfile[j] \in {Plain, Staged(j)}
    /\ \A l \in DOMAIN logs :
        /\ logs[l].opened \in Begun
        /\ l = logfile[logs[l].opened]
        /\ \/ logs[l].paths = <<>>
           \/ logs[l].paths = <<Plain>> /\ MadeBy(logs[l].opened, Plain)
           \/ /\ logs[l].paths = <<Plain, Staged(logs[l].opened)>>
              /\ MadeBy(logs[l].opened, Staged(logs[l].opened))
        /\ logs[l].pairs \subseteq TitlesOf(logs[l].opened)
    /\ at # "idle" =>
        /\ OwnLog \in DOMAIN logs /\ logs[OwnLog].opened = job
        /\ at # "encoding" => logs[OwnLog].pairs = {}

TitlesIn(field) == IF field = Null THEN {} ELSE field

\* The stamp of the running job's folder, step by step.
StampBySteps(stamp) ==
    /\ at = "encoding" => skip \subseteq TitlesOf(job)
    /\ job < FirstStamped =>
        /\ at \in {"copying", "scanning", "encoding"}
        /\ stamp = Null
        /\ at = "encoding" => skip = {}
    /\ job >= FirstStamped =>
        /\ at = "stamping" => stamp = Null
        /\ at # "stamping" => stamp # Null /\ stamp.job = job
        /\ at \in {"copying", "extracting", "scanning"} =>
            /\ stamp.form = "current" /\ stamp.skipped = Null
            /\ stamp.map \in {Null, TitlesOf(job)}
        /\ at \in {"copying", "extracting"} => stamp.map = Null
        /\ at = "encoding" /\ job \notin lacking => skip = TitlesIn(stamp.skipped)

RunningStamp ==
    \A n \in DOMAIN folders :
        at \in Working /\ folders[n].maker = job => StampBySteps(folders[n].stamp)

\* Only the earliest jobs' folders are stamped by the tool, and with none but
\* the earliest jobs.
StampsByAge ==
    \A n \in DOMAIN folders :
        /\ folders[n].copy # "none" => folders[n].maker < FirstStamped
        /\ folders[n].stamp # Null =>
            /\ folders[n].stamp.job \in Begun
            /\ MadeBy(folders[n].stamp.job, folders[n].made)
            /\ folders[n].maker < FirstStamped =>
                folders[n].stamp.job < FirstStamped /\ folders[n].stamp.skipped = Null
            /\ folders[n].maker >= FirstStamped => folders[n].stamp.job = folders[n].maker

\* What the map of a stamp whose job lacks nothing holds.
WholeOrNull(stamp) ==
    disc[stamp.job] = "bluray" /\ stamp.job \notin lacking =>
        stamp.map \in {Null, TitlesOf(stamp.job)}

\* What is planned is of a stamp as it still is, of no folder whose job is yet to
\* write one, and adds to it.
PlanIsSound ==
    /\ todo # {} => job >= FirstMapped \/ (job + 1 = FirstMapped /\ at = "idle")
    /\ \A c, e \in todo : c.name = e.name => c = e
    /\ \A c \in todo :
        /\ c.name \in DOMAIN folders /\ StampOf(c.name) = c.before
        /\ at \in BeforeTitles => folders[c.name].maker # job
        /\ c.after.job \in Begun
        /\ MadeBy(c.after.job, folders[c.name].made)
        /\ WholeOrNull(c.after)
        /\ c.before = Null =>
            /\ folders[c.name].maker < FirstStamped
            /\ c.after.job < FirstStamped /\ c.after.skipped = Null
        /\ c.before # Null =>
            /\ c.after.job = c.before.job /\ c.after.skipped = c.before.skipped
            /\ c.before.map # Null => c.after.map = c.before.map

\* A finished job's log, if it is there, and what its stamp says was skipped make
\* up the disc, if what it skipped is recorded.
FinishedLogs ==
    /\ at # "idle" => job \notin finished
    /\ \A j \in finished :
        /\ j \in Begun
        /\ LogOf(j) # {} =>
            /\ j < FirstStamped => LogMap(j) = TitlesOf(j)
            /\ \A n \in DOMAIN folders :
                folders[n].maker = j /\ j >= FirstStamped =>
                    /\ folders[n].stamp # Null
                    /\ j \notin lacking =>
                        LogMap(j) \cup TitlesIn(folders[n].stamp.skipped) = TitlesOf(j)

IInv ==
    /\ TypeOK
    /\ FoldersByMaker
    /\ LogsByJob
    /\ RunningStamp
    /\ StampsByAge
    /\ PlanIsSound
    /\ FinishedLogs
    /\ MapIsWhole

-----------------------------------------------------------------------------
(* Names, sequences, directories.                                          *)

\* A name tells what it is, and whose.
LEMMA NamesDiffer ==
    /\ \A j : Plain # Staged(j) /\ Plain # Renamed(j)
    /\ \A i, j : Staged(i) # Renamed(j)
    /\ \A i, j : Staged(i) = Staged(j) => i = j
    /\ \A i, j : Renamed(i) = Renamed(j) => i = j
<1>1. Len(Plain) = 1
  BY DEF Plain
<1>2. \A j : Len(Staged(j)) = 2 /\ Staged(j)[1] = "title" /\ Staged(j)[2] = j
  BY DEF Staged
<1>3. \A j : Len(Renamed(j)) = 2 /\ Renamed(j)[1] = "renamed" /\ Renamed(j)[2] = j
  BY DEF Renamed
<1>4. \A j : Plain # Staged(j) /\ Plain # Renamed(j)
  BY <1>1, <1>2, <1>3
<1>5. \A i, j : Staged(i) # Renamed(j)
  BY <1>2, <1>3
<1>6. \A i, j : Staged(i) = Staged(j) => i = j
  BY <1>2
<1>7. \A i, j : Renamed(i) = Renamed(j) => i = j
  BY <1>3
<1>8. QED BY <1>4, <1>5, <1>6, <1>7

LEMMA NamesAre == Plain \in Name /\ \A j \in Jobs : Staged(j) \in Name /\ Renamed(j) \in Name
BY DEF Name

\* An entry more at the end of what each job begun has.
LEMMA AppendedEntry ==
    ASSUME NEW S, NEW n \in Nat, NEW s \in [1 .. n -> S], NEW e \in S
    PROVE  /\ Append(s, e) \in [1 .. n + 1 -> S]
           /\ Append(s, e)[n + 1] = e
           /\ \A i \in 1 .. n : Append(s, e)[i] = s[i]
<1>1. s \in Seq(S) /\ Len(s) = n
  OBVIOUS
<1>2. Append(s, e) \in Seq(S) /\ Len(Append(s, e)) = n + 1
  BY <1>1
<1>3. Append(s, e)[n + 1] = e /\ \A i \in 1 .. n : Append(s, e)[i] = s[i]
  BY <1>1
<1>4. Append(s, e) \in [1 .. n + 1 -> S]
  BY <1>2, LenProperties
<1>5. QED BY <1>3, <1>4

\* A directory with an entry more, or less.
LEMMA WithIs ==
    ASSUME NEW dir, NEW n, NEW entry
    PROVE  /\ DOMAIN With(dir, n, entry) = DOMAIN dir \cup {n}
           /\ With(dir, n, entry)[n] = entry
           /\ \A m \in DOMAIN dir : m # n => With(dir, n, entry)[m] = dir[m]
BY DEF With

LEMMA WithoutIs ==
    ASSUME NEW dir, NEW n
    PROVE  /\ DOMAIN Without(dir, n) = DOMAIN dir \ {n}
           /\ \A m \in DOMAIN dir \ {n} : Without(dir, n)[m] = dir[m]
BY DEF Without

\* The fields of a stamp, a folder, a log.
LEMMA StampIs ==
    ASSUME NEW s \in Stamp
    PROVE  /\ s # Null /\ s.job \in Jobs /\ s.form \in {"current", "earlier"}
           /\ s.complete \in {Null} \cup BOOLEAN /\ s.map \in Map /\ s.skipped \in Map
           /\ s = [job |-> s.job, form |-> s.form, complete |-> s.complete, map |-> s.map,
                   skipped |-> s.skipped]
BY NoStampIsNull DEF Stamp

\* A job begun is one of the jobs.
LEMMA BegunAreJobs == TypeOK => Begun \subseteq Jobs /\ job \in Nat /\ MaxJob \in Nat
BY ArmStampsAssumption DEF TypeOK, Begun, Jobs

\* What jobs made is kept.
LEMMA MadeStays ==
    ASSUME \A n \in DOMAIN folders : \E m \in DOMAIN folders' :
               /\ folders'[m].maker = folders[n].maker
               /\ folders'[m].made = folders[n].made
    PROVE  \A j, n : MadeBy(j, n) => MadeBy(j, n)'
BY DEF MadeBy

\* The titles of a log are those of its job's disc.
LEMMA LogIs ==
    ASSUME TypeOK, LogsByJob, NEW j
    PROVE  /\ LogMap(j) \subseteq TitlesOf(j)
           /\ LogOf(j) = {} => LogMap(j) = {}
           /\ \A log \in LogOf(j) :
               /\ LogOf(j) = {log} /\ LogMap(j) = log.pairs /\ log.opened = j
               /\ logfile[j] \in DOMAIN logs /\ log = logs[logfile[j]]
BY DEF LogMap, LogOf, LogsByJob

LEMMA TitlesAreMaps ==
    /\ \A j \in Jobs : TitlesOf(j) \in SUBSET (Jobs \X Titles)
    /\ \A S \in SUBSET (Jobs \X Titles) : S # Null /\ S \in Map
BY ArmStampsAssumption DEF TitlesOf, Map

\* The folder of the running job.
LEMMA OwnIs ==
    ASSUME FoldersByMaker, at \in Working
    PROVE  /\ Own \in DOMAIN folders /\ folders[Own].maker = job
           /\ \A n \in DOMAIN folders : folders[n].maker = job => n = Own
BY DEF Own, FoldersByMaker

\* The free name is not taken, and for a folder the job's own.
LEMMA FreeFolderIsFree ==
    ASSUME FoldersByMaker, at = "naming", job' = job
    PROVE  /\ FreeOf(folders) \notin DOMAIN folders
           /\ FreeOf(folders) \in {Plain, Staged(job)}
           /\ FreeOf(folders) = Plain \/ Plain \in DOMAIN folders
BY NamesDiffer DEF FoldersByMaker, FreeOf

LEMMA FreeLogIsFree ==
    ASSUME TypeOK, LogsByJob, job' = job + 1
    PROVE  /\ FreeOf(logs) \notin DOMAIN logs
           /\ FreeOf(logs) \in {Plain, Staged(job + 1)}
<1>1. FreeOf(logs) \in {Plain, Staged(job + 1)}
  BY DEF FreeOf
<1>2. Staged(job + 1) \notin DOMAIN logs
  <2>1. SUFFICES ASSUME Staged(job + 1) \in DOMAIN logs PROVE FALSE
    OBVIOUS
  <2>2. PICK j \in Begun : Staged(job + 1) = logfile[j]
    BY <2>1 DEF LogsByJob
  <2>3. j = job + 1
    BY <2>2, NamesDiffer DEF LogsByJob
  <2>4. QED BY <2>3, BegunAreJobs DEF Begun
<1>3. QED BY <1>1, <1>2 DEF FreeOf

-----------------------------------------------------------------------------
(* A job.                                                                  *)

LEMMA InitIInv == Init => IInv
<1> SUFFICES ASSUME Init PROVE IInv
  OBVIOUS
<1>1. DOMAIN folders = {} /\ DOMAIN logs = {} /\ Begun = {} /\ 1 .. 0 = {}
  BY DEF Init, Begun
<1>2. TypeOK
  BY <1>1, ArmStampsAssumption DEF Init, TypeOK
<1>3. FoldersByMaker /\ LogsByJob /\ RunningStamp /\ StampsByAge
  BY <1>1 DEF Init, FoldersByMaker, LogsByJob, RunningStamp, StampsByAge, Working,
              BeforeTitles
<1>4. PlanIsSound /\ FinishedLogs /\ MapIsWhole
  BY <1>1 DEF Init, PlanIsSound, FinishedLogs, MapIsWhole, StampedNames
<1>5. QED BY <1>2, <1>3, <1>4 DEF IInv


\* A job's step that at most writes its own folder's stamp, or how much of its
\* disc is copied, keeps everything but what the stamp is at the next step.
LEMMA JobStepKeeps ==
    ASSUME IInv, at # "idle", RunningStamp',
           UNCHANGED <<job, disc, logfile, todo, moves, finished, logs>>,
           lacking' \in {lacking, lacking \cup {job}},
           at' \in Working \cup {"idle"},
           skip' \in SUBSET (Jobs \X Titles),
           at' \in Working => at \in BeforeTitles,
           at' \in BeforeTitles => at \in BeforeTitles,
           DOMAIN folders' = DOMAIN folders,
           \A n \in DOMAIN folders :
              \/ folders'[n] = folders[n]
              \/ /\ folders[n].maker = job /\ at \in BeforeTitles
                 /\ folders'[n] \in Folder
                 /\ folders'[n].maker = job /\ folders'[n].made = folders[n].made
                 /\ folders'[n].copy # "none" => job < FirstStamped
                 /\ \/ folders'[n].stamp = folders[n].stamp
                    \/ /\ folders'[n].stamp # Null /\ job >= FirstStamped
                       /\ folders'[n].stamp.job = job
                       /\ folders'[n].stamp.map \in {Null, TitlesOf(job)}
    PROVE  IInv'
<1> USE DEF IInv
<1>1. TypeOK'
  <2>1. job \in Jobs
    BY BegunAreJobs DEF LogsByJob
  <2>2. lacking' \in SUBSET Jobs
    BY <2>1 DEF TypeOK
  <2>3. QED BY <2>2 DEF TypeOK, Working, BeforeTitles, Begun
<1>2. \A n \in DOMAIN folders : folders'[n].maker = folders[n].maker
                                 /\ folders'[n].made = folders[n].made
  OBVIOUS
<1>3. \A j, n : MadeBy(j, n)' = MadeBy(j, n)
  BY <1>2 DEF MadeBy
<1>4. Begun' = Begun /\ \A j : LogOf(j)' = LogOf(j) /\ LogMap(j)' = LogMap(j)
  BY DEF Begun, LogOf, LogMap
<1>5. job \in Begun /\ (at \in BeforeTitles => at # "encoding" /\ at \in Working)
  BY DEF LogsByJob, Working, BeforeTitles
<1>6. FoldersByMaker'
  <2>1. at' \in Working => \E n \in DOMAIN folders : folders[n].maker = job
    BY <1>5 DEF FoldersByMaker
  <2>2. at' # "naming"
    BY DEF Working, BeforeTitles
  <2>3. QED BY <1>2, <1>4, <2>1, <2>2 DEF FoldersByMaker
<1>7. LogsByJob'
  <2>1. at' # "idle" => at # "idle" /\ (at' # "encoding" => at # "encoding")
    BY <1>5 DEF Working
  <2>2. QED BY <1>3, <1>4, <2>1, <1>5 DEF LogsByJob, OwnLog, Working, BeforeTitles
<1>8. StampsByAge'
  <2> SUFFICES ASSUME NEW n \in DOMAIN folders
               PROVE  /\ folders'[n].copy # "none" => folders[n].maker < FirstStamped
                      /\ folders'[n].stamp # Null =>
                          /\ folders'[n].stamp.job \in Begun
                          /\ MadeBy(folders'[n].stamp.job, folders[n].made)
                          /\ folders[n].maker < FirstStamped =>
                              /\ folders'[n].stamp.job < FirstStamped
                              /\ folders'[n].stamp.skipped = Null
                          /\ folders[n].maker >= FirstStamped =>
                              folders'[n].stamp.job = folders[n].maker
    BY <1>2, <1>3, <1>4 DEF StampsByAge
  <2>1. CASE folders'[n] = folders[n]
    BY <2>1 DEF StampsByAge
  <2>2. CASE folders'[n] # folders[n]
    <3>1. MadeBy(job, folders[n].made)
      BY <2>2 DEF MadeBy
    <3>2. FirstStamped \in Nat /\ job \in Nat
      BY BegunAreJobs, ArmStampsAssumption
    <3>3. QED BY <1>5, <2>2, <3>1, <3>2 DEF StampsByAge
  <2>3. QED BY <2>1, <2>2
<1>9. PlanIsSound'
  <2>1. \A c \in todo : folders[c.name].maker # job \/ at \notin BeforeTitles
    BY DEF PlanIsSound
  <2>2. \A c \in todo : c.name \in DOMAIN folders /\ folders'[c.name] = folders[c.name]
    BY <2>1 DEF PlanIsSound
  <2>3. todo # {} => job >= FirstMapped
    BY DEF PlanIsSound
  <2>4. QED BY <1>2, <1>3, <1>4, <2>1, <2>2, <2>3 DEF PlanIsSound, StampOf, WholeOrNull
<1>10. FinishedLogs'
  <2>1. \A n \in DOMAIN folders : folders[n].maker \in finished => folders'[n] = folders[n]
    BY DEF FinishedLogs
  <2>2. QED BY <1>2, <1>4, <2>1 DEF FinishedLogs
<1>11. MapIsWhole'
  <2> SUFFICES ASSUME NEW n \in DOMAIN folders, folders'[n].stamp # Null
               PROVE  WholeOrNull(folders'[n].stamp)
    BY DEF MapIsWhole, WholeOrNull, StampedNames, StampOf
  <2>1. CASE folders'[n].stamp = folders[n].stamp
    BY <2>1 DEF MapIsWhole, WholeOrNull, StampedNames, StampOf
  <2>2. CASE folders'[n].stamp # folders[n].stamp
    BY <2>2 DEF WholeOrNull
  <2>3. QED BY <2>1, <2>2
<1>12. QED BY <1>1, <1>6, <1>7, <1>8, <1>9, <1>10, <1>11

LEMMA WrittenIs ==
    ASSUME TypeOK, job \in Jobs, NEW complete \in {Null} \cup BOOLEAN, NEW map \in Map
    PROVE  /\ Written(complete, map) \in Stamp
           /\ Written(complete, map).job = job
           /\ Written(complete, map).form = "current"
           /\ Written(complete, map).map = map
           /\ Written(complete, map).skipped = Null
BY DEF Written, Stamp, Map

\* A patched job's step that writes the stamp s keeps everything, if s is what
\* the stamp is at the next step.
LEMMA StampWrittenKeeps ==
    ASSUME IInv, at \in BeforeTitles, job >= FirstStamped,
           UNCHANGED <<job, disc, logfile, todo, moves, finished, lacking, logs>>,
           at' \in Working \cup {"idle"},
           skip' \in SUBSET (Jobs \X Titles),
           NEW s \in Stamp, s.job = job, s.map \in {Null, TitlesOf(job)},
           folders' = [folders EXCEPT ![Own].stamp = s],
           at' \in Working => StampBySteps(s)'
    PROVE  IInv'
<1>1. /\ Own \in DOMAIN folders /\ folders[Own].maker = job /\ folders[Own] \in Folder
      /\ \A n \in DOMAIN folders : folders[n].maker = job => n = Own
  BY OwnIs DEF IInv, Working, TypeOK
<1>2. /\ DOMAIN folders' = DOMAIN folders
      /\ \A n \in DOMAIN folders : n # Own => folders'[n] = folders[n]
      /\ folders'[Own] = [folders[Own] EXCEPT !.stamp = s]
  BY <1>1
<1>3. /\ folders'[Own] \in Folder /\ folders'[Own].maker = job
      /\ folders'[Own].made = folders[Own].made /\ folders'[Own].copy = folders[Own].copy
      /\ folders'[Own].stamp = s /\ s # Null
  BY <1>1, <1>2, StampIs DEF Folder
<1>4. RunningStamp'
  <2>1. \A n \in DOMAIN folders' : folders'[n].maker = job => folders'[n].stamp = s
    BY <1>1, <1>2, <1>3
  <2>2. QED BY <2>1 DEF RunningStamp
<1>5. folders'[Own].copy # "none" => job < FirstStamped
  BY <1>1, <1>3 DEF IInv, StampsByAge
<1>6. at # "idle"
  BY DEF BeforeTitles
<1> HIDE DEF Own
<1>7. \A n \in DOMAIN folders :
              \/ folders'[n] = folders[n]
              \/ /\ folders[n].maker = job /\ at \in BeforeTitles
                 /\ folders'[n] \in Folder
                 /\ folders'[n].maker = job /\ folders'[n].made = folders[n].made
                 /\ folders'[n].copy # "none" => job < FirstStamped
                 /\ \/ folders'[n].stamp = folders[n].stamp
                    \/ /\ folders'[n].stamp # Null /\ job >= FirstStamped
                       /\ folders'[n].stamp.job = job
                       /\ folders'[n].stamp.map \in {Null, TitlesOf(job)}
  BY <1>1, <1>2, <1>3, <1>5
<1>8. QED BY <1>2, <1>4, <1>6, <1>7, JobStepKeeps

\* The running job is one, and what its folder's stamp is.
LEMMA Running ==
    ASSUME IInv, at # "idle"
    PROVE  /\ job \in Jobs /\ job \in Nat /\ FirstStamped \in Nat
           /\ TitlesOf(job) \in Map /\ Null \in Map
           /\ skip \in SUBSET (Jobs \X Titles)
           /\ at \in Working => /\ Own \in DOMAIN folders /\ folders[Own].maker = job
                                /\ folders[Own] \in Folder
                                /\ StampBySteps(folders[Own].stamp)
<1>1. job \in Jobs
  BY BegunAreJobs DEF IInv, LogsByJob
<1>2. TitlesOf(job) \in Map /\ Null \in Map
  BY <1>1, TitlesAreMaps DEF Map
<1>3. QED
  BY <1>1, <1>2, OwnIs, BegunAreJobs, ArmStampsAssumption DEF IInv, TypeOK, RunningStamp

LEMMA StampsKeeps == ASSUME IInv, Stamps PROVE IInv'
<1>1. /\ at = "stamping" /\ at' = "copying" /\ skip' = skip
      /\ UNCHANGED <<job, disc, logfile, todo, moves, finished, lacking, logs>>
      /\ folders' = [folders EXCEPT ![Own].stamp = Written(Null, Null)]
  BY DEF Stamps, Does
<1>2. at \in BeforeTitles /\ at \in Working /\ at' \in Working
  BY <1>1 DEF BeforeTitles, Working
<1>3. job >= FirstStamped
  BY <1>1, <1>2, Running DEF StampBySteps
<1>4. PICK s \in Stamp : /\ s = Written(Null, Null)
                         /\ s.job = job /\ s.form = "current" /\ s.map = Null
                         /\ s.skipped = Null
  BY <1>1, Running, WrittenIs DEF IInv
<1>5. StampBySteps(s)'
  BY <1>1, <1>3, <1>4, StampIs, Running DEF StampBySteps
<1>6. QED BY <1>1, <1>2, <1>3, <1>4, <1>5, Running, StampWrittenKeeps

LEMMA ExtractKeeps == ASSUME IInv, Extract PROVE IInv'
<1>1. /\ at = "extracting" /\ at' = "scanning" /\ skip' = skip
      /\ UNCHANGED <<job, disc, logfile, todo, moves, finished, lacking, logs>>
      /\ folders' = [folders EXCEPT ![Own].stamp = Written(TRUE, TitlesOf(job))]
  BY DEF Extract, Does
<1>2. at \in BeforeTitles /\ at \in Working /\ at' \in Working
  BY <1>1 DEF BeforeTitles, Working
<1>3. job >= FirstStamped
  BY <1>1, <1>2, Running DEF StampBySteps
<1>4. PICK s \in Stamp : /\ s = Written(TRUE, TitlesOf(job))
                         /\ s.job = job /\ s.form = "current" /\ s.map = TitlesOf(job)
                         /\ s.skipped = Null
  BY <1>1, Running, WrittenIs DEF IInv
<1>5. StampBySteps(s)'
  <2>1. TitlesOf(job)' = TitlesOf(job)
    BY <1>1 DEF TitlesOf
  <2>2. s # Null /\ ~(job < FirstStamped)
    BY <1>1, <1>3, StampIs, Running
  <2>3. at' = "scanning" /\ job' = job /\ s.map \in {Null, TitlesOf(job)'}
    BY <1>1, <1>4, <2>1
  <2>4. QED BY <1>4, <2>2, <2>3 DEF StampBySteps
<1>6. QED BY <1>1, <1>2, <1>3, <1>4, <1>5, Running, StampWrittenKeeps


LEMMA CopyKeeps == ASSUME IInv, Copy PROVE IInv'
<1>1. PICK copied \in {"short", "full"} :
        /\ Does("copying", IF job >= FirstStamped /\ copied = "short" THEN "idle"
                           ELSE IF job >= FirstStamped /\ disc[job] = "dvd"
                                THEN "extracting" ELSE "scanning")
        /\ folders' =
            IF job >= FirstStamped
            THEN [folders EXCEPT ![Own].stamp = Written(copied = "full", Null)]
            ELSE IF disc[job] = "dvd" THEN folders
                 ELSE [folders EXCEPT ![Own].copy = copied]
        /\ UNCHANGED <<skip, logs>>
  BY DEF Copy
<1>2. /\ at = "copying" /\ skip' = skip /\ at' \in {"idle", "extracting", "scanning"}
      /\ at' = "extracting" => job >= FirstStamped
      /\ UNCHANGED <<job, disc, logfile, todo, moves, finished, lacking, logs>>
  BY <1>1 DEF Does
<1>3. at \in BeforeTitles /\ at \in Working /\ at' \in Working \cup {"idle"}
  BY <1>2 DEF BeforeTitles, Working
<1>4. CASE job >= FirstStamped
  <2>1. (copied = "full") \in {Null} \cup BOOLEAN
    BY Zenon
  <2>2. PICK s \in Stamp : /\ s = Written(copied = "full", Null)
                           /\ s.job = job /\ s.form = "current" /\ s.map = Null
                           /\ s.skipped = Null
    BY <1>2, <2>1, Running, WrittenIs DEF IInv
  <2>3. folders' = [folders EXCEPT ![Own].stamp = s]
    BY <1>1, <1>4, <2>2
  <2>4. at' \in Working => StampBySteps(s)'
    BY <1>2, <1>4, <2>2, StampIs, Running DEF StampBySteps, Working, BeforeTitles
  <2>5. QED BY <1>2, <1>3, <1>4, <2>2, <2>3, <2>4, Running, StampWrittenKeeps
<1>5. CASE job < FirstStamped
  <2>1. ~(job >= FirstStamped)
    BY <1>2, <1>5, Running
  <2>2. /\ Own \in DOMAIN folders /\ folders[Own].maker = job /\ folders[Own] \in Folder
        /\ StampBySteps(folders[Own].stamp) /\ at' = "scanning"
    BY <1>1, <1>2, <1>3, <2>1, Running DEF Does
  <2>3. folders' = folders \/ folders' = [folders EXCEPT ![Own].copy = copied]
    BY <1>1, <2>1
  <2> HIDE DEF Own
  <2>4. /\ DOMAIN folders' = DOMAIN folders
        /\ \A n \in DOMAIN folders :
            \/ folders'[n] = folders[n]
            \/ /\ n = Own /\ folders'[n] \in Folder
               /\ folders'[n].maker = job /\ folders'[n].made = folders[n].made
               /\ folders'[n].stamp = folders[n].stamp
    BY <2>2, <2>3 DEF Folder
  <2>5. RunningStamp'
    <3>1. \A n \in DOMAIN folders : folders'[n].maker = folders[n].maker
                                     /\ folders'[n].stamp = folders[n].stamp
      BY <2>2, <2>4
    <3>2. \A n \in DOMAIN folders : folders[n].maker = job => folders[n].stamp = Null
      BY <1>3, <1>5 DEF IInv, RunningStamp, StampBySteps
    <3>3. QED BY <1>2, <1>5, <2>1, <2>2, <2>4, <3>1, <3>2 DEF RunningStamp, StampBySteps
  <2>6. \A n \in DOMAIN folders :
              \/ folders'[n] = folders[n]
              \/ /\ folders[n].maker = job /\ at \in BeforeTitles
                 /\ folders'[n] \in Folder
                 /\ folders'[n].maker = job /\ folders'[n].made = folders[n].made
                 /\ folders'[n].copy # "none" => job < FirstStamped
                 /\ folders'[n].stamp = folders[n].stamp
    BY <1>3, <1>5, <2>2, <2>4
  <2>7. QED BY <1>2, <1>3, <2>4, <2>5, <2>6, Running, JobStepKeeps
<1>6. QED BY <1>2, <1>4, <1>5, Running

LEMMA ScanKeeps == ASSUME IInv, Scan PROVE IInv'
<1>1. /\ at = "scanning" /\ at' = "encoding"
      /\ skip' \in SUBSET TitlesOf(job)
      /\ job < FirstStamped => skip' = {}
      /\ UNCHANGED <<job, disc, logfile, todo, moves, finished, lacking, logs>>
  BY DEF Scan, Does
<1>2. at \in BeforeTitles /\ at \in Working /\ at' \in Working
  BY <1>1 DEF BeforeTitles, Working
<1>3. /\ job \in Jobs /\ job \in Nat /\ FirstStamped \in Nat
      /\ Own \in DOMAIN folders /\ folders[Own].maker = job /\ folders[Own] \in Folder
      /\ StampBySteps(folders[Own].stamp)
  BY <1>1, <1>2, Running
<1>4. skip' \in SUBSET (Jobs \X Titles) /\ skip' \in Map /\ skip' # Null
  <2>1. skip' \in SUBSET (Jobs \X Titles)
    BY <1>1, <1>3, TitlesAreMaps
  <2>2. QED BY <2>1, TitlesAreMaps
<1>5. CASE job >= FirstStamped
  <2> DEFINE old == folders[Own].stamp
             map == IF disc[job] = "bluray" /\ job >= FirstMapped THEN TitlesOf(job)
                    ELSE old.map
  <2>1. old \in Stamp /\ old.job = job /\ old.map \in {Null, TitlesOf(job)}
    BY <1>1, <1>3, <1>5 DEF StampBySteps, Folder
  <2>2. map \in {Null, TitlesOf(job)} /\ map \in Map
    BY <1>3, <2>1, TitlesAreMaps DEF Map
  <2>3. folders' = [folders EXCEPT ![Own].stamp = [old EXCEPT !.skipped = skip', !.map = map]]
    <3>1. ~(job < FirstStamped)
      BY <1>3, <1>5
    <3>2. folders' = [folders EXCEPT
                ![Own].stamp.skipped = skip',
                ![Own].stamp.map =
                    IF disc[job] = "bluray" /\ job >= FirstMapped THEN TitlesOf(job) ELSE @]
      BY <3>1 DEF Scan
    <3> HIDE DEF Own
    <3>3. QED BY <1>3, <2>1, <3>2 DEF Folder, Stamp
  <2>4. PICK s \in Stamp : /\ s = [old EXCEPT !.skipped = skip', !.map = map]
                           /\ s.job = job /\ s.map \in {Null, TitlesOf(job)}
                           /\ s.skipped = skip'
    <3> DEFINE new == [old EXCEPT !.skipped = skip', !.map = map]
    <3> HIDE DEF old, map
    <3>1. new \in Stamp
      BY <1>4, <2>1, <2>2 DEF Stamp
    <3>2. new.job = old.job /\ new.map = map /\ new.skipped = skip'
      BY <2>1 DEF Stamp
    <3>3. QED BY <2>1, <2>2, <3>1, <3>2
  <2>5. folders' = [folders EXCEPT ![Own].stamp = s]
    BY <2>3, <2>4
  <2>6. StampBySteps(s)'
    BY <1>1, <1>3, <1>4, <1>5, <2>4, StampIs DEF StampBySteps, TitlesIn
  <2>7. QED BY <1>1, <1>2, <1>4, <1>5, <2>4, <2>5, <2>6, StampWrittenKeeps
<1>6. CASE job < FirstStamped
  <2>1. folders' = folders /\ skip' = {}
    BY <1>1, <1>6 DEF Scan
  <2>2. RunningStamp'
    BY <1>1, <1>2, <1>3, <1>6, <2>1 DEF IInv, RunningStamp, StampBySteps
  <2>3. QED BY <1>1, <1>2, <1>4, <2>1, <2>2, JobStepKeeps
<1>7. QED BY <1>3, <1>5, <1>6

LEMMA ScanFailsKeeps == ASSUME IInv, ScanFails PROVE IInv'
<1>1. /\ at = "scanning" /\ at' = "encoding" /\ skip' = {} /\ job >= FirstStamped
      /\ UNCHANGED <<job, disc, logfile, todo, moves, finished, lacking, logs, folders>>
  BY DEF ScanFails, Does
<1>2. at \in BeforeTitles /\ at \in Working /\ at' \in Working
  BY <1>1 DEF BeforeTitles, Working
<1>3. RunningStamp'
  BY <1>1, <1>2, Running DEF IInv, RunningStamp, StampBySteps, TitlesIn
<1>4. QED BY <1>1, <1>2, <1>3, JobStepKeeps

LEMMA ScanUnrecordedKeeps == ASSUME IInv, ScanUnrecorded PROVE IInv'
<1>1. /\ at = "scanning" /\ at' = "encoding" /\ job >= FirstStamped
      /\ skip' \subseteq TitlesOf(job) /\ lacking' = lacking \cup {job}
      /\ UNCHANGED <<job, disc, logfile, todo, moves, finished, logs, folders>>
  BY DEF ScanUnrecorded
<1>2. at \in BeforeTitles /\ at \in Working /\ at' \in Working /\ at' \notin BeforeTitles
  BY <1>1 DEF BeforeTitles, Working
<1>3. RunningStamp'
  BY <1>1, <1>2 DEF IInv, RunningStamp, StampBySteps
<1>4. skip' \in SUBSET (Jobs \X Titles)
  BY <1>1, Running, TitlesAreMaps
<1>5. QED BY <1>1, <1>2, <1>3, <1>4, JobStepKeeps

LEMMA DieKeeps == ASSUME IInv, Die PROVE IInv'
<1>1. /\ at # "idle" /\ at' = "idle" /\ skip' = {}
      /\ UNCHANGED <<job, disc, logfile, todo, moves, finished, lacking, logs>>
  BY DEF Die, Does
<1>2. RunningStamp'
  BY <1>1 DEF RunningStamp, Working, BeforeTitles
<1>3. CASE UNCHANGED folders
  BY <1>1, <1>2, <1>3, JobStepKeeps DEF Working, BeforeTitles
<1>4. CASE /\ at = "copying" /\ job < FirstStamped /\ disc[job] = "bluray"
           /\ folders' = [folders EXCEPT ![Own].copy = "short"]
  <2>1. at \in BeforeTitles /\ at \in Working
    BY <1>4 DEF BeforeTitles, Working
  <2>2. Own \in DOMAIN folders /\ folders[Own].maker = job /\ folders[Own] \in Folder
    BY <1>1, <2>1, Running
  <2> HIDE DEF Own
  <2>3. /\ DOMAIN folders' = DOMAIN folders
        /\ \A n \in DOMAIN folders :
            \/ folders'[n] = folders[n]
            \/ /\ n = Own /\ folders'[n] \in Folder
               /\ folders'[n].maker = job /\ folders'[n].made = folders[n].made
               /\ folders'[n].stamp = folders[n].stamp
    BY <1>4, <2>2 DEF Folder
  <2>4. \A n \in DOMAIN folders :
              \/ folders'[n] = folders[n]
              \/ /\ folders[n].maker = job /\ at \in BeforeTitles
                 /\ folders'[n] \in Folder
                 /\ folders'[n].maker = job /\ folders'[n].made = folders[n].made
                 /\ folders'[n].copy # "none" => job < FirstStamped
                 /\ folders'[n].stamp = folders[n].stamp
    BY <1>4, <2>1, <2>2, <2>3
  <2>5. QED BY <1>1, <1>2, <2>1, <2>3, <2>4, JobStepKeeps DEF Working, BeforeTitles
<1>5. QED BY <1>3, <1>4 DEF Die

LEMMA StartJobKeeps == ASSUME IInv, StartJob PROVE IInv'
<1> USE DEF IInv
<1>1. /\ at = "idle" /\ at' = "naming" /\ job < MaxJob /\ job' = job + 1
      /\ logfile' = Append(logfile, FreeOf(logs))
      /\ logs' = With(logs, FreeOf(logs), [opened |-> job', paths |-> <<>>, pairs |-> {}])
      /\ UNCHANGED <<skip, folders, todo, moves, finished, lacking>>
  BY DEF StartJob
<1>2. PICK type \in Discs[job'] : disc' = Append(disc, type)
  BY DEF StartJob
<1>3. job \in Nat /\ MaxJob \in Nat /\ job' \in Jobs /\ Begun' = Begun \cup {job'}
      /\ job' \notin Begun /\ Begun = 1 .. job /\ Begun' = 1 .. job + 1
  BY <1>1, BegunAreJobs DEF Begun, Jobs
<1>4. type \in {"bluray", "dvd"}
  BY <1>3, ArmStampsAssumption
<1>5. PICK free \in Name : /\ free = FreeOf(logs)
                           /\ free \notin DOMAIN logs /\ free \in {Plain, Staged(job')}
  BY <1>1, <1>3, FreeLogIsFree, NamesAre
<1>6. /\ disc' \in [Begun' -> {"bluray", "dvd"}] /\ \A j \in Begun : disc'[j] = disc[j]
      /\ logfile' \in [Begun' -> Name]
      /\ \A j \in Begun : logfile'[j] = logfile[j]
      /\ logfile'[job'] = free
  <2>1. disc \in [1 .. job -> {"bluray", "dvd"}] /\ logfile \in [1 .. job -> Name]
    BY <1>3 DEF TypeOK
  <2>2. logfile' = Append(logfile, free)
    BY <1>1, <1>5
  <2>3. job \in Nat
    BY <1>3
  <2>4. Append(disc, type) \in [1 .. job + 1 -> {"bluray", "dvd"}]
    BY <1>4, <2>1, <2>3, AppendedEntry
  <2>5. \A j \in 1 .. job : Append(disc, type)[j] = disc[j]
    BY <1>4, <2>1, <2>3, AppendedEntry
  <2>6. Append(logfile, free) \in [1 .. job + 1 -> Name]
    BY <2>1, <2>3, AppendedEntry
  <2>7. Append(logfile, free)[job + 1] = free
    BY <2>1, <2>3, AppendedEntry
  <2>8. \A j \in 1 .. job : Append(logfile, free)[j] = logfile[j]
    BY <2>1, <2>3, AppendedEntry
  <2>9. QED BY <1>1, <1>2, <1>3, <2>2, <2>4, <2>5, <2>6, <2>7, <2>8
<1>7. PICK log \in Log : /\ log = [opened |-> job', paths |-> <<>>, pairs |-> {}]
                         /\ log.opened = job' /\ log.paths = <<>> /\ log.pairs = {}
  <2>1. [opened |-> job', paths |-> <<>>, pairs |-> {}] \in Log
    BY <1>3 DEF Log
  <2>2. QED BY <2>1
<1>8. /\ DOMAIN logs' = DOMAIN logs \cup {free} /\ logs'[free] = log
      /\ \A l \in DOMAIN logs : logs'[l] = logs[l]
  BY <1>1, <1>5, <1>7 DEF With
<1>9. TypeOK'
  <2>1. \A l \in DOMAIN logs' : l \in Name /\ logs'[l] \in Log
    BY <1>8 DEF TypeOK
  <2>2. job' \in 0 .. MaxJob
    BY <1>1, <1>3
  <2>3. QED BY <1>1, <1>6, <2>1, <2>2 DEF TypeOK
<1>10. \A j, n : MadeBy(j, n)' = MadeBy(j, n)
  BY <1>1 DEF MadeBy
<1>11. FoldersByMaker' /\ RunningStamp'
  BY <1>1, <1>3 DEF FoldersByMaker, RunningStamp, Working, BeforeTitles
<1>12. LogsByJob'
  <2>1. \A j \in Begun' : logfile'[j] \in {Plain, Staged(j)}
    BY <1>3, <1>5, <1>6 DEF LogsByJob
  <2>2. \A l \in DOMAIN logs : l = logfile'[logs[l].opened] /\ logs[l].opened \in Begun'
    BY <1>3, <1>6 DEF LogsByJob
  <2>4. \A l \in DOMAIN logs' :
        /\ logs'[l].opened \in Begun'
        /\ l = logfile'[logs'[l].opened]
        /\ \/ logs'[l].paths = <<>>
           \/ logs'[l].paths = <<Plain>> /\ MadeBy(logs'[l].opened, Plain)
           \/ /\ logs'[l].paths = <<Plain, Staged(logs'[l].opened)>>
              /\ MadeBy(logs'[l].opened, Staged(logs'[l].opened))
        /\ logs'[l].pairs \subseteq TitlesOf(logs'[l].opened)
    BY <1>3, <1>6, <1>8, <1>7, <2>2 DEF LogsByJob
  <2>5. QED BY <1>1, <1>6, <1>8, <1>10, <1>7, <2>1, <2>4 DEF LogsByJob, OwnLog
<1>13. \A j \in Begun : LogOf(j)' = LogOf(j) /\ LogMap(j)' = LogMap(j)
  <2> SUFFICES ASSUME NEW j \in Begun PROVE LogOf(j)' = LogOf(j)
    BY DEF LogMap
  <2>1. logfile'[j] = logfile[j] /\ j # job'
    BY <1>3, <1>6
  <2>2. CASE logfile[j] = free
    BY <1>5, <1>8, <1>7, <2>1, <2>2 DEF LogOf
  <2>3. CASE logfile[j] # free
    BY <1>8, <2>1, <2>3 DEF LogOf
  <2>4. QED BY <2>2, <2>3
<1>14. StampsByAge'
  BY <1>1, <1>3, <1>10 DEF StampsByAge
<1>15. PlanIsSound'
  <2>1. todo # {} => job' >= FirstMapped
    BY <1>1, <1>3, ArmStampsAssumption DEF PlanIsSound
  <2>2. \A c \in todo : c.after.job \in Begun' /\ WholeOrNull(c.after)'
    BY <1>1, <1>3, <1>6 DEF PlanIsSound, WholeOrNull, TitlesOf
  <2>3. QED BY <1>1, <1>10, <2>1, <2>2 DEF PlanIsSound, StampOf, BeforeTitles
<1>16. FinishedLogs'
  BY <1>1, <1>3, <1>13 DEF FinishedLogs
<1>17. MapIsWhole'
  BY <1>1, <1>6 DEF MapIsWhole, StampsByAge, StampedNames, StampOf
<1>18. QED BY <1>9, <1>11, <1>12, <1>14, <1>15, <1>16, <1>17

LEMMA MakeFolderKeeps == ASSUME IInv, MakeFolder PROVE IInv'
<1> USE DEF IInv
<1>1. /\ at = "naming" /\ at' = IF job < FirstStamped THEN "copying" ELSE "stamping"
      /\ UNCHANGED <<job, disc, logfile, todo, moves, finished, lacking, skip>>
  BY DEF MakeFolder, Does
<1>2. /\ job \in Jobs /\ job \in Nat /\ FirstStamped \in Nat /\ Begun' = Begun /\ job \in Begun
      /\ Begun \subseteq Nat /\ \A j \in Begun : j <= job
  BY <1>1, Running, BegunAreJobs DEF Begun, LogsByJob
<1>3. PICK free \in Name :
        /\ free = FreeOf(folders)
        /\ free \notin DOMAIN folders /\ free \in {Plain, Staged(job)}
        /\ free = Plain \/ Plain \in DOMAIN folders
  BY <1>1, <1>2, FreeFolderIsFree, NamesAre
<1>4. PICK folder \in Folder :
        /\ folder = [maker |-> job, made |-> free, copy |-> "none", stamp |-> Null]
        /\ folder.maker = job /\ folder.made = free /\ folder.copy = "none"
        /\ folder.stamp = Null
  <2>1. free \in Name
    OBVIOUS
  <2>2. [maker |-> job, made |-> free, copy |-> "none", stamp |-> Null] \in Folder
    BY <1>2, <2>1 DEF Folder
  <2>3. QED BY <2>2
<1>5. /\ DOMAIN folders' = DOMAIN folders \cup {free} /\ folders'[free] = folder
      /\ \A n \in DOMAIN folders : folders'[n] = folders[n]
  BY <1>3, <1>4 DEF MakeFolder, With
<1>6. /\ OwnLog \in DOMAIN logs /\ logs[OwnLog] \in Log /\ logs[OwnLog].opened = job
      /\ logs[OwnLog].pairs = {}
  BY <1>1 DEF LogsByJob, TypeOK
<1>7. PICK paths \in Seq(Name) :
        /\ paths = IF free = Plain THEN <<Plain>> ELSE <<Plain, Staged(job)>>
        /\ logs' = [logs EXCEPT ![OwnLog].paths = paths]
  <2>1. <<Plain>> \in Seq(Name) /\ <<Plain, Staged(job)>> \in Seq(Name)
    BY <1>2, NamesAre
  <2>2. QED BY <1>3, <2>1 DEF MakeFolder
<1> HIDE DEF OwnLog
<1>8. /\ DOMAIN logs' = DOMAIN logs
      /\ \A l \in DOMAIN logs : l # OwnLog => logs'[l] = logs[l]
      /\ logs'[OwnLog] \in Log /\ logs'[OwnLog].opened = job
      /\ logs'[OwnLog].pairs = {} /\ logs'[OwnLog].paths = paths
  BY <1>1, <1>6, <1>7 DEF Log
<1>9. TypeOK'
  <2>1. \A n \in DOMAIN folders' : n \in Name /\ folders'[n] \in Folder
    BY <1>3, <1>5, <1>4 DEF TypeOK
  <2>2. \A l \in DOMAIN logs' : l \in Name /\ logs'[l] \in Log
    BY <1>8 DEF TypeOK
  <2>3. QED BY <1>1, <1>2, <2>1, <2>2 DEF TypeOK
<1>10. \A j, n : MadeBy(j, n) => MadeBy(j, n)'
  BY <1>5, MadeStays
<1>11. \A j, n : j = job /\ n = free => MadeBy(j, n)'
  BY <1>5, <1>4 DEF MadeBy
<1>12. FoldersByMaker'
  <2>1. \A n \in DOMAIN folders : folders[n].maker # job
    BY <1>1 DEF FoldersByMaker
  <2>2. \A n \in DOMAIN folders' :
        /\ folders'[n].maker \in Begun
        /\ n = folders'[n].made \/ n = Renamed(folders'[n].maker)
        /\ folders'[n].made \in {Plain, Staged(folders'[n].maker)}
    BY <1>2, <1>3, <1>5, <1>4 DEF FoldersByMaker
  <2>3. \A n \in DOMAIN folders' :
          folders'[n].made = Plain => folders'[n].maker <= folders'[Plain].maker
    <3>1. CASE free = Plain
      BY <1>2, <1>5, <1>4, <2>2, <3>1
    <3>2. CASE free # Plain
      BY <1>3, <1>5, <1>4, <3>2 DEF FoldersByMaker
    <3>3. QED BY <3>1, <3>2
  <2>4. \A n, m \in DOMAIN folders' : folders'[n].maker = folders'[m].maker => n = m
    BY <1>5, <1>4, <2>1 DEF FoldersByMaker
  <2>5. at' # "naming" /\ \E n \in DOMAIN folders' : folders'[n].maker = job
    BY <1>1, <1>5, <1>4
  <2>6. QED BY <1>1, <1>2, <2>2, <2>3, <2>4, <2>5 DEF FoldersByMaker
<1>13. LogsByJob'
  <2>1. \A j : j = job =>
            \/ paths = <<Plain>> /\ MadeBy(j, Plain)'
            \/ paths = <<Plain, Staged(j)>> /\ MadeBy(j, Staged(j))'
    BY <1>3, <1>7, <1>11
  <2>2. \A l \in DOMAIN logs' :
        /\ logs'[l].opened \in Begun
        /\ l = logfile[logs'[l].opened]
        /\ logs'[l].pairs \subseteq TitlesOf(logs'[l].opened)
    BY <1>2, <1>6, <1>8 DEF LogsByJob
  <2>3. \A l \in DOMAIN logs' : \A j : j = logs'[l].opened =>
           \/ logs'[l].paths = <<>>
           \/ logs'[l].paths = <<Plain>> /\ MadeBy(j, Plain)'
           \/ logs'[l].paths = <<Plain, Staged(j)>> /\ MadeBy(j, Staged(j))'
    <3> SUFFICES ASSUME NEW l \in DOMAIN logs, NEW j, j = logs'[l].opened
                 PROVE \/ logs'[l].paths = <<>>
                       \/ logs'[l].paths = <<Plain>> /\ MadeBy(j, Plain)'
                       \/ logs'[l].paths = <<Plain, Staged(j)>> /\ MadeBy(j, Staged(j))'
      BY <1>8
    <3>1. CASE l = OwnLog
      BY <1>8, <2>1, <3>1
    <3>2. CASE l # OwnLog
      BY <1>8, <1>10, <3>2 DEF LogsByJob
    <3>3. QED BY <3>1, <3>2
  <2>4. OwnLog' = OwnLog
    BY <1>1 DEF OwnLog
  <2>5. QED BY <1>1, <1>2, <1>6, <1>8, <2>2, <2>3, <2>4 DEF LogsByJob
<1>14. RunningStamp'
  <2>1. \A n \in DOMAIN folders' : folders'[n].maker = job => folders'[n].stamp = Null
    BY <1>1, <1>5, <1>4 DEF FoldersByMaker
  <2>2. StampBySteps(Null)'
    BY <1>1, <1>2 DEF StampBySteps
  <2>3. QED BY <1>1, <2>1, <2>2 DEF RunningStamp
<1>15. \A j \in finished : /\ LogOf(j)' # {} => LogOf(j) # {}
                           /\ LogMap(j)' = LogMap(j)
  <2> SUFFICES ASSUME NEW j \in finished PROVE LogOf(j)' = LogOf(j)
    BY DEF LogMap
  <2>1. j # job
    BY <1>1 DEF FinishedLogs
  <2>2. QED BY <1>1, <1>6, <1>8, <2>1 DEF LogOf
<1>16. StampsByAge'
  BY <1>2, <1>5, <1>4, <1>10 DEF StampsByAge
<1>17. PlanIsSound'
  <2>1. \A c \in todo : folders'[c.name] = folders[c.name] /\ folders[c.name].maker # job
    BY <1>1, <1>5 DEF PlanIsSound, FoldersByMaker
  <2>2. todo # {} => job >= FirstMapped
    BY <1>1 DEF PlanIsSound
  <2>3. QED BY <1>1, <1>2, <1>5, <1>10, <2>1, <2>2 DEF PlanIsSound, StampOf, WholeOrNull
<1>18. FinishedLogs'
  BY <1>1, <1>2, <1>5, <1>4, <1>15 DEF FinishedLogs
<1>19. MapIsWhole'
  BY <1>1, <1>5, <1>4 DEF MapIsWhole, StampedNames, StampOf
<1>20. QED BY <1>9, <1>12, <1>13, <1>14, <1>16, <1>17, <1>18, <1>19

LEMMA EncodeKeeps == ASSUME IInv, Encode PROVE IInv'
<1> USE DEF IInv
<1>1. PICK t \in Left :
        /\ at' = IF Left = {t} THEN "idle" ELSE at
        /\ finished' = IF Left = {t} THEN finished \cup {job} ELSE finished
        /\ logs' = [logs EXCEPT ![OwnLog].pairs = @ \cup {t}]
  BY DEF Encode
<1>2. /\ at = "encoding" /\ at' \in {"encoding", "idle"}
      /\ skip' = IF at' = "idle" THEN {} ELSE skip
      /\ UNCHANGED <<job, disc, logfile, folders, todo, moves, lacking>>
  BY <1>1 DEF Encode
<1>3. /\ job \in Jobs /\ job \in Begun /\ Begun' = Begun /\ job \notin finished
      /\ job \in Nat /\ FirstStamped \in Nat /\ at \in Working
      /\ skip \in SUBSET (Jobs \X Titles)
  BY <1>2, Running DEF Begun, LogsByJob, FinishedLogs, Working
<1>4. /\ OwnLog \in DOMAIN logs /\ logs[OwnLog] \in Log /\ logs[OwnLog].opened = job
      /\ logs[OwnLog].pairs \subseteq TitlesOf(job) /\ OwnLog = logfile[job]
  BY <1>2 DEF LogsByJob, TypeOK, OwnLog
<1>5. /\ t \in TitlesOf(job)
      /\ Left = {t} => TitlesOf(job) \subseteq skip \cup logs[OwnLog].pairs \cup {t}
  BY DEF Left
<1>6. TitlesOf(job) \in SUBSET (Jobs \X Titles)
  BY <1>3, TitlesAreMaps
<1> HIDE DEF OwnLog
<1>7. /\ DOMAIN logs' = DOMAIN logs
      /\ \A l \in DOMAIN logs : l # OwnLog => logs'[l] = logs[l]
      /\ logs'[OwnLog] \in Log /\ logs'[OwnLog].opened = job
      /\ logs'[OwnLog].pairs = logs[OwnLog].pairs \cup {t}
      /\ logs'[OwnLog].paths = logs[OwnLog].paths
  BY <1>1, <1>4, <1>5, <1>6 DEF Log
<1>8. TypeOK'
  <2>1. \A l \in DOMAIN logs' : l \in Name /\ logs'[l] \in Log
    BY <1>7 DEF TypeOK
  <2>2. finished' \in SUBSET Jobs /\ skip' \in SUBSET (Jobs \X Titles)
    BY <1>1, <1>2, <1>3 DEF TypeOK
  <2>3. QED BY <1>2, <1>3, <2>1, <2>2 DEF TypeOK
<1>9. \A j, n : MadeBy(j, n)' = MadeBy(j, n)
  BY <1>2 DEF MadeBy
<1>10. FoldersByMaker' /\ RunningStamp'
  BY <1>2, <1>3 DEF FoldersByMaker, RunningStamp, Working, BeforeTitles, StampBySteps
<1>11. LogsByJob'
  <2>1. OwnLog' = OwnLog
    BY <1>2 DEF OwnLog
  <2>2. \A l \in DOMAIN logs' :
        /\ logs'[l].opened = logs[l].opened
        /\ logs'[l].paths = logs[l].paths
        /\ logs'[l].pairs \subseteq TitlesOf(logs[l].opened)
    BY <1>4, <1>5, <1>7 DEF LogsByJob
  <2>3. QED BY <1>2, <1>3, <1>4, <1>7, <1>9, <2>1, <2>2 DEF LogsByJob
<1>12. \A j \in finished : LogOf(j)' = LogOf(j) /\ LogMap(j)' = LogMap(j)
  <2> SUFFICES ASSUME NEW j \in finished PROVE LogOf(j)' = LogOf(j)
    BY DEF LogMap
  <2>1. QED BY <1>2, <1>3, <1>4, <1>7 DEF LogOf
<1>13. \A j : j = job => LogMap(j)' = logs[OwnLog].pairs \cup {t}
  <2>1. \A j : j = job => LogOf(j)' = {logs'[OwnLog]}
    BY <1>2, <1>4, <1>7 DEF LogOf
  <2>2. QED BY <1>7, <2>1 DEF LogMap
<1>14. StampsByAge' /\ MapIsWhole'
  BY <1>2, <1>3, <1>9 DEF StampsByAge, MapIsWhole, StampedNames, StampOf
<1>15. PlanIsSound'
  <2>1. todo # {} => job >= FirstMapped
    BY <1>2 DEF PlanIsSound
  <2>2. QED BY <1>2, <1>3, <1>9, <2>1 DEF PlanIsSound, StampOf, WholeOrNull, BeforeTitles
<1>16. FinishedLogs'
  <2>1. at' # "idle" => job \notin finished'
    BY <1>1, <1>2, <1>3
  <2>2. CASE finished' = finished
    BY <1>2, <1>3, <1>12, <2>1, <2>2 DEF FinishedLogs
  <2>3. CASE Left = {t}
    <3>1. \A n \in DOMAIN folders : folders[n].maker = job => StampBySteps(folders[n].stamp)
      BY <1>3 DEF RunningStamp
    <3>2. \A j : j = job =>
            /\ j < FirstStamped => LogMap(j)' = TitlesOf(j)
            /\ \A n \in DOMAIN folders :
                folders[n].maker = j /\ j >= FirstStamped =>
                    /\ folders[n].stamp # Null
                    /\ j \notin lacking =>
                        LogMap(j)' \cup TitlesIn(folders[n].stamp.skipped) = TitlesOf(j)
      <4> SUFFICES ASSUME NEW j, j = job
                   PROVE  /\ j < FirstStamped => LogMap(j)' = TitlesOf(j)
                          /\ \A n \in DOMAIN folders :
                              folders[n].maker = j /\ j >= FirstStamped =>
                                /\ folders[n].stamp # Null
                                /\ j \notin lacking =>
                                    LogMap(j)' \cup TitlesIn(folders[n].stamp.skipped)
                                      = TitlesOf(j)
        OBVIOUS
      <4>1. LogMap(j)' = logs[OwnLog].pairs \cup {t}
        BY <1>13
      <4>2. j < FirstStamped => skip = {}
        BY <1>2, <1>3, <3>1 DEF StampBySteps, FoldersByMaker
      <4>3. skip \subseteq TitlesOf(job)
        BY <1>2, <1>3, <3>1 DEF StampBySteps, FoldersByMaker
      <4>4. QED
        BY <1>2, <1>3, <1>4, <1>5, <2>3, <3>1, <4>1, <4>2, <4>3 DEF StampBySteps
    <3>3. QED BY <1>1, <1>2, <1>3, <1>12, <2>1, <2>3, <3>2 DEF FinishedLogs
  <2>4. QED BY <1>1, <2>2, <2>3
<1>17. QED BY <1>8, <1>10, <1>11, <1>14, <1>15, <1>16

-----------------------------------------------------------------------------
(* The owner and the rotation of logs.                                     *)

LEMMA RenameKeeps == ASSUME IInv, NEW n \in DOMAIN folders, Rename(n) PROVE IInv'
<1> USE DEF IInv
<1> DEFINE new == Renamed(folders[n].maker)
<1>1. /\ todo = {} /\ moves < MaxMoves /\ moves' = moves + 1
      /\ at = "idle" \/ folders[n].maker # job
      /\ new \notin DOMAIN folders
      /\ UNCHANGED <<job, at, disc, logfile, skip, todo, finished, lacking, logs>>
  BY DEF Rename, Moves, Idle, jobVars
<1>2. /\ DOMAIN folders' = (DOMAIN folders \ {n}) \cup {new}
      /\ folders'[new] = folders[n]
      /\ \A m \in DOMAIN folders \ {n} : folders'[m] = folders[m]
  BY <1>1 DEF Rename, With, Without
<1>3. /\ new \in Name /\ new # Plain /\ new = Renamed(folders[n].maker)
      /\ folders[n] \in Folder
  BY NamesAre, NamesDiffer DEF TypeOK, Folder
<1> HIDE DEF new
<1>4. TypeOK'
  <2>1. \A m \in DOMAIN folders' : m \in Name /\ folders'[m] \in Folder
    BY <1>2, <1>3 DEF TypeOK
  <2>2. moves' \in 0 .. MaxMoves
    BY <1>1, ArmStampsAssumption DEF TypeOK
  <2>3. Begun' = Begun
    BY <1>1 DEF Begun
  <2>4. QED BY <1>1, <2>1, <2>2, <2>3 DEF TypeOK
<1>5. /\ Begun' = Begun /\ OwnLog' = OwnLog
      /\ \A j : LogOf(j)' = LogOf(j) /\ LogMap(j)' = LogMap(j)
  BY <1>1 DEF Begun, OwnLog, LogOf, LogMap
<1>6. \A j, m : MadeBy(j, m) => MadeBy(j, m)'
  BY <1>1, <1>2, MadeStays
<1>7. \A m \in DOMAIN folders' : \E k \in DOMAIN folders : folders'[m] = folders[k]
  BY <1>2
<1>8. FoldersByMaker'
  <2>1. \A m \in DOMAIN folders' : m = folders'[m].made \/ m = Renamed(folders'[m].maker)
    BY <1>2, <1>3 DEF FoldersByMaker
  <2>2. \A m \in DOMAIN folders' :
          folders'[m].made = Plain /\ Plain \in DOMAIN folders' =>
            folders'[m].maker <= folders'[Plain].maker
    BY <1>2, <1>3 DEF FoldersByMaker
  <2>3. \A m, k \in DOMAIN folders' : folders'[m].maker = folders'[k].maker => m = k
    BY <1>1, <1>2 DEF FoldersByMaker
  <2>4. at \in Working => \E m \in DOMAIN folders' : folders'[m].maker = job
    BY <1>2 DEF FoldersByMaker
  <2>5. QED BY <1>1, <1>5, <1>7, <2>1, <2>2, <2>3, <2>4 DEF FoldersByMaker
<1>9. LogsByJob'
  BY <1>1, <1>5, <1>6 DEF LogsByJob
<1>10. RunningStamp'
  BY <1>1, <1>7 DEF RunningStamp, StampBySteps
<1>11. StampsByAge'
  BY <1>1, <1>5, <1>6, <1>7 DEF StampsByAge
<1>12. PlanIsSound'
  BY <1>1 DEF PlanIsSound
<1>13. FinishedLogs'
  BY <1>1, <1>5, <1>7 DEF FinishedLogs
<1>14. MapIsWhole'
  BY <1>1, <1>7 DEF MapIsWhole, StampedNames, StampOf
<1>15. QED BY <1>4, <1>8, <1>9, <1>10, <1>11, <1>12, <1>13, <1>14

LEMMA RestoreKeeps == ASSUME IInv, NEW n \in DOMAIN folders, Restore(n) PROVE IInv'
<1> USE DEF IInv
<1>1. /\ todo = {} /\ moves < MaxMoves /\ moves' = moves + 1
      /\ at = "idle" \/ folders[n].maker # job
      /\ folders[n].stamp # Null
      /\ UNCHANGED <<job, at, disc, logfile, skip, todo, finished, lacking, logs>>
  BY DEF Restore, Moves, Idle, jobVars
<1>2. folders[n] \in Folder /\ folders[n].stamp \in Stamp
  BY <1>1 DEF TypeOK, Folder
<1>3. PICK s \in Stamp : /\ s = [folders[n].stamp EXCEPT !.form = "earlier"]
                         /\ s.job = folders[n].stamp.job /\ s.map = folders[n].stamp.map
                         /\ s.skipped = folders[n].stamp.skipped
  <2>1. [folders[n].stamp EXCEPT !.form = "earlier"] \in Stamp
    BY <1>2 DEF Stamp
  <2>2. QED BY <1>2, <2>1 DEF Stamp
<1>4. /\ DOMAIN folders' = DOMAIN folders
      /\ \A m \in DOMAIN folders : m # n => folders'[m] = folders[m]
      /\ folders'[n] \in Folder /\ folders'[n].stamp = s
      /\ folders'[n].maker = folders[n].maker /\ folders'[n].made = folders[n].made
      /\ folders'[n].copy = folders[n].copy
  <2>1. folders' = [folders EXCEPT ![n].stamp = s]
    BY <1>2, <1>3 DEF Restore, Folder
  <2>2. QED BY <1>2, <2>1 DEF Folder
<1>5. TypeOK'
  <2>1. moves' \in 0 .. MaxMoves
    BY <1>1, ArmStampsAssumption DEF TypeOK
  <2>2. \A m \in DOMAIN folders' : m \in Name /\ folders'[m] \in Folder
    BY <1>4 DEF TypeOK
  <2>3. Begun' = Begun
    BY <1>1 DEF Begun
  <2>4. QED BY <1>1, <2>1, <2>2, <2>3 DEF TypeOK
<1>6. /\ Begun' = Begun /\ OwnLog' = OwnLog
      /\ \A j : LogOf(j)' = LogOf(j) /\ LogMap(j)' = LogMap(j)
  BY <1>1 DEF Begun, OwnLog, LogOf, LogMap
<1>7. \A j, m : MadeBy(j, m)' = MadeBy(j, m)
  BY <1>4 DEF MadeBy
<1>8. \A m \in DOMAIN folders : /\ folders'[m].maker = folders[m].maker
                                 /\ folders'[m].made = folders[m].made
                                 /\ folders'[m].copy = folders[m].copy
  BY <1>4
<1>9. FoldersByMaker'
  BY <1>1, <1>4, <1>6, <1>8 DEF FoldersByMaker
<1>10. LogsByJob'
  BY <1>1, <1>6, <1>7 DEF LogsByJob
<1>11. RunningStamp'
  <2>1. \A m \in DOMAIN folders : at \in Working /\ folders[m].maker = job =>
                                     folders'[m] = folders[m]
    BY <1>1, <1>4 DEF Working, BeforeTitles
  <2>2. QED BY <1>1, <1>4, <1>8, <2>1 DEF RunningStamp, StampBySteps
<1>12. StampsByAge'
  <2>1. \A m \in DOMAIN folders : folders'[m].stamp # Null =>
            /\ folders[m].stamp # Null
            /\ folders'[m].stamp.job = folders[m].stamp.job
            /\ folders'[m].stamp.skipped = folders[m].stamp.skipped
    BY <1>1, <1>3, <1>4
  <2>2. QED BY <1>4, <1>6, <1>7, <1>8, <2>1 DEF StampsByAge
<1>13. PlanIsSound'
  BY <1>1 DEF PlanIsSound
<1>14. FinishedLogs'
  <2>1. \A m \in DOMAIN folders : folders[m].stamp # Null =>
            /\ folders'[m].stamp # Null
            /\ folders'[m].stamp.skipped = folders[m].stamp.skipped
    BY <1>3, <1>4, StampIs
  <2>2. QED BY <1>1, <1>4, <1>6, <1>8, <2>1 DEF FinishedLogs
<1>15. MapIsWhole'
  <2>1. \A m \in DOMAIN folders : folders'[m].stamp # Null =>
            /\ folders[m].stamp # Null
            /\ folders'[m].stamp.job = folders[m].stamp.job
            /\ folders'[m].stamp.map = folders[m].stamp.map
    BY <1>1, <1>3, <1>4
  <2>2. \A m \in DOMAIN folders : folders'[m].stamp # Null => WholeOrNull(folders'[m].stamp)
    BY <2>1 DEF MapIsWhole, StampedNames, StampOf, WholeOrNull
  <2>3. QED BY <1>1, <1>4, <2>2 DEF MapIsWhole, StampedNames, StampOf, WholeOrNull, TitlesOf
<1>16. QED BY <1>5, <1>9, <1>10, <1>11, <1>12, <1>13, <1>14, <1>15

LEMMA AgeOutKeeps == ASSUME IInv, NEW l \in DOMAIN logs, AgeOut(l) PROVE IInv'
<1> USE DEF IInv
<1>1. /\ moves < MaxMoves /\ moves' = moves + 1
      /\ at = "idle" \/ l # OwnLog
      /\ UNCHANGED <<job, at, disc, logfile, skip, todo, finished, lacking, folders>>
      /\ DOMAIN logs' = DOMAIN logs \ {l}
      /\ \A m \in DOMAIN logs \ {l} : logs'[m] = logs[m]
  BY WithoutIs DEF AgeOut, Moves, jobVars
<1>2. TypeOK'
  <2>1. moves' \in 0 .. MaxMoves
    BY <1>1, ArmStampsAssumption DEF TypeOK
  <2>2. Begun' = Begun
    BY <1>1 DEF Begun
  <2>3. QED BY <1>1, <2>1, <2>2 DEF TypeOK
<1>3. Begun' = Begun /\ OwnLog' = OwnLog /\ \A j, m : MadeBy(j, m)' = MadeBy(j, m)
  BY <1>1 DEF Begun, OwnLog, MadeBy
<1>4. \A j : LogOf(j)' # {} => LogOf(j)' = LogOf(j) /\ LogMap(j)' = LogMap(j)
  BY <1>1 DEF LogOf, LogMap
<1>5. FoldersByMaker' /\ RunningStamp' /\ StampsByAge' /\ MapIsWhole'
  BY <1>1, <1>3
     DEF FoldersByMaker, RunningStamp, StampBySteps, StampsByAge, MapIsWhole, StampedNames,
         StampOf
<1>6. LogsByJob'
  BY <1>1, <1>3 DEF LogsByJob
<1>7. PlanIsSound'
  BY <1>1, <1>3 DEF PlanIsSound, StampOf, WholeOrNull
<1>8. FinishedLogs'
  BY <1>1, <1>3, <1>4 DEF FinishedLogs
<1>9. QED BY <1>2, <1>5, <1>6, <1>7, <1>8

-----------------------------------------------------------------------------
(* The tool.                                                               *)

\* conform keeps whose the stamp is and what is skipped, and a map there is.
LEMMA ConformIs ==
    ASSUME NEW s \in Stamp, NEW type, NEW pairs \in SUBSET (Jobs \X Titles)
    PROVE  /\ Conform(type, s, pairs) \in Stamp
           /\ Conform(type, s, pairs).job = s.job
           /\ Conform(type, s, pairs).form = "current"
           /\ Conform(type, s, pairs).complete = s.complete
           /\ Conform(type, s, pairs).skipped = s.skipped
           /\ Conform(type, s, pairs).map =
                IF type = "bluray" /\ s.map = Null /\ pairs # {}
                THEN pairs \cup TitlesIn(s.skipped) ELSE s.map
<1>1. TitlesIn(s.skipped) \in SUBSET (Jobs \X Titles)
  BY StampIs DEF TitlesIn, Map
<1>2. BlurayMap(pairs, s.skipped) = pairs \cup TitlesIn(s.skipped)
  BY DEF BlurayMap, TitlesIn
<1>3. PICK map \in Map :
        map = IF type = "bluray" /\ s.map = Null /\ pairs # {}
              THEN BlurayMap(pairs, s.skipped) ELSE s.map
  BY <1>1, <1>2, StampIs DEF Map
<1>4. Conform(type, s, pairs) = [s EXCEPT !.form = "current", !.map = map]
  BY <1>3 DEF Conform, Stamp
<1>5. QED BY <1>2, <1>3, <1>4 DEF Stamp

LEMMA BackfillIs ==
    ASSUME TypeOK, LogsByJob, NEW j \in Begun, NEW folder
    PROVE  /\ Backfill(j, folder) \in Stamp
           /\ Backfill(j, folder).job = j
           /\ Backfill(j, folder).form = "current"
           /\ Backfill(j, folder).skipped = Null
           /\ Backfill(j, folder).map =
                IF disc[j] = "bluray" /\ LogMap(j) # {} THEN LogMap(j) ELSE Null
<1>1. j \in Jobs /\ LogMap(j) \in Map
  BY BegunAreJobs, LogIs, TitlesAreMaps
<1>2. PICK map \in Map :
        map = IF disc[j] = "bluray" /\ LogMap(j) # {} THEN LogMap(j) ELSE Null
  BY <1>1 DEF Map
<1>3. PICK complete \in {Null} \cup BOOLEAN :
        complete = IF folder.copy = "short" THEN FALSE ELSE Null
  OBVIOUS
<1>4. BlurayMap(LogMap(j), Null) = LogMap(j)
  BY DEF BlurayMap
<1>5. Backfill(j, folder) = [job |-> j, form |-> "current", skipped |-> Null,
                             complete |-> complete, map |-> map]
  BY <1>2, <1>3, <1>4 DEF Backfill
<1>6. Null \in Map
  BY DEF Map
<1>7. QED BY <1>1, <1>2, <1>5, <1>6 DEF Stamp

\* A job that may be given a folder came before the patch, as the folder did, and
\* made one of that name.
LEMMA ClaimIs ==
    ASSUME IInv, NEW n \in DOMAIN folders, NEW j \in Claims(folders, n)
    PROVE  /\ j \in Begun /\ folders[n].maker < FirstStamped /\ j < FirstStamped
           /\ MadeBy(j, folders[n].made)
<1> USE DEF IInv
<1>1. /\ j \in Begun /\ n \in LogPath(j) \cup {Staged(j)}
      /\ folders[n].copy # "none"
  BY DEF Claims, Proven
<1>2. folders[n].maker < FirstStamped /\ folders[n].maker \in Begun
  BY <1>1 DEF StampsByAge, FoldersByMaker
<1>3. CASE n = Staged(j)
  <2>1. folders[n].made = n /\ j = folders[n].maker
    BY <1>3, NamesDiffer DEF FoldersByMaker
  <2>2. QED BY <1>1, <1>2, <2>1 DEF MadeBy
<1>4. CASE n \in LogPath(j) /\ n # Staged(j)
  <2>1. PICK log \in LogOf(j) : log.paths # <<>> /\ n = log.paths[Len(log.paths)]
    BY <1>4 DEF LogPath
  <2>2. log.opened = j /\ \E l \in DOMAIN logs : log = logs[l]
    BY LogIs
  <2>3. n = Plain /\ MadeBy(j, Plain)
    BY <1>4, <2>1, <2>2 DEF LogsByJob
  <2>4. folders[n].made = Plain
    BY <2>3, NamesDiffer DEF FoldersByMaker
  <2>5. j <= folders[n].maker
    BY <2>3 DEF FoldersByMaker, MadeBy
  <2>6. j \in Nat /\ folders[n].maker \in Nat /\ FirstStamped \in Nat
    BY <1>1, <1>2, ArmStampsAssumption DEF Begun
  <2>7. QED BY <1>1, <1>2, <2>3, <2>4, <2>5, <2>6
<1>5. QED BY <1>1, <1>3, <1>4

LEMMA RewritesAre ==
    ASSUME IInv, NEW c \in Rewrites(folders)
    PROVE  /\ c.name \in DOMAIN folders /\ folders[c.name].stamp \in Stamp
           /\ folders[c.name].stamp # Null /\ c.before = folders[c.name].stamp
           /\ c.before.job \in Begun
           /\ LogMap(c.before.job) \in SUBSET (Jobs \X Titles)
           /\ c.after = Conform(disc[c.before.job], c.before, LogMap(c.before.job))
           /\ c.after # c.before
           /\ c = [name |-> c.name, before |-> c.before, after |-> c.after]
           /\ c \in Change
           /\ c.after.job = c.before.job /\ c.after.form = "current"
           /\ c.after.complete = c.before.complete
           /\ c.after.skipped = c.before.skipped
           /\ c.after.map =
                IF disc[c.before.job] = "bluray" /\ c.before.map = Null
                   /\ LogMap(c.before.job) # {}
                THEN LogMap(c.before.job) \cup TitlesIn(c.before.skipped)
                ELSE c.before.map
<1> USE DEF IInv
<1>1. PICK n \in DOMAIN folders :
        /\ folders[n].stamp # Null
        /\ c = [name |-> n, before |-> folders[n].stamp,
                after |-> Conform(disc[folders[n].stamp.job], folders[n].stamp,
                                  LogMap(folders[n].stamp.job))]
        /\ c.after # c.before
  BY DEF Rewrites
<1>2. folders[n].stamp \in Stamp /\ folders[n].stamp.job \in Begun /\ n \in Name
  BY <1>1 DEF TypeOK, Folder, StampsByAge
<1>3. LogMap(folders[n].stamp.job) \in SUBSET (Jobs \X Titles)
  BY <1>2, LogIs, TitlesAreMaps, BegunAreJobs
<1>4. PICK s \in Stamp : s = folders[n].stamp
  BY <1>2
<1>5. PICK type : type = disc[s.job]
  OBVIOUS
<1>6. PICK pairs \in SUBSET (Jobs \X Titles) : pairs = LogMap(s.job)
  BY <1>3, <1>4
<1>7. PICK a \in Stamp :
        /\ a = Conform(type, s, pairs)
        /\ a.job = s.job /\ a.form = "current" /\ a.complete = s.complete
        /\ a.skipped = s.skipped
        /\ a.map = IF type = "bluray" /\ s.map = Null /\ pairs # {}
                   THEN pairs \cup TitlesIn(s.skipped) ELSE s.map
  <2>1. /\ Conform(type, s, pairs) \in Stamp
        /\ Conform(type, s, pairs).job = s.job
        /\ Conform(type, s, pairs).form = "current"
        /\ Conform(type, s, pairs).complete = s.complete
        /\ Conform(type, s, pairs).skipped = s.skipped
        /\ Conform(type, s, pairs).map =
             IF type = "bluray" /\ s.map = Null /\ pairs # {}
             THEN pairs \cup TitlesIn(s.skipped) ELSE s.map
    BY ConformIs, Zenon
  <2>2. QED BY <2>1, Zenon
<1>8. /\ c.name = n /\ c.before = s /\ c.after = a
      /\ c = [name |-> n, before |-> s, after |-> a]
  BY <1>1, <1>4, <1>5, <1>6, <1>7
<1>9. c \in Change
  BY <1>2, <1>8 DEF Change
<1>10. QED BY <1>1, <1>2, <1>3, <1>4, <1>7, <1>5, <1>6, <1>8, <1>9

LEMMA BackfillsAre ==
    ASSUME IInv, NEW c \in Backfills(folders)
    PROVE  /\ c.name \in DOMAIN folders /\ folders[c.name].stamp = Null /\ c.before = Null
           /\ folders[c.name].maker < FirstStamped
           /\ c.after.job \in Begun /\ c.after.job < FirstStamped
           /\ c.after.job \in Claims(folders, c.name)
           /\ MadeBy(c.after.job, folders[c.name].made)
           /\ c.after = Backfill(c.after.job, folders[c.name])
           /\ c = [name |-> c.name, before |-> Null, after |-> c.after]
           /\ c.after = Backfill(CHOOSE j \in Claims(folders, c.name) : TRUE, folders[c.name])
           /\ c \in Change
<1> USE DEF IInv
<1>1. PICK n \in DOMAIN folders :
        /\ folders[n].stamp = Null /\ Cardinality(Claims(folders, n)) = 1
        /\ c = [name |-> n, before |-> Null,
                after |-> Backfill(CHOOSE j \in Claims(folders, n) : TRUE, folders[n])]
  BY DEF Backfills
<1>2. Claims(folders, n) # {}
  BY <1>1, FS_EmptySet
<1>3. PICK j \in Claims(folders, n) : j = CHOOSE i \in Claims(folders, n) : TRUE
  BY <1>2
<1>4. /\ j \in Begun /\ folders[n].maker < FirstStamped /\ j < FirstStamped
      /\ MadeBy(j, folders[n].made)
  BY <1>3, ClaimIs
<1>5. Backfill(j, folders[n]) \in Stamp /\ Backfill(j, folders[n]).job = j
  BY <1>4, BackfillIs
<1>6. n \in Name
  BY DEF TypeOK
<1>7. QED BY <1>1, <1>3, <1>4, <1>5, <1>6 DEF Change

\* The map a finished job's log gives is whole: with what its stamp says was
\* skipped, or, for an earlier job that skipped nothing, by itself.
LEMMA FinishedMap ==
    ASSUME IInv, NEW n \in DOMAIN folders, NEW s \in Stamp, folders[n].stamp = s,
           s.job \in finished, s.job \notin lacking, LogMap(s.job) # {}
    PROVE  LogMap(s.job) \cup TitlesIn(s.skipped) = TitlesOf(s.job)
<1> USE DEF IInv
<1>1. LogOf(s.job) # {} /\ s # Null
  BY LogIs, StampIs
<1>2. folders[n].maker \in Nat /\ FirstStamped \in Nat /\ s.job \in Nat
  BY <1>1, BegunAreJobs, ArmStampsAssumption DEF FoldersByMaker, StampsByAge, Begun
<1>3. CASE folders[n].maker < FirstStamped
  <2>1. s.job < FirstStamped /\ s.skipped = Null
    BY <1>1, <1>3 DEF StampsByAge
  <2>2. QED BY <1>1, <2>1 DEF FinishedLogs, TitlesIn
<1>4. CASE folders[n].maker >= FirstStamped
  <2>1. s.job = folders[n].maker
    BY <1>1, <1>4 DEF StampsByAge
  <2>2. QED BY <1>1, <1>4, <2>1 DEF FinishedLogs
<1>5. QED BY <1>2, <1>3, <1>4

\* One change at most for each folder.
LEMMA OnePerName ==
    ASSUME IInv, NEW c \in PlanFor(folders), NEW e \in PlanFor(folders), c.name = e.name
    PROVE  c = e
<1>1. CASE folders[c.name].stamp = Null
  <2>1. c \in Backfills(folders) /\ e \in Backfills(folders)
    BY <1>1, RewritesAre DEF PlanFor
  <2>2. QED BY <2>1, BackfillsAre
<1>2. CASE folders[c.name].stamp # Null
  <2>1. c \in Rewrites(folders) /\ e \in Rewrites(folders)
    BY <1>2, BackfillsAre DEF PlanFor
  <2>2. QED BY <2>1, RewritesAre
<1>3. QED BY <1>1, <1>2

LEMMA PlanKeeps == ASSUME IInv, Plan PROVE IInv'
<1> USE DEF IInv
<1>1. /\ job >= FirstMapped \/ (job + 1 = FirstMapped /\ at = "idle")
      /\ todo' = PlanFor(folders)
      /\ UNCHANGED <<job, at, disc, logfile, skip, logs, folders, moves, finished>>
  BY DEF Plan, jobVars
<1>2. /\ lacking' \in SUBSET Jobs /\ lacking \subseteq lacking'
      /\ \A j \in Begun : \A c \in todo' :
            c.after.job = j /\ LogMap(j) # {} /\ j \notin lacking' => j \in finished
  BY BegunAreJobs DEF Plan, TypeOK
<1>3. \A c \in todo' : c \in Change
  BY <1>1, RewritesAre, BackfillsAre DEF PlanFor
<1>4. /\ Begun' = Begun /\ OwnLog' = OwnLog
      /\ \A j : LogOf(j)' = LogOf(j) /\ LogMap(j)' = LogMap(j)
      /\ \A j, n : MadeBy(j, n)' = MadeBy(j, n)
  BY <1>1 DEF Begun, OwnLog, LogOf, LogMap, MadeBy
<1>5. TypeOK'
  BY <1>1, <1>2, <1>3, <1>4 DEF TypeOK
<1>6. FoldersByMaker' /\ RunningStamp' /\ StampsByAge'
  <2>1. \A s : StampBySteps(s) => StampBySteps(s)'
    BY <1>1, <1>2 DEF StampBySteps, OwnLog
  <2>2. QED BY <1>1, <1>4, <2>1 DEF FoldersByMaker, RunningStamp, StampsByAge
<1>7. LogsByJob' /\ FinishedLogs'
  BY <1>1, <1>2, <1>4 DEF LogsByJob, FinishedLogs
<1>8. MapIsWhole'
  BY <1>1, <1>2 DEF MapIsWhole, StampedNames, StampOf
<1>9. PlanIsSound'
  <2>1. \A c, e \in todo' : c.name = e.name => c = e
    BY <1>1, OnePerName
  <2>2. ASSUME NEW c \in Rewrites(folders)
        PROVE  /\ c.name \in DOMAIN folders /\ folders[c.name].stamp = c.before
               /\ c.before # Null /\ c.after.job \in Begun
               /\ MadeBy(c.after.job, folders[c.name].made)
               /\ c.after.job = c.before.job /\ c.after.skipped = c.before.skipped
               /\ c.before.map # Null => c.after.map = c.before.map
    <3>1. /\ c.name \in DOMAIN folders /\ folders[c.name].stamp = c.before
          /\ c.before # Null
          /\ c.after.job = c.before.job /\ c.after.skipped = c.before.skipped
          /\ c.before.map # Null => c.after.map = c.before.map
      BY RewritesAre
    <3>2. c.before.job \in Begun /\ MadeBy(c.before.job, folders[c.name].made)
      BY <3>1 DEF StampsByAge
    <3>3. QED BY <3>1, <3>2
  <2>3. ASSUME NEW c \in Rewrites(folders), at \in BeforeTitles,
               folders[c.name].maker = job
        PROVE  FALSE
    <3>1. at \in Working /\ at # "idle" /\ at # "encoding"
      BY <2>3 DEF Working, BeforeTitles
    <3>2. PICK s \in Stamp : /\ s = c.before /\ s = folders[c.name].stamp
                             /\ StampBySteps(s)
                             /\ c.after = Conform(disc[s.job], s, LogMap(s.job))
                             /\ c.after # s /\ c.name \in DOMAIN folders
      BY <2>3, <3>1, RewritesAre DEF RunningStamp
    <3>3. job >= FirstStamped
      BY <1>1, <3>1, Running, ArmStampsAssumption
    <3>4. s.job = job /\ s.form = "current" /\ s # Null
      BY <2>3, <3>2, <3>3, StampIs DEF StampBySteps, BeforeTitles
    <3>5. LogMap(s.job) = {}
      BY <3>1, <3>4 DEF LogsByJob, OwnLog, LogMap, LogOf
    <3>6. c.after \in Stamp
      BY <2>3, RewritesAre DEF Change
    <3>7. PICK a \in Stamp : /\ a = c.after /\ a.job = s.job /\ a.form = s.form
                             /\ a.complete = s.complete /\ a.skipped = s.skipped
                             /\ a.map = s.map
      BY <2>3, <3>2, <3>4, <3>5, <3>6, RewritesAre
    <3>8. a = s
      BY <3>7, StampIs
    <3>9. QED BY <3>2, <3>7, <3>8
  <2>4. ASSUME NEW c \in Rewrites(folders), disc[c.after.job] = "bluray",
               c.after.job \notin lacking'
        PROVE  c.after.map \in {Null, TitlesOf(c.after.job)}
    <3>1. PICK s \in Stamp :
            /\ s = c.before /\ s = folders[c.name].stamp /\ c.name \in DOMAIN folders
            /\ s.job \in Begun
      BY RewritesAre
    <3>2. /\ c.after.job = s.job
          /\ c.after.map = IF disc[s.job] = "bluray" /\ s.map = Null /\ LogMap(s.job) # {}
                           THEN LogMap(s.job) \cup TitlesIn(s.skipped) ELSE s.map
      BY <3>1, RewritesAre
    <3>3. CASE s.map = Null /\ LogMap(s.job) # {}
      <4>1. s.job \in finished
        BY <1>1, <1>2, <2>4, <3>1, <3>2, <3>3 DEF PlanFor
      <4>2. s.job \notin lacking
        BY <1>2, <2>4, <3>2
      <4>3. QED BY <2>4, <3>1, <3>2, <3>3, <4>1, <4>2, FinishedMap
    <3>4. CASE ~(s.map = Null /\ LogMap(s.job) # {})
      <4>1. c.name \in StampedNames /\ StampOf(c.name) = s
        BY <3>1, StampIs DEF StampedNames, StampOf
      <4>2. s.map \in {Null, TitlesOf(s.job)}
        BY <1>2, <2>4, <3>2, <4>1 DEF MapIsWhole
      <4>3. c.after.map = s.map
        BY <3>2, <3>4
      <4>4. QED BY <3>2, <4>2, <4>3
    <3>5. QED BY <3>3, <3>4
  <2>5. ASSUME NEW c \in Backfills(folders), c.after.job \notin lacking'
        PROVE  c.after.map \in {Null, TitlesOf(c.after.job)}
    <3>1. PICK j \in Begun : /\ j = c.after.job /\ j < FirstStamped
                             /\ c.after = Backfill(j, folders[c.name])
      BY BackfillsAre
    <3>2. c.after.map = IF disc[j] = "bluray" /\ LogMap(j) # {} THEN LogMap(j) ELSE Null
      BY <3>1, BackfillIs
    <3>3. CASE LogMap(j) # {}
      <4>1. j \in finished
        BY <1>1, <1>2, <2>5, <3>1, <3>3 DEF PlanFor
      <4>2. LogMap(j) = TitlesOf(j)
        BY <3>1, <3>3, <4>1, LogIs DEF FinishedLogs
      <4>3. QED BY <3>1, <3>2, <4>2
    <3>4. QED BY <3>2, <3>3
  <2>6. ASSUME NEW c \in Backfills(folders)
        PROVE  /\ c.name \in DOMAIN folders /\ folders[c.name].stamp = c.before
               /\ c.before = Null /\ c.after.job \in Begun
               /\ MadeBy(c.after.job, folders[c.name].made)
               /\ folders[c.name].maker < FirstStamped
               /\ c.after.job < FirstStamped /\ c.after.skipped = Null
               /\ at \in BeforeTitles => folders[c.name].maker # job
    <3>1. /\ c.name \in DOMAIN folders /\ folders[c.name].stamp = c.before
          /\ c.before = Null /\ c.after.job \in Begun
          /\ MadeBy(c.after.job, folders[c.name].made)
          /\ folders[c.name].maker < FirstStamped
          /\ c.after.job < FirstStamped /\ c.after.skipped = Null
      BY BackfillsAre, BackfillIs
    <3>2. at \in BeforeTitles => job >= FirstStamped /\ job \in Nat /\ FirstStamped \in Nat
      BY <1>1, Running, ArmStampsAssumption DEF BeforeTitles
    <3>3. at \in BeforeTitles => folders[c.name].maker # job
      BY <3>1, <3>2
    <3>4. QED BY <3>1, <3>3
  <2>7. \A c \in todo' : WholeOrNull(c.after)'
    BY <1>1, <2>4, <2>5 DEF PlanFor, WholeOrNull, TitlesOf
  <2>8. \A c \in todo' :
        /\ c.name \in DOMAIN folders /\ folders[c.name].stamp = c.before
        /\ at \in BeforeTitles => folders[c.name].maker # job
        /\ c.after.job \in Begun
        /\ MadeBy(c.after.job, folders[c.name].made)
        /\ c.before = Null =>
            /\ folders[c.name].maker < FirstStamped
            /\ c.after.job < FirstStamped /\ c.after.skipped = Null
        /\ c.before # Null =>
            /\ c.after.job = c.before.job /\ c.after.skipped = c.before.skipped
            /\ c.before.map # Null => c.after.map = c.before.map
    BY <1>1, <2>2, <2>3, <2>6 DEF PlanFor
  <2>9. QED BY <1>1, <1>4, <2>1, <2>7, <2>8 DEF PlanIsSound, StampOf
<1>10. QED BY <1>5, <1>6, <1>7, <1>8, <1>9

LEMMA StopToolKeeps == ASSUME IInv, StopTool PROVE IInv'
<1>1. /\ todo' = {}
      /\ UNCHANGED <<job, at, disc, logfile, skip, logs, folders, moves, finished, lacking>>
  BY DEF StopTool, jobVars
<1>2. TypeOK' /\ FoldersByMaker' /\ RunningStamp' /\ MapIsWhole' /\ PlanIsSound'
  BY <1>1 DEF IInv, TypeOK, Begun, FoldersByMaker, RunningStamp, StampBySteps, MapIsWhole,
              StampedNames, StampOf, PlanIsSound, TitlesOf
<1>3. LogsByJob' /\ StampsByAge' /\ FinishedLogs'
  BY <1>1 DEF IInv, LogsByJob, StampsByAge, FinishedLogs, Begun, MadeBy, OwnLog, LogMap, LogOf,
              TitlesOf
<1>4. QED BY <1>2, <1>3 DEF IInv

LEMMA StutterKeeps == ASSUME IInv, UNCHANGED vars PROVE IInv'
<1>1. UNCHANGED <<job, at, disc, logfile, skip, logs, folders, todo, moves, finished, lacking>>
  BY DEF vars, jobVars
<1>2. TypeOK' /\ FoldersByMaker' /\ RunningStamp' /\ MapIsWhole'
  BY <1>1 DEF IInv, TypeOK, Begun, FoldersByMaker, RunningStamp, StampBySteps, MapIsWhole,
              StampedNames, StampOf, TitlesOf
<1>3. PlanIsSound'
  BY <1>1 DEF IInv, PlanIsSound, StampOf, WholeOrNull, MadeBy, TitlesOf, Begun
<1>4. LogsByJob' /\ StampsByAge' /\ FinishedLogs'
  BY <1>1 DEF IInv, LogsByJob, StampsByAge, FinishedLogs, Begun, MadeBy, OwnLog, LogMap, LogOf,
              TitlesOf
<1>5. QED BY <1>2, <1>3, <1>4 DEF IInv

LEMMA WriteKeeps == ASSUME IInv, NEW c \in todo, Write(c) PROVE IInv'
<1> USE DEF IInv
<1>1. /\ folders' = [folders EXCEPT ![c.name].stamp = c.after]
      /\ todo' = todo \ {c}
      /\ UNCHANGED <<job, at, disc, logfile, skip, logs, moves, finished, lacking>>
  BY DEF Write, jobVars
<1>2. PICK n \in DOMAIN folders, s \in Stamp :
        /\ n = c.name /\ s = c.after /\ folders[n].stamp = c.before
        /\ folders[n] \in Folder /\ n \in Name
  BY DEF PlanIsSound, StampOf, TypeOK, Change
<1>3. /\ DOMAIN folders' = DOMAIN folders
      /\ \A m \in DOMAIN folders : m # n => folders'[m] = folders[m]
      /\ folders'[n] \in Folder /\ folders'[n].stamp = s /\ s # Null
      /\ folders'[n].maker = folders[n].maker /\ folders'[n].made = folders[n].made
      /\ folders'[n].copy = folders[n].copy
  BY <1>1, <1>2, StampIs DEF Folder
<1>4. /\ Begun' = Begun /\ OwnLog' = OwnLog
      /\ \A j : LogOf(j)' = LogOf(j) /\ LogMap(j)' = LogMap(j)
  BY <1>1 DEF Begun, OwnLog, LogOf, LogMap
<1>5. \A j, m : MadeBy(j, m)' = MadeBy(j, m)
  BY <1>3 DEF MadeBy
<1>6. \A m \in DOMAIN folders : /\ folders'[m].maker = folders[m].maker
                                 /\ folders'[m].made = folders[m].made
                                 /\ folders'[m].copy = folders[m].copy
  BY <1>3
<1>7. /\ at \in BeforeTitles => folders[n].maker # job
      /\ s.job \in Begun /\ MadeBy(s.job, folders[n].made) /\ WholeOrNull(s)
      /\ folders[n].stamp = Null =>
            folders[n].maker < FirstStamped /\ s.job < FirstStamped /\ s.skipped = Null
      /\ folders[n].stamp # Null =>
            s.job = folders[n].stamp.job /\ s.skipped = folders[n].stamp.skipped
      /\ at # "idle" => job >= FirstStamped /\ job \in Nat /\ FirstStamped \in Nat
  <2>1. at # "idle" => job >= FirstMapped
    BY DEF PlanIsSound
  <2>2. at # "idle" => job >= FirstStamped /\ job \in Nat /\ FirstStamped \in Nat
    BY <2>1, Running, ArmStampsAssumption
  <2>3. QED BY <1>2, <2>2 DEF PlanIsSound
<1>8. folders[n].maker \in Nat /\ FirstStamped \in Nat
  BY <1>2, BegunAreJobs, ArmStampsAssumption DEF FoldersByMaker, Begun
<1>9. TypeOK'
  <2>1. \A m \in DOMAIN folders' : m \in Name /\ folders'[m] \in Folder
    BY <1>3 DEF TypeOK
  <2>2. QED BY <1>1, <1>4, <2>1 DEF TypeOK
<1>10. FoldersByMaker'
  BY <1>1, <1>3, <1>4, <1>6 DEF FoldersByMaker
<1>11. LogsByJob'
  BY <1>1, <1>4, <1>5 DEF LogsByJob
<1>12. RunningStamp'
  <2>1. ASSUME at \in Working, folders[n].maker = job PROVE StampBySteps(s)
    <3>1. at = "encoding" /\ StampBySteps(folders[n].stamp)
      BY <1>7, <2>1 DEF Working, RunningStamp
    <3>2. QED BY <1>3, <1>7, <3>1 DEF StampBySteps
  <2>2. \A m \in DOMAIN folders :
            at \in Working /\ folders[m].maker = job => StampBySteps(folders'[m].stamp)
    BY <1>3, <2>1 DEF RunningStamp
  <2>3. QED BY <1>1, <1>3, <1>6, <2>2 DEF RunningStamp, StampBySteps, TitlesOf
<1>13. StampsByAge'
  <2>1. \A m \in DOMAIN folders :
        folders'[m].stamp # Null =>
            /\ folders'[m].stamp.job \in Begun
            /\ MadeBy(folders'[m].stamp.job, folders[m].made)
            /\ folders[m].maker < FirstStamped =>
                folders'[m].stamp.job < FirstStamped /\ folders'[m].stamp.skipped = Null
            /\ folders[m].maker >= FirstStamped => folders'[m].stamp.job = folders[m].maker
    <3> SUFFICES ASSUME NEW m \in DOMAIN folders, folders'[m].stamp # Null
                 PROVE  /\ folders'[m].stamp.job \in Begun
                        /\ MadeBy(folders'[m].stamp.job, folders[m].made)
                        /\ folders[m].maker < FirstStamped =>
                            /\ folders'[m].stamp.job < FirstStamped
                            /\ folders'[m].stamp.skipped = Null
                        /\ folders[m].maker >= FirstStamped =>
                            folders'[m].stamp.job = folders[m].maker
      OBVIOUS
    <3>1. CASE m = n
      BY <1>3, <1>7, <1>8, <3>1 DEF StampsByAge
    <3>2. CASE m # n
      BY <1>3, <3>2 DEF StampsByAge
    <3>3. QED BY <3>1, <3>2
  <2>2. QED BY <1>3, <1>4, <1>5, <1>6, <2>1 DEF StampsByAge
<1>14. PlanIsSound'
  <2>1. \A e \in todo' : e \in todo /\ e.name # n
    BY <1>1, <1>2 DEF PlanIsSound
  <2>2. \A e \in todo' : folders'[e.name] = folders[e.name]
    BY <1>3, <2>1 DEF PlanIsSound
  <2>3. QED BY <1>1, <1>3, <1>4, <1>5, <2>1, <2>2 DEF PlanIsSound, StampOf, WholeOrNull, TitlesOf
<1>15. FinishedLogs'
  <2>1. \A m \in DOMAIN folders :
          folders[m].stamp # Null =>
            folders'[m].stamp # Null /\ folders'[m].stamp.skipped = folders[m].stamp.skipped
    BY <1>3, <1>7
  <2>2. QED BY <1>1, <1>3, <1>4, <1>6, <2>1 DEF FinishedLogs
<1>16. MapIsWhole'
  <2>1. \A m \in DOMAIN folders : folders'[m].stamp # Null => WholeOrNull(folders'[m].stamp)
    BY <1>3, <1>7 DEF MapIsWhole, StampedNames, StampOf, WholeOrNull
  <2>2. QED BY <1>1, <1>3, <2>1 DEF MapIsWhole, StampedNames, StampOf, WholeOrNull, TitlesOf
<1>17. QED BY <1>9, <1>10, <1>11, <1>12, <1>13, <1>14, <1>15, <1>16

-----------------------------------------------------------------------------
(* Theorems.                                                               *)

THEOREM InductiveInvariant == Spec => []IInv
<1>1. IInv /\ [Next]_vars => IInv'
  <2> SUFFICES ASSUME IInv, [Next]_vars PROVE IInv'
    OBVIOUS
  <2>1. CASE JobStep
    BY <2>1, StartJobKeeps, MakeFolderKeeps, StampsKeeps, CopyKeeps, ExtractKeeps, ScanKeeps,
       ScanFailsKeeps, ScanUnrecordedKeeps, EncodeKeeps, DieKeeps DEF JobStep
  <2>2. CASE \E n \in DOMAIN folders : Rename(n) \/ Restore(n)
    BY <2>2, RenameKeeps, RestoreKeeps
  <2>3. CASE \E l \in DOMAIN logs : AgeOut(l)
    BY <2>3, AgeOutKeeps
  <2>4. CASE Plan
    BY <2>4, PlanKeeps
  <2>5. CASE \E change \in todo : Write(change)
    BY <2>5, WriteKeeps
  <2>6. CASE StopTool
    BY <2>6, StopToolKeeps
  <2>7. CASE UNCHANGED vars
    BY <2>7, StutterKeeps
  <2>8. QED BY <2>1, <2>2, <2>3, <2>4, <2>5, <2>6, <2>7 DEF Next
<1>2. QED BY <1>1, InitIInv, PTL DEF Spec

\* Type correctness of the jobs, their logs and folders, and the plan.
THEOREM TypeCorrect == Spec => []TypeOK
<1>1. IInv => TypeOK
  BY DEF IInv
<1>2. QED BY <1>1, InductiveInvariant, PTL

\* A stamp names the job that made its folder, or one that made a folder under
\* the same name before.
THEOREM StampsNameMakers == Spec => []StampNamesMaker
<1>1. IInv => StampNamesMaker
  BY DEF IInv, StampsByAge, StampNamesMaker, StampedNames, StampOf, MadeBy
<1>2. QED BY <1>1, InductiveInvariant, PTL

\* What the tool is yet to write was planned from the stamp as it still is.
THEOREM PlansStayCurrent == Spec => []PlanStaysCurrent
<1>1. IInv => PlanStaysCurrent
  BY DEF IInv, PlanIsSound, PlanStaysCurrent
<1>2. QED BY <1>1, InductiveInvariant, PTL

\* A Blu-ray's map lists the whole of its own disc.
THEOREM MapsAreWhole == Spec => []MapIsWhole
<1>1. IInv => MapIsWhole
  BY DEF IInv
<1>2. QED BY <1>1, InductiveInvariant, PTL

-----------------------------------------------------------------------------
(* No map shrinks.                                                         *)

\* The folder n keeps the titles on its map, if it is the folder it was.
KeepsMap(n) ==
    folders[n].stamp # Null /\ folders'[n].maker = folders[n].maker
        /\ folders[n].stamp.map # Null
    => folders'[n].stamp.map # Null /\ folders[n].stamp.map \subseteq folders'[n].stamp.map

MapsAreKept == \A n \in DOMAIN folders \cap DOMAIN folders' : KeepsMap(n)

\* Only the running job's own stamp is written anew, and what it says before is
\* what StampBySteps allows.
LEMMA OwnStampKeepsMap ==
    ASSUME IInv, at \in Working, NEW s \in Stamp, folders' = [folders EXCEPT ![Own].stamp = s],
           \/ folders[Own].stamp = Null
           \/ folders[Own].stamp.map = Null
           \/ s.map # Null /\ folders[Own].stamp.map \subseteq s.map
    PROVE  MapsAreKept
<1>1. Own \in DOMAIN folders /\ folders[Own] \in Folder
  BY Running DEF Working, BeforeTitles
<1> HIDE DEF Own
<1>2. /\ \A n \in DOMAIN folders : n # Own => folders'[n] = folders[n]
      /\ folders'[Own].stamp = s
  BY <1>1 DEF Folder
<1>3. QED BY <1>2 DEF MapsAreKept, KeepsMap

LEMMA StampsKeepsMaps == ASSUME IInv, Stamps PROVE MapsAreKept
<1>1. at = "stamping" /\ folders' = [folders EXCEPT ![Own].stamp = Written(Null, Null)]
  BY DEF Stamps, Does
<1>2. at \in Working
  BY <1>1 DEF Working, BeforeTitles
<1>3. folders[Own].stamp = Null /\ Written(Null, Null) \in Stamp
  BY <1>1, <1>2, Running, WrittenIs DEF StampBySteps, IInv
<1>4. QED BY <1>1, <1>2, <1>3, OwnStampKeepsMap

LEMMA ExtractKeepsMaps == ASSUME IInv, Extract PROVE MapsAreKept
<1>1. /\ at = "extracting"
      /\ folders' = [folders EXCEPT ![Own].stamp = Written(TRUE, TitlesOf(job))]
  BY DEF Extract, Does
<1>2. at \in Working
  BY <1>1 DEF Working, BeforeTitles
<1>3. TypeOK /\ job \in Jobs /\ TitlesOf(job) \in Map
  BY <1>1, Running DEF IInv
<1>4. folders[Own].stamp = Null \/ folders[Own].stamp.map = Null
  BY <1>1, <1>2, Running DEF StampBySteps
<1>5. Written(TRUE, TitlesOf(job)) \in Stamp
  BY <1>3, WrittenIs
<1>6. QED BY <1>1, <1>2, <1>4, <1>5, OwnStampKeepsMap

LEMMA CopyKeepsMaps == ASSUME IInv, Copy PROVE MapsAreKept
<1>1. PICK copied \in {"short", "full"} :
        /\ at = "copying"
        /\ folders' =
            IF job >= FirstStamped
            THEN [folders EXCEPT ![Own].stamp = Written(copied = "full", Null)]
            ELSE IF disc[job] = "dvd" THEN folders
                 ELSE [folders EXCEPT ![Own].copy = copied]
  BY DEF Copy, Does
<1>2. at \in Working
  BY <1>1 DEF Working, BeforeTitles
<1>3. CASE job >= FirstStamped
  <2>1. (copied = "full") \in {Null} \cup BOOLEAN
    BY Zenon
  <2>2. folders[Own].stamp.map = Null /\ Written(copied = "full", Null) \in Stamp
    BY <1>1, <1>2, <1>3, <2>1, Running, WrittenIs DEF StampBySteps, IInv
  <2>3. QED BY <1>1, <1>2, <1>3, <2>2, OwnStampKeepsMap
<1>4. CASE ~(job >= FirstStamped)
  <2>1. Own \in DOMAIN folders /\ folders[Own] \in Folder
    BY <1>1, <1>2, Running
  <2>2. folders' = folders \/ folders' = [folders EXCEPT ![Own].copy = copied]
    BY <1>1, <1>4
  <2> HIDE DEF Own
  <2>3. \A n \in DOMAIN folders : folders'[n].stamp = folders[n].stamp
    BY <2>1, <2>2 DEF Folder
  <2>4. QED BY <2>3 DEF MapsAreKept, KeepsMap
<1>5. QED BY <1>3, <1>4

LEMMA ScanKeepsMaps == ASSUME IInv, Scan PROVE MapsAreKept
<1>1. at = "scanning" /\ skip' \in SUBSET TitlesOf(job)
  BY DEF Scan, Does
<1>2. at \in Working
  BY <1>1 DEF Working, BeforeTitles
<1>3. /\ Own \in DOMAIN folders /\ folders[Own] \in Folder /\ job \in Nat /\ FirstStamped \in Nat
      /\ StampBySteps(folders[Own].stamp)
  BY <1>1, <1>2, Running
<1>4. CASE job < FirstStamped
  BY <1>4 DEF Scan, MapsAreKept, KeepsMap
<1>5. CASE ~(job < FirstStamped)
  <2>1. folders[Own].stamp \in Stamp /\ folders[Own].stamp.map \in {Null, TitlesOf(job)}
    BY <1>1, <1>3, <1>5 DEF StampBySteps, Folder
  <2>2. folders' = [folders EXCEPT
            ![Own].stamp.skipped = skip',
            ![Own].stamp.map =
                IF disc[job] = "bluray" /\ job >= FirstMapped THEN TitlesOf(job) ELSE @]
    BY <1>5 DEF Scan
  <2>3. TitlesOf(job) # Null
    BY <1>1, Running, TitlesAreMaps
  <2> HIDE DEF Own
  <2>4. /\ \A n \in DOMAIN folders : n # Own => folders'[n] = folders[n]
        /\ folders'[Own].stamp.map =
            IF disc[job] = "bluray" /\ job >= FirstMapped THEN TitlesOf(job)
            ELSE folders[Own].stamp.map
    BY <1>3, <2>1, <2>2 DEF Folder, Stamp
  <2>5. QED BY <2>1, <2>3, <2>4 DEF MapsAreKept, KeepsMap
<1>6. QED BY <1>4, <1>5

\* The folder the job makes had none, and what the owner renames or restores keeps
\* its map.
LEMMA OthersKeepMaps ==
    ASSUME IInv,
           \/ MakeFolder \/ Die
           \/ \E n \in DOMAIN folders : Rename(n) \/ Restore(n)
           \/ UNCHANGED folders
    PROVE  MapsAreKept
<1>1. CASE MakeFolder
  <2>1. at = "naming" /\ job' = job
    BY <1>1 DEF MakeFolder, Does
  <2>2. FreeOf(folders) \notin DOMAIN folders
    BY <2>1, FreeFolderIsFree DEF IInv
  <2>3. \A n \in DOMAIN folders : folders'[n] = folders[n]
    BY <1>1, <2>2 DEF MakeFolder, With
  <2>4. QED BY <2>3 DEF MapsAreKept, KeepsMap
<1>2. CASE Die
  <2>1. CASE UNCHANGED folders
    BY <2>1 DEF MapsAreKept, KeepsMap
  <2>2. CASE at = "copying" /\ folders' = [folders EXCEPT ![Own].copy = "short"]
    <3>1. Own \in DOMAIN folders /\ folders[Own] \in Folder
      BY <2>2, Running DEF Working, BeforeTitles
    <3> HIDE DEF Own
    <3>2. \A n \in DOMAIN folders : folders'[n].stamp = folders[n].stamp
      BY <2>2, <3>1 DEF Folder
    <3>3. QED BY <3>2 DEF MapsAreKept, KeepsMap
  <2>3. QED BY <1>2, <2>1, <2>2 DEF Die
<1>3. ASSUME NEW n \in DOMAIN folders, Rename(n) PROVE MapsAreKept
  BY <1>3 DEF Rename, With, Without, MapsAreKept, KeepsMap
<1>4. ASSUME NEW n \in DOMAIN folders, Restore(n) PROVE MapsAreKept
  <2>1. folders[n] \in Folder /\ folders[n].stamp \in Stamp
    BY <1>4 DEF IInv, TypeOK, Folder, Restore
  <2>2. /\ \A m \in DOMAIN folders : m # n => folders'[m] = folders[m]
        /\ folders'[n].stamp.map = folders[n].stamp.map
    BY <1>4, <2>1 DEF Restore, Folder, Stamp
  <2>3. QED BY <2>2 DEF MapsAreKept, KeepsMap
<1>5. CASE UNCHANGED folders
  BY <1>5 DEF MapsAreKept, KeepsMap
<1>6. QED BY <1>1, <1>2, <1>3, <1>4, <1>5

LEMMA WriteKeepsMaps == ASSUME IInv, NEW c \in todo, Write(c) PROVE MapsAreKept
<1>1. /\ c.name \in DOMAIN folders /\ folders[c.name].stamp = c.before /\ c.after \in Stamp
      /\ c.before # Null /\ c.before.map # Null => c.after.map = c.before.map
      /\ folders[c.name] \in Folder
  BY DEF IInv, PlanIsSound, StampOf, TypeOK, Change
<1>2. /\ \A n \in DOMAIN folders : n # c.name => folders'[n] = folders[n]
      /\ folders'[c.name].stamp = c.after
  BY <1>1 DEF Write, Folder
<1>3. QED BY <1>1, <1>2 DEF MapsAreKept, KeepsMap

\* No step of a job, of the owner or of the tool takes a title off a map: where
\* stamps.py fills in or conforms a stamp, and where ARM writes its own again.
THEOREM MapsNeverShrink == Spec => MapNeverShrinks
<1>1. ASSUME IInv, [Next]_vars PROVE MapsAreKept
  <2>1. CASE JobStep
    <3>1. StartJob \/ ScanFails \/ ScanUnrecorded \/ Encode => UNCHANGED folders
      BY DEF StartJob, ScanFails, ScanUnrecorded, Encode
    <3>2. QED BY <1>1, <2>1, <3>1, StampsKeepsMaps, CopyKeepsMaps, ExtractKeepsMaps,
                 ScanKeepsMaps, OthersKeepMaps DEF JobStep
  <2>2. CASE \E change \in todo : Write(change)
    BY <1>1, <2>2, WriteKeepsMaps
  <2>3. CASE (\E l \in DOMAIN logs : AgeOut(l)) \/ Plan \/ StopTool \/ UNCHANGED vars
    <3>1. UNCHANGED folders
      BY <2>3 DEF AgeOut, Plan, StopTool, vars
    <3>2. QED BY <1>1, <3>1, OthersKeepMaps
  <2>4. CASE \E n \in DOMAIN folders : Rename(n) \/ Restore(n)
    BY <1>1, <2>4, OthersKeepMaps
  <2>5. QED BY <1>1, <2>1, <2>2, <2>3, <2>4 DEF Next
<1>2. IInv /\ [Next]_vars =>
        [\A n \in StampedNames \cap DOMAIN folders' :
            /\ folders'[n].maker = folders[n].maker
            /\ StampOf(n).map # Null
            => /\ StampOf(n)'.map # Null
               /\ StampOf(n).map \subseteq StampOf(n)'.map]_folders
  BY <1>1 DEF MapsAreKept, KeepsMap, StampedNames, StampOf
<1>3. QED BY <1>2, InductiveInvariant, PTL DEF Spec, MapNeverShrinks

-----------------------------------------------------------------------------
(* A second run finds nothing to do.                                       *)

\* _proven_folder proves one folder, or none.
LEMMA OneProven ==
    ASSUME NEW j, NEW raw, NEW n \in Proven(j, raw), NEW m \in Proven(j, raw)
    PROVE  n = m
<1> DEFINE candidates == (LogPath(j) \cup {Staged(j)}) \cap DOMAIN raw
<1>1. n \in candidates /\ m \in candidates /\ Cardinality(candidates) = 1
  BY DEF Proven
<1>2. PICK p : LogPath(j) \subseteq {p}
  <2>1. CASE logfile[j] \in DOMAIN logs /\ logs[logfile[j]].opened = j
    <3>1. LogOf(j) = {logs[logfile[j]]}
      BY <2>1 DEF LogOf
    <3>2. QED BY <3>1 DEF LogPath
  <2>2. CASE ~(logfile[j] \in DOMAIN logs /\ logs[logfile[j]].opened = j)
    <3>1. LogOf(j) = {}
      BY <2>2 DEF LogOf
    <3>2. QED BY <3>1 DEF LogPath
  <2>3. QED BY <2>1, <2>2
<1>3. IsFiniteSet({p, Staged(j)})
  <2>1. IsFiniteSet({p} \cup {Staged(j)})
    BY FS_Singleton, FS_AddElement
  <2>2. {p} \cup {Staged(j)} = {p, Staged(j)}
    OBVIOUS
  <2>3. QED BY <2>1, <2>2
<1>4. candidates \in SUBSET {p, Staged(j)}
  BY <1>2
<1> HIDE DEF candidates
<1>5. IsFiniteSet(candidates)
  BY <1>3, <1>4, FS_Subset
<1>6. PICK x : candidates = {x}
  BY <1>1, <1>5, FS_Singleton
<1>7. QED BY <1>1, <1>6

\* What the tool would write leaves nothing to conform: the form is current, and a
\* map the log gives is there.
LEMMA ConformedStays ==
    ASSUME IInv, NEW c \in PlanFor(folders)
    PROVE  /\ c.after \in Stamp /\ c.after.job \in Begun /\ c.after.form = "current"
           /\ disc[c.after.job] = "bluray" /\ LogMap(c.after.job) # {} => c.after.map # Null
<1>1. CASE c \in Rewrites(folders)
  <2>1. PICK b \in Stamp : b = c.before /\ b.job \in Begun
    BY <1>1, RewritesAre
  <2>2. /\ c.after \in Stamp /\ c.after.job = b.job /\ c.after.form = "current"
        /\ c.after.map = IF disc[b.job] = "bluray" /\ b.map = Null /\ LogMap(b.job) # {}
                         THEN LogMap(b.job) \cup TitlesIn(b.skipped) ELSE b.map
    BY <1>1, <2>1, RewritesAre DEF Change
  <2>3. LogMap(b.job) \cup TitlesIn(b.skipped) \in SUBSET (Jobs \X Titles)
    <3>1. LogMap(b.job) \in SUBSET (Jobs \X Titles)
      BY <1>1, <2>1, RewritesAre
    <3>2. TitlesIn(b.skipped) \in SUBSET (Jobs \X Titles)
      BY <2>1, StampIs DEF TitlesIn, Map
    <3>3. QED BY <3>1, <3>2
  <2>4. LogMap(b.job) \cup TitlesIn(b.skipped) # Null
    BY <2>3, TitlesAreMaps
  <2>5. QED BY <2>1, <2>2, <2>4
<1>2. CASE c \in Backfills(folders)
  <2>1. PICK j \in Begun : j = c.after.job /\ c.after = Backfill(j, folders[c.name])
    BY <1>2, BackfillsAre
  <2>2. /\ c.after \in Stamp /\ c.after.form = "current"
        /\ c.after.map = IF disc[j] = "bluray" /\ LogMap(j) # {} THEN LogMap(j) ELSE Null
    BY <2>1, BackfillIs DEF IInv
  <2>3. LogMap(j) # Null
    BY <2>1, BegunAreJobs, LogIs, TitlesAreMaps DEF IInv
  <2>4. QED BY <2>1, <2>2, <2>3
<1>3. QED BY <1>1, <1>2 DEF PlanFor

\* A stamp in the current form, with the map its log gives, is left as it is.
LEMMA ConformIdle ==
    ASSUME NEW s \in Stamp, NEW type, NEW pairs \in SUBSET (Jobs \X Titles),
           s.form = "current", type = "bluray" /\ pairs # {} => s.map # Null
    PROVE  Conform(type, s, pairs) = s
<1>1. PICK a \in Stamp :
        /\ a = Conform(type, s, pairs)
        /\ a.job = s.job /\ a.form = s.form /\ a.complete = s.complete
        /\ a.skipped = s.skipped /\ a.map = s.map
  <2>1. /\ Conform(type, s, pairs) \in Stamp
        /\ Conform(type, s, pairs).job = s.job
        /\ Conform(type, s, pairs).form = "current"
        /\ Conform(type, s, pairs).complete = s.complete
        /\ Conform(type, s, pairs).skipped = s.skipped
        /\ Conform(type, s, pairs).map =
             IF type = "bluray" /\ s.map = Null /\ pairs # {}
             THEN pairs \cup TitlesIn(s.skipped) ELSE s.map
    BY ConformIs, Zenon
  <2>2. QED BY <2>1
<1>2. a = s
  BY <1>1, StampIs
<1>3. QED BY <1>1, <1>2

\* Once what stamps.py plans is written, it plans nothing more: conform has
\* nothing to change in what it or backfill wrote, and a folder still without a
\* stamp has the claims it had.
THEOREM SecondRunsAreQuiet == Spec => []SecondRunIsQuiet
<1>1. ASSUME IInv PROVE SecondRunIsQuiet
  <2> DEFINE plan == PlanFor(folders)
             changed == {c.name : c \in plan}
             after == [n \in DOMAIN folders |->
                        IF n \notin changed THEN folders[n]
                        ELSE [folders[n] EXCEPT
                                !.stamp = (CHOOSE c \in plan : c.name = n).after]]
  <2>1. \A c \in plan : /\ c.name \in DOMAIN folders /\ c.after \in Stamp /\ c.after # Null
                        /\ folders[c.name] \in Folder
    BY <1>1, RewritesAre, BackfillsAre, ConformedStays, StampIs DEF PlanFor, IInv, TypeOK
  <2>2. ASSUME NEW c \in plan
        PROVE  after[c.name].stamp = c.after /\ after[c.name].copy = folders[c.name].copy
    <3>1. \A e \in plan : e.name = c.name => e = c
      BY <1>1, OnePerName
    <3>2. (CHOOSE e \in plan : e.name = c.name) = c
      <4> HIDE DEF plan
      <4> QED BY <3>1
    <3>3. c.name \in DOMAIN folders /\ c.name \in changed /\ folders[c.name] \in Folder
      BY <2>1
    <3>4. after[c.name] = [folders[c.name] EXCEPT !.stamp = c.after]
      BY <3>2, <3>3
    <3>5. QED BY <3>3, <3>4 DEF Folder
  <2>3. \A n \in DOMAIN folders \ changed : after[n] = folders[n]
    OBVIOUS
  <2>4. DOMAIN after = DOMAIN folders
    OBVIOUS
  <2>5. \A n \in changed : \E c \in plan : c.name = n
    OBVIOUS
  <2>6. PICK raw : raw = after
    OBVIOUS
  <2>7. /\ DOMAIN raw = DOMAIN folders
        /\ \A n \in DOMAIN folders \ changed : raw[n] = folders[n]
        /\ \A c \in plan : raw[c.name].stamp = c.after /\ raw[c.name].copy = folders[c.name].copy
    BY <2>2, <2>3, <2>4, <2>6
  <2> HIDE DEF after, changed
  <2>8. Rewrites(raw) = {}
    <3> SUFFICES ASSUME NEW n \in DOMAIN folders, raw[n].stamp # Null
                 PROVE  Conform(disc[raw[n].stamp.job], raw[n].stamp,
                                LogMap(raw[n].stamp.job)) = raw[n].stamp
      BY <2>7 DEF Rewrites
    <3>1. CASE n \in changed
      <4>1. PICK c \in plan : c.name = n
        BY <2>5, <3>1
      <4>2. PICK s \in Stamp : s = c.after /\ s = raw[n].stamp
        BY <2>1, <2>7, <4>1
      <4>3. /\ s.form = "current" /\ s.job \in Begun
            /\ disc[s.job] = "bluray" /\ LogMap(s.job) # {} => s.map # Null
        BY <1>1, <4>2, ConformedStays
      <4>4. LogMap(s.job) \in SUBSET (Jobs \X Titles)
        BY <1>1, <4>3, LogIs, TitlesAreMaps, BegunAreJobs DEF IInv
      <4>5. Conform(disc[s.job], s, LogMap(s.job)) = s
        BY <4>3, <4>4, ConformIdle
      <4>6. QED BY <4>2, <4>5
    <3>2. CASE n \notin changed
      <4>1. raw[n] = folders[n]
        BY <2>7, <3>2
      <4>2. SUFFICES ASSUME Conform(disc[folders[n].stamp.job], folders[n].stamp,
                                    LogMap(folders[n].stamp.job)) # folders[n].stamp
                     PROVE  FALSE
        BY <4>1
      <4>3. [name |-> n, before |-> folders[n].stamp,
             after |-> Conform(disc[folders[n].stamp.job], folders[n].stamp,
                               LogMap(folders[n].stamp.job))] \in Rewrites(folders)
        BY <4>1, <4>2 DEF Rewrites
      <4>4. QED BY <3>2, <4>3 DEF changed, PlanFor
    <3>3. QED BY <3>1, <3>2
  <2>9. Backfills(raw) = {}
    <3> SUFFICES ASSUME NEW n \in DOMAIN folders, raw[n].stamp = Null,
                        Cardinality(Claims(raw, n)) = 1
                 PROVE  FALSE
      BY <2>7 DEF Backfills
    <3>1. n \notin changed /\ raw[n] = folders[n]
      BY <2>1, <2>5, <2>7
    <3>2. \A j : Proven(j, raw) = Proven(j, folders)
      BY <2>7 DEF Proven
    <3>3. Claims(raw, n) \subseteq Claims(folders, n)
      <4> SUFFICES ASSUME NEW m \in DOMAIN folders, folders[m].stamp # Null
                   PROVE  \E k \in DOMAIN raw : /\ raw[k].stamp # Null
                                                /\ raw[k].stamp.job = folders[m].stamp.job
        BY <2>7, <3>1, <3>2 DEF Claims
      <4>1. CASE m \in changed
        <5>1. PICK c \in plan : c.name = m
          BY <2>5, <4>1
        <5>2. c.after.job = folders[m].stamp.job
          BY <1>1, <5>1, RewritesAre, BackfillsAre DEF PlanFor
        <5>3. QED BY <2>1, <2>7, <5>1, <5>2
      <4>2. CASE m \notin changed
        BY <2>7, <4>2
      <4>3. QED BY <4>1, <4>2
    <3>4. Claims(folders, n) \subseteq Claims(raw, n)
      <4> SUFFICES ASSUME NEW j \in Claims(folders, n), NEW m \in DOMAIN raw,
                          raw[m].stamp # Null, raw[m].stamp.job = j
                   PROVE  FALSE
        BY <2>7, <3>1, <3>2 DEF Claims
      <4>1. n \in Proven(j, folders)
            /\ \A k \in DOMAIN folders : folders[k].stamp # Null => folders[k].stamp.job # j
        BY DEF Claims
      <4>2. m \in changed
        BY <2>7, <4>1
      <4>3. PICK c \in plan : c.name = m /\ c.after.job = j
        BY <2>5, <2>7, <4>2
      <4>4. c \in Backfills(folders)
        BY <1>1, <4>1, <4>3, RewritesAre DEF PlanFor
      <4>5. m \in Proven(j, folders)
        BY <1>1, <4>3, <4>4, BackfillsAre DEF Claims
      <4>6. m = n
        BY <4>1, <4>5, OneProven
      <4>7. QED BY <3>1, <4>2, <4>6
    <3>5. Claims(raw, n) = Claims(folders, n)
      BY <3>3, <3>4
    <3>6. [name |-> n, before |-> Null,
           after |-> Backfill(CHOOSE j \in Claims(folders, n) : TRUE, folders[n])]
             \in Backfills(folders)
      BY <3>1, <3>5 DEF Backfills
    <3>7. QED BY <3>1, <3>6 DEF changed, PlanFor
  <2>10. PlanFor(after) = {}
    BY <2>6, <2>8, <2>9 DEF PlanFor
  <2>11. QED BY <2>10 DEF SecondRunIsQuiet, after, changed
<1>2. QED BY <1>1, InductiveInvariant, PTL

=============================================================================
