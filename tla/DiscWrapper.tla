---------------------------- MODULE DiscWrapper -----------------------------
(***************************************************************************)
(* arm-disc-wrapper.sh (kubernetes/apps/automatic-ripping-machine/         *)
(* init-scripts.yaml): what stands between udev's change events and ARM.   *)
(*                                                                         *)
(* Each event runs the wrapper.  It takes the drive's lock or exits, asks  *)
(* the drive for its status, polls udev's database until that lists the    *)
(* disc's media properties or its patience ends, and becomes the ARM job,  *)
(* lock in hand.  Meanwhile the drive reads what is in the tray, the tray  *)
(* is opened and closed, and each change owes an event, on which udev      *)
(* brings its database up to date.                                         *)
(***************************************************************************)
EXTENDS Naturals

CONSTANTS Wrapper,       \* processes running the script: a bound on how many at once
          NoOne,         \* nobody holds the lock
          MaxPolls       \* how often a wrapper asks udev before it gives up

ASSUME DiscWrapperAssumption ==
    /\ NoOne \notin Wrapper
    /\ MaxPolls \in Nat \ {0}

VARIABLES drive,    \* the tray is open, or its disc loading, ok, or its TOC read
          media,    \* udev's database lists ID_CDROM_MEDIA_* for the drive
          owed,     \* change events the kernel has yet to deliver; it merges some
          wrapper,  \* where each wrapper is
          saw,      \* whether what the lock's holder last asked for was there
          polls,    \* how often it has asked udev
          lock,     \* who holds the drive's lock
          jobs,     \* how many jobs the disc in the tray has had; 2 for more
          unread,   \* whether a job was started on anything but a disc with its TOC read
          moved,    \* whether the tray was ever opened under a wrapper
          failed,   \* whether a job failed on the disc in the tray
          dropped   \* whether an event was ever dropped on a wrapper without a job

wrapperVars == <<drive, media, owed, wrapper, saw, polls, lock, jobs, unread, moved, failed, dropped>>
history == <<moved, failed, dropped>>
driveVars == <<drive, media, owed>>

AtMostTwo(n) == IF n > 2 THEN 2 ELSE n

WrapperTypeOK ==
    /\ drive \in {"open", "loading", "ok", "read"}
    /\ media \in BOOLEAN
    /\ owed \in 0 .. 2
    /\ wrapper \in [Wrapper -> {"none", "started", "locked", "asked", "polling",
                                "polled", "job"}]
    /\ saw \in BOOLEAN
    /\ polls \in 0 .. MaxPolls
    /\ lock \in Wrapper \cup {NoOne}
    /\ jobs \in 0 .. 2
    /\ unread \in BOOLEAN /\ moved \in BOOLEAN
    /\ failed \in BOOLEAN /\ dropped \in BOOLEAN

WrapperInit ==
    /\ drive = "open"
    /\ media = FALSE
    /\ owed = 0
    /\ wrapper = [w \in Wrapper |-> "none"]
    /\ saw = FALSE
    /\ polls = 0
    /\ lock = NoOne
    /\ jobs = 0
    /\ unread = FALSE
    /\ moved = FALSE
    /\ failed = FALSE
    /\ dropped = FALSE

-----------------------------------------------------------------------------
(* The drive and udev.                                                     *)

Idle == \A w \in Wrapper : wrapper[w] = "none"

Becomes(state) ==
    /\ drive' = state
    /\ owed' = AtMostTwo(owed + 1)
    /\ UNCHANGED <<media, wrapper, saw, polls, lock, unread, dropped>>

Job == {w \in Wrapper : wrapper[w] = "job"}

\* Changing a disc takes longer than delivering the event of the tray's opening.
\* A job that a wrapper started on the open tray goes on with the new disc.
CloseTray ==
    /\ drive = "open"
    /\ owed = 0
    /\ jobs' = IF Job = {} THEN 0 ELSE 1
    /\ failed' = FALSE
    /\ Becomes("loading")
    /\ UNCHANGED moved

DiscOK == drive = "loading" /\ Becomes("ok") /\ UNCHANGED <<jobs, moved, failed>>

ReadTOC == drive = "ok" /\ Becomes("read") /\ UNCHANGED <<jobs, moved, failed>>

\* A job holds the tray locked.
OpenTray ==
    /\ drive # "open"
    /\ Job = {}
    /\ Becomes("open")
    /\ moved' = (moved \/ ~Idle)
    /\ UNCHANGED <<jobs, failed>>

\* An ATA link reset during a rip.
LinkReset ==
    /\ Job # {}
    /\ Becomes(drive)
    /\ UNCHANGED <<jobs, moved, failed>>

Deliver(w) ==
    /\ owed > 0
    /\ wrapper[w] = "none"
    /\ owed' = owed - 1
    /\ media' = (drive = "read")
    /\ wrapper' = [wrapper EXCEPT ![w] = "started"]
    /\ UNCHANGED <<drive, saw, polls, lock, jobs, unread>>
    /\ UNCHANGED history

-----------------------------------------------------------------------------
(* The wrapper.                                                            *)

TakeLock(w) ==
    /\ wrapper[w] = "started"
    /\ lock = NoOne
    /\ lock' = w
    /\ wrapper' = [wrapper EXCEPT ![w] = "locked"]
    /\ UNCHANGED <<saw, polls, jobs, unread>>
    /\ UNCHANGED driveVars
    /\ UNCHANGED history

\* "a job already holds the drive, skipping".
Skip(w) ==
    /\ wrapper[w] = "started"
    /\ lock # NoOne
    /\ wrapper' = [wrapper EXCEPT ![w] = "none"]
    /\ dropped' = (dropped \/ wrapper[lock] \in {"locked", "asked", "polling", "polled"})
    /\ UNCHANGED <<saw, polls, lock, jobs, unread, moved, failed>>
    /\ UNCHANGED driveVars

AskStatus(w) ==
    /\ wrapper[w] = "locked"
    /\ saw' = (drive \in {"ok", "read"})
    /\ wrapper' = [wrapper EXCEPT ![w] = "asked"]
    /\ UNCHANGED <<polls, lock, jobs, unread>>
    /\ UNCHANGED driveVars
    /\ UNCHANGED history

StatusOK(w) ==
    /\ wrapper[w] = "asked"
    /\ saw
    /\ polls' = 0
    /\ wrapper' = [wrapper EXCEPT ![w] = "polling"]
    /\ UNCHANGED <<saw, lock, jobs, unread>>
    /\ UNCHANGED driveVars
    /\ UNCHANGED history

\* The lock goes with the process.
Exit(w) ==
    /\ lock' = NoOne
    /\ wrapper' = [wrapper EXCEPT ![w] = "none"]
    /\ UNCHANGED <<saw, polls, jobs, unread>>

NoDiscExit(w) ==
    /\ wrapper[w] = "asked"
    /\ ~saw
    /\ Exit(w)
    /\ UNCHANGED driveVars
    /\ UNCHANGED history

Poll(w) ==
    /\ wrapper[w] = "polling"
    /\ saw' = media
    /\ wrapper' = [wrapper EXCEPT ![w] = "polled"]
    /\ UNCHANGED <<polls, lock, jobs, unread>>
    /\ UNCHANGED driveVars
    /\ UNCHANGED history

\* Fault: no end to the polling.
PollForEver(w) ==
    /\ wrapper[w] = "polled"
    /\ ~saw
    /\ owed = 0
    /\ polls' = polls + 1
    /\ wrapper' = [wrapper EXCEPT ![w] = "polling"]
    /\ UNCHANGED <<saw, lock, jobs, unread>>
    /\ UNCHANGED driveVars
    /\ UNCHANGED history

\* The sleep between two polls is long enough for udev to catch up.
PollAgain(w) ==
    /\ wrapper[w] = "polled"
    /\ ~saw
    /\ owed = 0
    /\ polls < MaxPolls
    /\ polls' = polls + 1
    /\ wrapper' = [wrapper EXCEPT ![w] = "polling"]
    /\ UNCHANGED <<saw, lock, jobs, unread>>
    /\ UNCHANGED driveVars
    /\ UNCHANGED history

\* Fault: the process that gives up keeps the lock.
GiveUpForGood(w) ==
    /\ wrapper[w] = "polled"
    /\ ~saw
    /\ polls = MaxPolls
    /\ wrapper' = [wrapper EXCEPT ![w] = "none"]
    /\ UNCHANGED <<saw, polls, lock, jobs, unread>>
    /\ UNCHANGED driveVars
    /\ UNCHANGED history

GiveUp(w) ==
    /\ wrapper[w] = "polled"
    /\ ~saw
    /\ polls = MaxPolls
    /\ Exit(w)
    /\ UNCHANGED driveVars
    /\ UNCHANGED history

\* Faults: the drive's status taken for enough; the lock not inherited through
\* exec.
StartOnStatus(w) ==
    /\ wrapper[w] \in {"polling", "polled"}
    /\ wrapper' = [wrapper EXCEPT ![w] = "job"]
    /\ jobs' = AtMostTwo(jobs + 1)
    /\ unread' = (unread \/ drive # "read")
    /\ UNCHANGED <<saw, polls, lock>>
    /\ UNCHANGED driveVars
    /\ UNCHANGED history

StartUnlocked(w) ==
    /\ wrapper[w] = "polled"
    /\ saw
    /\ lock' = NoOne
    /\ wrapper' = [wrapper EXCEPT ![w] = "job"]
    /\ jobs' = AtMostTwo(jobs + 1)
    /\ unread' = (unread \/ drive # "read")
    /\ UNCHANGED <<saw, polls>>
    /\ UNCHANGED driveVars
    /\ UNCHANGED history

\* exec: the job goes on under the wrapper's lock.
Start(w) ==
    /\ wrapper[w] = "polled"
    /\ saw
    /\ wrapper' = [wrapper EXCEPT ![w] = "job"]
    /\ jobs' = AtMostTwo(jobs + 1)
    /\ unread' = (unread \/ drive # "read")
    /\ UNCHANGED <<saw, polls, lock>>
    /\ UNCHANGED driveVars
    /\ UNCHANGED history

JobEnds(w) ==
    /\ wrapper[w] = "job"
    /\ Exit(w)
    /\ drive' = "open"
    /\ owed' = AtMostTwo(owed + 1)
    /\ UNCHANGED media
    /\ UNCHANGED history

JobFails(w) ==
    /\ wrapper[w] = "job"
    /\ Exit(w)
    /\ failed' = TRUE
    /\ UNCHANGED <<moved, dropped>>
    /\ UNCHANGED driveVars

-----------------------------------------------------------------------------
WrapperStep(w) ==
    \/ TakeLock(w)
    \/ Skip(w)
    \/ AskStatus(w)
    \/ StatusOK(w)
    \/ NoDiscExit(w)
    \/ Poll(w)
    \/ PollAgain(w)
    \/ GiveUp(w)
    \/ Start(w)
    \/ JobEnds(w)

DriveStep == CloseTray \/ DiscOK \/ ReadTOC \/ OpenTray \/ LinkReset

WrapperNext ==
    \/ DriveStep
    \/ \E w \in Wrapper : Deliver(w) \/ WrapperStep(w) \/ JobFails(w)

WrapperSpec == WrapperInit /\ [][WrapperNext]_wrapperVars

\* A disc in a closed tray gets read, the kernel delivers what it owes, and a
\* running process runs on to its end.  Nobody has to insert a disc.
Fairness ==
    /\ WF_wrapperVars(DiscOK)
    /\ WF_wrapperVars(ReadTOC)
    /\ WF_wrapperVars(\E w \in Wrapper : Deliver(w))
    /\ \A w \in Wrapper : WF_wrapperVars(WrapperStep(w))

FairSpec == WrapperSpec /\ Fairness
-----------------------------------------------------------------------------
(* Properties.                                                             *)

\* "Of several events for one disc, only one reaches ARM": however the events
\* of an insert and of a rip fall, no job has company, and a disc has one job
\* unless that failed.
OneJobPerDisc ==
    /\ jobs < 2 \/ failed
    /\ \A w, v \in Job : w = v

\* "Two things must be true before starting ARM": a disc is in a closed tray,
\* and its TOC has been read.  The wrapper looks for the one after the other,
\* which is enough as long as nobody opens the tray meanwhile.
StartsOnReadDiscs == unread => moved

\* A disc left in a drive that could read it gets a job, unless an event was
\* dropped on a wrapper that had no job yet.
DiscIsSeenUnlessDropped ==
    drive = "read" ~> (jobs > 0 \/ drive = "open" \/ dropped)

\* "Dropping the event would mean a disc that is never seen at all": a disc
\* left in a drive that could read it gets a job.
DiscIsSeen == drive = "read" ~> (jobs > 0 \/ drive = "open")
=============================================================================
