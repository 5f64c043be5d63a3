------------------------- MODULE DiscToInboxProofs --------------------------
(***************************************************************************)
(* A disc's way through ARM: from the event of its insertion to a job      *)
(* (DiscWrapper), and from the job's rip to the inbox (AudioHandoff).  The *)
(* two share no state.                                                     *)
(*                                                                         *)
(* What the drive's lock and the wrapper's two conditions are worth, for   *)
(* any number of wrappers at once and any patience.  The invariant says    *)
(* who may hold the lock, when udev's database may be behind the drive,    *)
(* and what the holder's last answer still tells about the drive.          *)
(***************************************************************************)
EXTENDS DiscWrapper, AudioHandoff, FiniteSetTheorems, WellFoundedInduction, TLAPS

Holding == {"locked", "asked", "polling", "polled", "job"}

\* The lock is with the one wrapper that is past it.
LockIsHeld == \A w \in Wrapper : wrapper[w] \in Holding <=> lock = w

\* udev may list the media of a disc that is gone only while the event of the
\* tray's opening is owed.
MediaIsCurrent ==
    /\ drive \in {"loading", "ok"} => ~media
    /\ drive = "open" => owed > 0 \/ ~media

\* The wrapper has been told that there is a disc.
Past(w) == (wrapper[w] = "asked" /\ saw) \/ wrapper[w] \in {"polling", "polled"}

\* What it has been told still holds, unless the tray was opened.
AnswerHolds ==
    ~moved => \A w \in Wrapper :
        /\ Past(w) => drive \in {"ok", "read"}
        /\ wrapper[w] = "polled" /\ saw => drive = "read"

\* A disc that had its job has left the drive, or is in it with the job, and no
\* wrapper is on its way to a second one.
DiscIsDone ==
    /\ jobs > 0 /\ Job = {} /\ ~failed =>
        drive = "open" /\ \A w \in Wrapper : ~Past(w)
    /\ jobs = 2 => failed

WrapperIInv ==
    /\ WrapperTypeOK
    /\ LockIsHeld
    /\ MediaIsCurrent
    /\ AnswerHolds
    /\ DiscIsDone
    /\ StartsOnReadDiscs

-----------------------------------------------------------------------------
\* Every initial state satisfies the inductive invariant.
LEMMA WrapperInitIInv == WrapperInit => WrapperIInv
<1> SUFFICES ASSUME WrapperInit PROVE WrapperIInv
  OBVIOUS
<1>1. WrapperTypeOK
  <2>1. /\ media \in BOOLEAN /\ saw \in BOOLEAN
        /\ unread \in BOOLEAN /\ moved \in BOOLEAN
        /\ failed \in BOOLEAN /\ dropped \in BOOLEAN
    BY Zenon DEF WrapperInit
  <2>2. QED BY <2>1, DiscWrapperAssumption DEF WrapperInit, WrapperTypeOK
<1>2. LockIsHeld
  BY DiscWrapperAssumption DEF WrapperInit, LockIsHeld, Holding
<1>3. MediaIsCurrent /\ AnswerHolds /\ DiscIsDone /\ StartsOnReadDiscs
  BY DEF WrapperInit, MediaIsCurrent, AnswerHolds, Past, DiscIsDone, StartsOnReadDiscs
<1>4. QED BY <1>1, <1>2, <1>3 DEF WrapperIInv

\* Two wrappers past the lock are one.
LEMMA OneHolder ==
    ASSUME LockIsHeld
    PROVE  \A w, v \in Wrapper :
               wrapper[w] \in Holding /\ wrapper[v] \in Holding => w = v
BY DEF LockIsHeld

\* A wrapper past the lock that is not a job is beside none.
LEMMA NoJobBesideHolder ==
    ASSUME LockIsHeld, NEW w \in Wrapper, wrapper[w] \in Holding \ {"job"}
    PROVE  Job = {}
BY DEF LockIsHeld, Job, Holding

-----------------------------------------------------------------------------
\* Every step of the drive keeps the invariant.
LEMMA DriveStepIInv == WrapperIInv /\ DriveStep => WrapperIInv'
<1> SUFFICES ASSUME WrapperIInv, DriveStep PROVE WrapperIInv'
  OBVIOUS
<1> USE DEF WrapperIInv
<1>1. WrapperTypeOK'
  <2>1. moved' \in BOOLEAN /\ failed' \in BOOLEAN
    BY Zenon DEF WrapperTypeOK, DriveStep, CloseTray, DiscOK, ReadTOC, OpenTray, LinkReset
  <2>2. /\ drive' \in {"open", "loading", "ok", "read"}
        /\ owed' \in 0 .. 2 /\ jobs' \in 0 .. 2
        /\ UNCHANGED <<media, wrapper, saw, polls, lock, unread, dropped>>
    BY DEF WrapperTypeOK, DriveStep, CloseTray, DiscOK, ReadTOC, OpenTray, LinkReset, Becomes,
           AtMostTwo
  <2>3. QED BY <2>1, <2>2 DEF WrapperTypeOK
<1>2. owed' > 0 /\ UNCHANGED <<media, wrapper, saw, lock, unread>>
  BY DEF WrapperTypeOK, DriveStep, CloseTray, DiscOK, ReadTOC, OpenTray, LinkReset, Becomes,
         AtMostTwo
<1>3. LockIsHeld'
  BY <1>2 DEF LockIsHeld
<1>4. Job' = Job /\ \A w \in Wrapper : Past(w)' = Past(w)
  BY <1>2 DEF Job, Past
<1>5. CASE CloseTray
  <2>1. drive = "open" /\ drive' = "loading" /\ owed = 0 /\ ~media'
    BY <1>2, <1>5 DEF CloseTray, Becomes, MediaIsCurrent
  <2>2. AnswerHolds'
    BY <1>2, <1>4, <1>5, <2>1 DEF AnswerHolds, CloseTray, Past
  <2>3. DiscIsDone'
    BY <1>2, <1>4, <1>5 DEF DiscIsDone, CloseTray
  <2>4. QED
    BY <1>1, <1>2, <1>3, <1>5, <2>1, <2>2, <2>3
       DEF MediaIsCurrent, StartsOnReadDiscs, CloseTray
<1>6. CASE DiscOK \/ ReadTOC
  <2>1. /\ \/ drive = "loading" /\ drive' = "ok"
           \/ drive = "ok" /\ drive' = "read"
        /\ UNCHANGED <<jobs, moved, failed>>
    BY <1>6 DEF DiscOK, ReadTOC, Becomes
  <2>2. AnswerHolds'
    BY <1>2, <1>4, <2>1 DEF AnswerHolds, Past
  <2>3. DiscIsDone'
    BY <1>2, <1>4, <2>1 DEF DiscIsDone
  <2>4. QED
    BY <1>1, <1>2, <1>3, <2>1, <2>2, <2>3 DEF MediaIsCurrent, StartsOnReadDiscs
<1>7. CASE OpenTray
  <2>1. drive # "open" /\ drive' = "open" /\ moved' = (moved \/ ~Idle)
        /\ UNCHANGED <<jobs, failed>>
    BY <1>7 DEF OpenTray, Becomes
  <2>2. AnswerHolds'
    BY <1>2, <2>1 DEF AnswerHolds, Past, Idle
  <2>3. DiscIsDone'
    BY <1>2, <1>4, <2>1 DEF DiscIsDone
  <2>4. QED
    BY <1>1, <1>2, <1>3, <2>1, <2>2, <2>3 DEF MediaIsCurrent, StartsOnReadDiscs
<1>8. CASE LinkReset
  <2>1. UNCHANGED <<drive, jobs, moved, failed>>
    BY <1>8 DEF LinkReset, Becomes
  <2>2. QED
    BY <1>1, <1>2, <1>3, <1>4, <2>1
       DEF MediaIsCurrent, AnswerHolds, DiscIsDone, StartsOnReadDiscs, Past
<1>9. QED BY <1>5, <1>6, <1>7, <1>8 DEF DriveStep

-----------------------------------------------------------------------------
\* Every step of a wrapper, from its event to its job's end, keeps the types.
LEMMA WrapperTypes ==
    ASSUME WrapperTypeOK, NEW w \in Wrapper, Deliver(w) \/ WrapperStep(w) \/ JobFails(w)
    PROVE  WrapperTypeOK'
<1> USE DiscWrapperAssumption DEF WrapperTypeOK, driveVars, history, Exit, AtMostTwo
<1>1. CASE Deliver(w)
  BY <1>1 DEF Deliver
<1>2. CASE TakeLock(w) \/ Skip(w)
  <2>1. dropped' \in BOOLEAN /\ moved' = moved /\ failed' = failed
    BY <1>2, Zenon DEF TakeLock, Skip
  <2>2. QED BY <1>2, <2>1 DEF TakeLock, Skip
<1>3. CASE AskStatus(w)
  <2>1. saw' \in BOOLEAN
    <3>1. saw' = TRUE \/ saw' = FALSE
      BY <1>3 DEF AskStatus
    <3>2. QED BY <3>1
  <2>2. QED BY <1>3, <2>1 DEF AskStatus
<1>4. CASE StatusOK(w) \/ NoDiscExit(w) \/ Poll(w) \/ PollAgain(w) \/ GiveUp(w)
  BY <1>4 DEF StatusOK, NoDiscExit, Poll, PollAgain, GiveUp
<1>5. CASE Start(w)
  <2>1. unread' \in BOOLEAN
    BY <1>5, Zenon DEF Start
  <2>2. QED BY <1>5, <2>1 DEF Start
<1>6. CASE JobEnds(w) \/ JobFails(w)
  <2>1. failed' \in BOOLEAN
    BY <1>6, Zenon DEF JobEnds, JobFails
  <2>2. QED BY <1>6, <2>1 DEF JobEnds, JobFails
<1>7. QED BY <1>1, <1>2, <1>3, <1>4, <1>5, <1>6 DEF WrapperStep

\* A wrapper that stays on its side of the lock changes no one's holding.
LEMMA SameSide ==
    ASSUME WrapperTypeOK, LockIsHeld, NEW w \in Wrapper, NEW at,
           wrapper' = [wrapper EXCEPT ![w] = at], lock' = lock,
           at \in Holding <=> wrapper[w] \in Holding
    PROVE  LockIsHeld'
BY DEF WrapperTypeOK, LockIsHeld

\* A wrapper that exits leaves the lock to nobody.
LEMMA ExitFrees ==
    ASSUME WrapperTypeOK, LockIsHeld, NEW w \in Wrapper, wrapper[w] \in Holding, Exit(w)
    PROVE  LockIsHeld'
BY DiscWrapperAssumption DEF WrapperTypeOK, LockIsHeld, Exit, Holding

\* Every step of a wrapper keeps the lock with the one that is past it.
LEMMA WrapperLock ==
    ASSUME WrapperIInv, NEW w \in Wrapper, Deliver(w) \/ WrapperStep(w) \/ JobFails(w)
    PROVE  LockIsHeld'
<1> USE DEF WrapperIInv
<1>1. CASE Deliver(w) \/ Skip(w)
  BY <1>1, SameSide DEF Deliver, Skip, Holding
<1>2. CASE TakeLock(w)
  BY <1>2, DiscWrapperAssumption DEF TakeLock, LockIsHeld, Holding, WrapperTypeOK
<1>3. CASE AskStatus(w) \/ StatusOK(w) \/ Poll(w) \/ PollAgain(w) \/ Start(w)
  <2>1. CASE AskStatus(w)
    BY <2>1, SameSide DEF AskStatus, Holding
  <2>2. CASE StatusOK(w)
    BY <2>2, SameSide DEF StatusOK, Holding
  <2>3. CASE Poll(w)
    BY <2>3, SameSide DEF Poll, Holding
  <2>4. CASE PollAgain(w)
    BY <2>4, SameSide DEF PollAgain, Holding
  <2>5. CASE Start(w)
    BY <2>5, SameSide DEF Start, Holding
  <2>6. QED BY <1>3, <2>1, <2>2, <2>3, <2>4, <2>5
<1>4. CASE NoDiscExit(w) \/ GiveUp(w) \/ JobEnds(w) \/ JobFails(w)
  BY <1>4, ExitFrees DEF NoDiscExit, GiveUp, JobEnds, JobFails, Holding
<1>5. QED BY <1>1, <1>2, <1>3, <1>4 DEF WrapperStep

\* Every step of a wrapper keeps what else the invariant says.
LEMMA WrapperRest ==
    ASSUME WrapperIInv, NEW w \in Wrapper, Deliver(w) \/ WrapperStep(w) \/ JobFails(w)
    PROVE  MediaIsCurrent' /\ AnswerHolds' /\ DiscIsDone' /\ StartsOnReadDiscs'
<1> USE DEF WrapperIInv, driveVars, history
<1> DEFINE Goal == MediaIsCurrent' /\ AnswerHolds' /\ DiscIsDone' /\ StartsOnReadDiscs'
<1>0. DOMAIN wrapper = Wrapper
  BY DEF WrapperTypeOK
<1>1. CASE Deliver(w)
  <2>1. /\ wrapper' = [wrapper EXCEPT ![w] = "started"] /\ wrapper[w] = "none"
        /\ media' = (drive = "read")
        /\ UNCHANGED <<drive, saw, jobs, unread, moved, failed>>
    BY <1>1 DEF Deliver
  <2>2. /\ Job' = Job
        /\ \A v \in Wrapper : /\ Past(v)' = Past(v)
                               /\ (wrapper[v] = "polled")' = (wrapper[v] = "polled")
    BY <1>0, <2>1 DEF Job, Past
  <2>3. QED
    BY <2>1, <2>2 DEF MediaIsCurrent, AnswerHolds, DiscIsDone, StartsOnReadDiscs
<1>2. CASE TakeLock(w) \/ Skip(w)
  <2>1. PICK at \in {"locked", "none"} : wrapper' = [wrapper EXCEPT ![w] = at]
    BY <1>2 DEF TakeLock, Skip
  <2>2. /\ wrapper[w] = "started"
        /\ UNCHANGED <<drive, media, owed, saw, jobs, unread, moved, failed>>
    BY <1>2 DEF TakeLock, Skip
  <2>3. /\ Job' = Job
        /\ \A v \in Wrapper : /\ Past(v)' = Past(v)
                               /\ (wrapper[v] = "polled")' = (wrapper[v] = "polled")
    BY <1>0, <2>1, <2>2 DEF Job, Past
  <2>4. QED
    BY <2>2, <2>3 DEF MediaIsCurrent, AnswerHolds, DiscIsDone, StartsOnReadDiscs
<1>3. CASE AskStatus(w)
  <2>1. /\ wrapper[w] = "locked" /\ wrapper' = [wrapper EXCEPT ![w] = "asked"]
        /\ saw' = (drive \in {"ok", "read"})
        /\ UNCHANGED <<drive, media, owed, jobs, unread, moved, failed>>
    BY <1>3 DEF AskStatus
  <2>2. \A v \in Wrapper \ {w} : wrapper'[v] \notin Holding
    BY <1>0, <2>1, OneHolder DEF Holding
  <2>3. Job' = Job
    BY <1>0, <2>1 DEF Job
  <2>4. QED
    BY <1>0, <2>1, <2>2, <2>3
       DEF MediaIsCurrent, AnswerHolds, DiscIsDone, StartsOnReadDiscs, Past, Holding
<1>4. CASE StatusOK(w) \/ PollAgain(w)
  <2>1. /\ Past(w) /\ wrapper' = [wrapper EXCEPT ![w] = "polling"] /\ wrapper[w] # "job"
        /\ UNCHANGED <<drive, media, owed, saw, jobs, unread, moved, failed>>
    BY <1>4 DEF StatusOK, PollAgain, Past
  <2>2. Job' = Job /\ \A v \in Wrapper : Past(v)' = Past(v)
    BY <1>0, <2>1 DEF Job, Past
  <2>3. \A v \in Wrapper : wrapper'[v] = "polled" => wrapper[v] = "polled"
    BY <1>0, <2>1
  <2>4. QED
    BY <2>1, <2>2, <2>3 DEF MediaIsCurrent, AnswerHolds, DiscIsDone, StartsOnReadDiscs
<1>5. CASE NoDiscExit(w) \/ GiveUp(w)
  <2>1. /\ wrapper' = [wrapper EXCEPT ![w] = "none"] /\ wrapper[w] # "job"
        /\ UNCHANGED <<drive, media, owed, saw, jobs, unread, moved, failed>>
    BY <1>5 DEF NoDiscExit, GiveUp, Exit
  <2>2. Job' = Job /\ \A v \in Wrapper : Past(v)' => Past(v)
    BY <1>0, <2>1 DEF Job, Past
  <2>3. \A v \in Wrapper : wrapper'[v] = "polled" => wrapper[v] = "polled"
    BY <1>0, <2>1
  <2>4. QED
    BY <2>1, <2>2, <2>3 DEF MediaIsCurrent, AnswerHolds, DiscIsDone, StartsOnReadDiscs
<1>6. CASE Poll(w)
  <2>1. /\ wrapper[w] = "polling" /\ wrapper' = [wrapper EXCEPT ![w] = "polled"]
        /\ saw' = media
        /\ UNCHANGED <<drive, media, owed, jobs, unread, moved, failed>>
    BY <1>6 DEF Poll
  <2>2. \A v \in Wrapper \ {w} : wrapper'[v] = wrapper[v] /\ wrapper[v] \notin Holding
    BY <1>0, <2>1, OneHolder DEF Holding
  <2>3. Job' = Job /\ Past(w)
    BY <1>0, <2>1 DEF Job, Past
  <2>4. AnswerHolds'
    BY <1>0, <2>1, <2>2, <2>3 DEF MediaIsCurrent, AnswerHolds, Past, Holding
  <2>5. DiscIsDone'
    BY <2>1, <2>3 DEF DiscIsDone
  <2>6. QED BY <2>1, <2>4, <2>5 DEF MediaIsCurrent, StartsOnReadDiscs
<1>7. CASE Start(w)
  <2>1. /\ wrapper[w] = "polled" /\ saw /\ wrapper' = [wrapper EXCEPT ![w] = "job"]
        /\ jobs' = AtMostTwo(jobs + 1) /\ unread' = (unread \/ drive # "read")
        /\ UNCHANGED <<drive, media, owed, saw, moved, failed>>
    BY <1>7 DEF Start
  <2>2. w \in Job' /\ Job = {} /\ Past(w)
    BY <1>0, <2>1, NoJobBesideHolder DEF Job, Holding, Past
  <2>3. jobs' = 2 => jobs > 0
    BY <2>1 DEF AtMostTwo, WrapperTypeOK
  <2>4. DiscIsDone'
    BY <2>1, <2>2, <2>3 DEF DiscIsDone
  <2>5. \A v \in Wrapper : /\ Past(v)' => Past(v)
                           /\ wrapper'[v] = "polled" => wrapper[v] = "polled"
    BY <1>0, <2>1 DEF Past
  <2>6. AnswerHolds' /\ StartsOnReadDiscs'
    BY <2>1, <2>5 DEF AnswerHolds, StartsOnReadDiscs
  <2>7. QED BY <2>1, <2>4, <2>6 DEF MediaIsCurrent
<1>8. CASE JobEnds(w) \/ JobFails(w)
  <2>1. /\ wrapper[w] = "job" /\ wrapper' = [wrapper EXCEPT ![w] = "none"]
        /\ UNCHANGED <<media, saw, jobs, unread, moved>>
    BY <1>8 DEF JobEnds, JobFails, Exit
  <2>2. \A v \in Wrapper : wrapper'[v] \notin Holding
    BY <1>0, <2>1, OneHolder DEF Holding
  <2>3. \A v \in Wrapper : ~Past(v)' /\ wrapper'[v] # "polled"
    BY <2>2 DEF Past, Holding
  <2>4. AnswerHolds'
    BY <2>3 DEF AnswerHolds
  <2>5. CASE JobEnds(w)
    <3>1. drive' = "open" /\ owed' > 0 /\ UNCHANGED failed
      BY <2>5 DEF JobEnds, AtMostTwo, WrapperTypeOK
    <3>2. QED
      BY <2>1, <2>3, <2>4, <3>1 DEF MediaIsCurrent, DiscIsDone, StartsOnReadDiscs
  <2>6. CASE JobFails(w)
    <3>1. failed' = TRUE /\ UNCHANGED <<drive, owed>>
      BY <2>6 DEF JobFails
    <3>2. QED
      BY <2>1, <2>4, <3>1 DEF MediaIsCurrent, DiscIsDone, StartsOnReadDiscs
  <2>7. QED BY <1>8, <2>5, <2>6
<1>9. QED
  BY <1>1, <1>2, <1>3, <1>4, <1>5, <1>6, <1>7, <1>8 DEF WrapperStep

-----------------------------------------------------------------------------
\* The invariant holds of every behaviour.
THEOREM WrapperInductive == WrapperSpec => []WrapperIInv
<1>1. WrapperIInv /\ [WrapperNext]_wrapperVars => WrapperIInv'
  <2> SUFFICES ASSUME WrapperIInv, [WrapperNext]_wrapperVars PROVE WrapperIInv'
    OBVIOUS
  <2>1. CASE DriveStep
    BY <2>1, DriveStepIInv
  <2>2. CASE \E w \in Wrapper : Deliver(w) \/ WrapperStep(w) \/ JobFails(w)
    BY <2>2, WrapperTypes, WrapperLock, WrapperRest DEF WrapperIInv
  <2>3. CASE UNCHANGED wrapperVars
    BY <2>3 DEF WrapperIInv, WrapperTypeOK, LockIsHeld, MediaIsCurrent, AnswerHolds, DiscIsDone,
                StartsOnReadDiscs, Past, Job, wrapperVars
  <2>4. QED BY <2>1, <2>2, <2>3 DEF WrapperNext
<1>2. QED BY WrapperInitIInv, <1>1, PTL DEF WrapperSpec

\* The variables keep their types.
THEOREM WrapperTypeCorrect == WrapperSpec => []WrapperTypeOK
<1>1. WrapperIInv => WrapperTypeOK
  BY DEF WrapperIInv
<1>2. QED BY <1>1, WrapperInductive, PTL

\* However many events arrive, one job runs at a time, and a disc has one job
\* unless it failed.
THEOREM OneJob == WrapperSpec => []OneJobPerDisc
<1>1. WrapperIInv => OneJobPerDisc
  <2> SUFFICES ASSUME WrapperIInv PROVE OneJobPerDisc
    OBVIOUS
  <2>1. jobs < 2 \/ failed
    BY DEF WrapperIInv, WrapperTypeOK, DiscIsDone
  <2>2. \A w, v \in Job : w = v
    BY OneHolder DEF WrapperIInv, Job, Holding
  <2>3. QED BY <2>1, <2>2 DEF OneJobPerDisc
<1>2. QED BY <1>1, WrapperInductive, PTL

\* A job starts on a disc whose TOC has been read, unless the tray was opened
\* under a wrapper.
THEOREM OnReadDiscs == WrapperSpec => []StartsOnReadDiscs
<1>1. WrapperIInv => StartsOnReadDiscs
  BY DEF WrapperIInv
<1>2. QED BY <1>1, WrapperInductive, PTL

-----------------------------------------------------------------------------
(* What the handoff keeps of a rip, for any discs, names and numbers of    *)
(* tracks, and any number of copies that fail.  The invariant says where   *)
(* the handoff is: which directories of staging it answers for, and what   *)
(* of the one in hand is in the inbox at each of its steps.                *)

Busy == step \in {"copy", "reveal", "remove"}

\* A directory no rip writes into: moved aside, or waiting for the handoff.
Shelved(p) == p.aside > 0 \/ p \in queue \/ (Busy /\ p = album)

\* While the handoff runs, no disc is ripped and everything staged is its own;
\* the numbers of the directories moved aside are used up.
StagingIsInHand ==
    /\ IsFiniteSet(DOMAIN inbox)
    /\ queue \subseteq DOMAIN staging
    /\ step = "idle" => queue = {}
    /\ step # "idle" => job = NoDisc /\ \A p \in DOMAIN staging : Shelved(p)
    /\ Busy => album \in DOMAIN staging \ queue /\ dest \in DOMAIN inbox
    /\ \A p \in DOMAIN staging : p.aside <= failures

\* g has nothing that f has not, and has it as f has it.
Agrees(g, f) == \A t \in DOMAIN g : t \in DOMAIN f /\ g[t] = f[t]

\* What has arrived of the album in hand: nothing visible before every file is
\* there; all of it visible before staging loses it, but for discs with a file that
\* could not be renamed.
AlbumArrives ==
    /\ Busy => /\ Agrees(inbox[dest].hidden, staging[album])
               /\ Agrees(inbox[dest].shown, staging[album])
    /\ step = "copy" =>
        /\ inbox[dest].shown = NoFiles
        /\ todo \subseteq DOMAIN staging[album]
        /\ DOMAIN staging[album] \subseteq todo \cup DOMAIN inbox[dest].hidden
    /\ step = "reveal" =>
        /\ DOMAIN inbox[dest].hidden \cap DOMAIN inbox[dest].shown = {}
        /\ todo \subseteq DOMAIN inbox[dest].hidden
        /\ DOMAIN staging[album] \subseteq
              DOMAIN inbox[dest].hidden \cup DOMAIN inbox[dest].shown
        /\ \A t \in DOMAIN inbox[dest].hidden \ todo : inbox[dest].hidden[t] \in torn
    /\ step = "remove" =>
        \A t \in DOMAIN staging[album] :
            t \in DOMAIN inbox[dest].shown \/ staging[album][t] \in torn

\* A finished rip is where no rip writes into it.
FinishedIsKept ==
    \A d \in finished \ torn :
        \/ \E p \in DOMAIN staging : Shelved(p) /\ Whole(staging[p], d)
        \/ InInbox(d)

\* Files of one disc, but for discs whose rip failed.
Unmixed(f) == \A d, e \in Range(f) \ botched : d = e

\* But for them, what is shelved is whole, and what is not is of the disc in the
\* drive.  No file has a number its disc has no track for.
StagingIsWhole ==
    \A p \in DOMAIN staging :
        /\ \A t \in DOMAIN staging[p] : t \in 1 .. Tracks[staging[p][t]]
        /\ Unmixed(staging[p])
        /\ \A d \in Range(staging[p]) \ botched :
              \/ Shelved(p) /\ Whole(staging[p], d)
              \/ ~Shelved(p) /\ d = job /\ p = RipDir(job)

\* But for them, what is visible is of one disc; and but for a disc with a file that
\* was left hidden it is whole, except in the album being renamed.
InboxIsWhole ==
    \A p \in DOMAIN inbox :
        /\ Unmixed(inbox[p].shown)
        /\ \A d \in Range(inbox[p].shown) \ (botched \cup torn) :
              \/ step = "reveal" /\ p = dest
              \/ Whole(inbox[p].shown, d)

SessionsAreWhole ==
    \A s \in sessions :
        /\ Unmixed(s)
        /\ \A d \in Range(s) \ (botched \cup torn) : Whole(s, d)

IInv ==
    /\ TypeOK
    /\ StagingIsInHand
    /\ AlbumArrives
    /\ FinishedIsKept
    /\ StagingIsWhole
    /\ InboxIsWhole
    /\ SessionsAreWhole

-----------------------------------------------------------------------------
(* The operators on directories.                                           *)

\* The files of a directory are tracks and each comes from a disc.
LEMMA FilesAre ==
    ASSUME NEW f
    PROVE  f \in Files <=> \E S \in SUBSET (1 .. MaxTrack) : f \in [S -> Disc]
BY DEF Files

\* Writing files over others, removing some, and a disc's first tracks are
\* files again.
LEMMA FilesClosed ==
    /\ NoFiles \in Files
    /\ \A f, g \in Files : Over(f, g) \in Files
    /\ \A f \in Files : \A S \in SUBSET DOMAIN f : Restrict(f, S) \in Files
    /\ \A d \in Disc : \A t \in 1 .. MaxTrack : [s \in {t} |-> d] \in Files
<1>1. NoFiles \in Files
  BY FilesAre DEF NoFiles
<1>2. ASSUME NEW f \in Files, NEW g \in Files PROVE Over(f, g) \in Files
  <2>1. PICK S \in SUBSET (1 .. MaxTrack) : f \in [S -> Disc]
    BY FilesAre
  <2>2. PICK T \in SUBSET (1 .. MaxTrack) : g \in [T -> Disc]
    BY FilesAre
  <2>3. Over(f, g) \in [S \cup T -> Disc]
    BY <2>1, <2>2 DEF Over
  <2>4. QED BY <2>3, FilesAre
<1>3. ASSUME NEW f \in Files, NEW S \in SUBSET DOMAIN f PROVE Restrict(f, S) \in Files
  <2>1. PICK T \in SUBSET (1 .. MaxTrack) : f \in [T -> Disc]
    BY FilesAre
  <2>2. Restrict(f, S) \in [S -> Disc] /\ S \in SUBSET (1 .. MaxTrack)
    BY <2>1 DEF Restrict
  <2>3. QED BY <2>2, FilesAre
<1>4. ASSUME NEW d \in Disc, NEW t \in 1 .. MaxTrack PROVE [s \in {t} |-> d] \in Files
  <2>1. [s \in {t} |-> d] \in [{t} -> Disc] /\ {t} \in SUBSET (1 .. MaxTrack)
    OBVIOUS
  <2>2. QED BY <2>1, FilesAre
<1>5. QED BY <1>1, <1>2, <1>3, <1>4

\* A file's track and disc.
LEMMA FileIs ==
    ASSUME NEW f \in Files, NEW t \in DOMAIN f
    PROVE  t \in 1 .. MaxTrack /\ f[t] \in Disc
BY FilesAre

\* A directory that agrees with another and lacks none of its files is the same.
LEMMA SameFiles ==
    ASSUME NEW f \in Files, NEW g \in Files, Agrees(f, g), DOMAIN g \subseteq DOMAIN f
    PROVE  f = g
<1>1. DOMAIN f = DOMAIN g /\ \A t \in DOMAIN f : f[t] = g[t]
  BY DEF Agrees
<1>2. PICK S \in SUBSET (1 .. MaxTrack) : f \in [S -> Disc]
  BY FilesAre
<1>3. PICK T \in SUBSET (1 .. MaxTrack) : g \in [T -> Disc]
  BY FilesAre
<1>4. S = T /\ \A t \in S : f[t] = g[t]
  BY <1>1, <1>2, <1>3
<1>5. f = [t \in S |-> f[t]] /\ g = [t \in S |-> g[t]]
  BY <1>2, <1>3, <1>4
<1>6. [t \in S |-> f[t]] = [t \in S |-> g[t]]
  BY <1>4
<1>7. QED BY <1>5, <1>6

LEMMA TracksOfDisc == \A d \in Disc : Tracks[d] \in Nat /\ Tracks[d] >= 1 /\ Tracks[d] <= MaxTrack
BY AudioHandoffAssumption

LEMMA WholeHasFiles ==
    ASSUME NEW d \in Disc, NEW f, Whole(f, d)
    PROVE  DOMAIN f # {}
BY TracksOfDisc DEF Whole

\* No files are of no disc.
LEMMA NoneInNoFiles == Range(NoFiles) = {}
BY DEF Range, NoFiles

\* A disc has a file among others if one of them is its own.
LEMMA InRange == ASSUME NEW f, NEW d PROVE d \in Range(f) <=> \E t \in DOMAIN f : f[t] = d
BY DEF Range

\* Writing files over others brings no disc that neither had.
LEMMA OverRange ==
    ASSUME NEW f, NEW g, NEW d, d \in Range(Over(f, g))
    PROVE  d \in Range(f) \/ d \in Range(g)
<1>1. DOMAIN Over(f, g) = DOMAIN f \cup DOMAIN g
  BY DEF Over
<1>2. PICK t \in DOMAIN f \cup DOMAIN g : Over(f, g)[t] = d
  BY <1>1, InRange
<1>3. Over(f, g)[t] = IF t \in DOMAIN g THEN g[t] ELSE f[t]
  BY <1>2 DEF Over
<1>4. QED BY <1>2, <1>3, InRange

\* And removing some brings none at all.
LEMMA RestrictRange ==
    ASSUME NEW f, NEW S, S \subseteq DOMAIN f, NEW d, d \in Range(Restrict(f, S))
    PROVE  d \in Range(f)
BY DEF Restrict, Range

\* What a directory has files of are discs.
LEMMA DiscsOfFiles ==
    ASSUME NEW f \in Files
    PROVE  Range(f) \subseteq Disc
BY FileIs, InRange

\* Of a disc that is whole there are files.
LEMMA WholeInRange ==
    ASSUME NEW d \in Disc, NEW f, Whole(f, d)
    PROVE  d \in Range(f)
BY TracksOfDisc, InRange DEF Whole

\* Of files that agree with others, each is of a disc the others have a file of.
LEMMA AgreeingRange ==
    ASSUME NEW f, NEW g, Agrees(f, g)
    PROVE  Range(f) \subseteq Range(g)
BY DEF Agrees, Range

\* A set of numbers that is not empty has a least.
LEMMA LeastOf ==
    ASSUME NEW T, T \subseteq Nat, T # {}
    PROVE  \E x \in T : \A y \in T : x <= y
<1>1. PICK x \in T : \A y \in T : ~ (<<y, x>> \in OpToRel(<, Nat))
  BY NatLessThanWellFounded, WFMin
<1>2. \A y \in T : ~ (y < x)
  BY <1>1 DEF OpToRel
<1>3. QED BY <1>2

\* More names than a directory has cannot all be taken.
LEMMA SomeNameIsFree ==
    ASSUME NEW T, IsFiniteSet(T),
           NEW n \in Nat, n > Cardinality(T),
           NEW f \in [1 .. n -> T]
    PROVE  \E x, y \in 1 .. n : x # y /\ f[x] = f[y]
<1>1. IsFiniteSet(1 .. n) /\ Cardinality(1 .. n) = n
  BY FS_Interval
<1>2. Cardinality(T) < Cardinality(1 .. n)
  BY <1>1, FS_CardinalityType
<1>3. QED BY <1>1, <1>2, FS_PigeonHole

\* The name the loop ends at is a free one of the album's.
LEMMA FreeDestIsFree ==
    ASSUME IsFiniteSet(DOMAIN inbox), NEW p \in Dir
    PROVE  FreeDest(p) \in Dest \ DOMAIN inbox
<1> DEFINE candidate(n) == [name |-> p.name, aside |-> p.aside, suffix |-> n]
           N == Cardinality(DOMAIN inbox) + 1
           free == {n \in 1 .. N : candidate(n) \notin DOMAIN inbox}
<1>1. Cardinality(DOMAIN inbox) \in Nat
  BY FS_CardinalityType
<1>2. free # {}
  <2> SUFFICES ASSUME free = {} PROVE FALSE
    OBVIOUS
  <2> DEFINE f == [n \in 1 .. N |-> candidate(n)]
  <2>1. f \in [1 .. N -> DOMAIN inbox]
    OBVIOUS
  <2>2. N \in Nat /\ N > Cardinality(DOMAIN inbox)
    BY <1>1
  <2>3. \E x, y \in 1 .. N : x # y /\ f[x] = f[y]
    <3> HIDE DEF f, N
    <3> QED BY <2>1, <2>2, SomeNameIsFree
  <2>4. PICK x \in 1 .. N, y \in 1 .. N : x # y /\ candidate(x) = candidate(y)
    BY <2>3
  <2>5. candidate(x).suffix = x /\ candidate(y).suffix = y
    OBVIOUS
  <2>6. QED BY <2>4, <2>5
<1>3. free \subseteq Nat \ {0}
  BY <1>1
<1>4. \E n \in free : \A m \in free : n <= m
  <2> HIDE DEF free
  <2> QED BY <1>2, <1>3, LeastOf
<1> DEFINE n == CHOOSE n \in free : \A m \in free : n <= m
<1>5. n \in free
  <2> HIDE DEF free
  <2> QED BY <1>4
<1>6. FreeDest(p) = candidate(n)
  BY DEF FreeDest
<1> HIDE DEF n
<1>7. candidate(n) \in Dest
  BY <1>3, <1>5 DEF Dest, Dir
<1>8. QED BY <1>5, <1>6, <1>7

\* What the type invariant says of each directory.
LEMMA Typed ==
    TypeOK <=>
        /\ unripped \subseteq Disc
        /\ job \in Disc \cup {NoDisc}
        /\ \A p \in DOMAIN staging : p \in Dir /\ staging[p] \in Files
        /\ \A p \in DOMAIN inbox : p \in Dest /\ inbox[p] \in [hidden : Files, shown : Files]
        /\ step \in {"idle", "choose", "copy", "reveal", "remove"}
        /\ queue \subseteq Dir
        /\ failures \in 0 .. MaxCopyFailures
        /\ finished \subseteq Disc
        /\ sessions \subseteq Files
        /\ botched \subseteq Disc /\ torn \subseteq Disc
        /\ pod \in {0, 1}
BY DEF TypeOK, Range

-----------------------------------------------------------------------------
(* The rip.                                                                *)

\* Every initial state satisfies the inductive invariant.
LEMMA InitIInv == Init => IInv
<1> SUFFICES ASSUME Init PROVE IInv
  OBVIOUS
<1>1. DOMAIN staging = {} /\ DOMAIN inbox = {}
  BY DEF Init
<1>2. TypeOK
  BY <1>1, AudioHandoffAssumption, Typed DEF Init
<1>3. StagingIsInHand /\ AlbumArrives
  BY <1>1, FS_EmptySet DEF Init, StagingIsInHand, AlbumArrives, Busy
<1>4. FinishedIsKept /\ StagingIsWhole /\ InboxIsWhole /\ SessionsAreWhole
  BY <1>1 DEF Init, FinishedIsKept, StagingIsWhole, InboxIsWhole, SessionsAreWhole
<1>5. QED BY <1>2, <1>3, <1>4 DEF IInv

\* What is visible of a finished rip stays, if the inbox only gains files.
LEMMA InboxGrows ==
    ASSUME \A p \in DOMAIN inbox : p \in DOMAIN inbox' /\ Agrees(inbox[p].shown, inbox'[p].shown)
    PROVE  \A d : InInbox(d) => InInbox(d)'
BY DEF InInbox, Whole, Agrees

\* A disc inserted, and a rip that failed.
LEMMA InsertKeeps == ASSUME IInv, NEW d \in Disc, Insert(d) PROVE IInv'
<1> USE DEF IInv
<1>1. /\ step = "idle" /\ job = NoDisc /\ queue = {} /\ job' = d
      /\ UNCHANGED <<staging, inbox, finished, sessions, botched, torn, pod, step, queue,
                     album, dest, todo, failures>>
  BY DEF Insert, handoffVars, StagingIsInHand
<1>2. TypeOK'
  BY <1>1, Typed DEF Insert, TypeOK
<1>3. \A p : Shelved(p)' = Shelved(p) /\ Busy' = Busy
  BY <1>1 DEF Shelved, Busy
<1>4. StagingIsInHand' /\ AlbumArrives' /\ InboxIsWhole' /\ SessionsAreWhole'
  BY <1>1, <1>3 DEF StagingIsInHand, AlbumArrives, InboxIsWhole, SessionsAreWhole, Unmixed
<1>5. FinishedIsKept'
  BY <1>1, <1>3 DEF FinishedIsKept, InInbox
<1>6. StagingIsWhole'
  <2>1. \A p \in DOMAIN staging : \A e \in Range(staging[p]) : e # job
    BY <1>1, DiscsOfFiles, Typed, AudioHandoffAssumption
  <2>2. QED BY <1>1, <1>3, <2>1 DEF StagingIsWhole, Unmixed
<1>7. QED BY <1>2, <1>4, <1>5, <1>6

LEMMA RipFailedKeeps == ASSUME IInv, RipFailed PROVE IInv'
<1> USE DEF IInv
<1>1. /\ step = "idle" /\ queue = {} /\ job' = NoDisc /\ botched' = botched \cup {job}
      /\ job \in Disc
      /\ UNCHANGED <<unripped, staging, inbox, finished, sessions, torn, pod, step, queue,
                     album, dest, todo, failures>>
  BY DEF RipFailed, handoffVars, StagingIsInHand, TypeOK
<1>2. TypeOK'
  BY <1>1 DEF TypeOK
<1>3. \A p : Shelved(p)' = Shelved(p) /\ Busy' = Busy
  BY <1>1 DEF Shelved, Busy
<1>4. StagingIsInHand' /\ AlbumArrives' /\ StagingIsWhole'
  BY <1>1, <1>3 DEF StagingIsInHand, AlbumArrives, StagingIsWhole, Unmixed
<1>5. InboxIsWhole' /\ SessionsAreWhole'
  BY <1>1, <1>3 DEF InboxIsWhole, SessionsAreWhole, Unmixed
<1>6. FinishedIsKept'
  BY <1>1, <1>3 DEF FinishedIsKept, InInbox
<1>7. QED BY <1>2, <1>4, <1>5, <1>6

\* A rip writes into a directory that is not shelved.
LEMMA RipDirIsOpen ==
    ASSUME IInv, step = "idle", job # NoDisc
    PROVE  RipDir(job) \in Dir /\ ~Shelved(RipDir(job)) /\ job \in Disc
<1>1. job \in Disc /\ NameOf[job] \in Range(NameOf)
  BY AudioHandoffAssumption DEF IInv, TypeOK, Range
<1>2. QED
  BY <1>1, AudioHandoffAssumption DEF IInv, StagingIsInHand, RipDir, Dir, Shelved, Busy

LEMMA EncodeKeeps == ASSUME IInv, NEW t \in 1 .. MaxTrack, Encode(t) PROVE IInv'
<1> USE DEF IInv
<1> DEFINE here == RipDir(job)
<1>1. /\ step = "idle" /\ job # NoDisc /\ queue = {} /\ t \in 1 .. Tracks[job]
      /\ UNCHANGED <<inbox, sessions, unripped, job, finished, botched, torn, pod, step,
                     queue, album, dest, todo, failures>>
  BY DEF Encode, ripVars, handoffVars, StagingIsInHand
<1>2. here \in Dir /\ ~Shelved(here) /\ job \in Disc
  BY <1>1, RipDirIsOpen
<1>3. /\ DOMAIN staging' = DOMAIN staging \cup {here}
      /\ staging'[here] = Over(Staged(here), [s \in {t} |-> job])
      /\ \A p \in DOMAIN staging : p # here => staging'[p] = staging[p]
  BY DEF Encode
<1>4. TypeOK'
  <2>1. Staged(here) \in Files
    BY FilesClosed, Typed DEF Staged
  <2>2. staging'[here] \in Files
    BY <1>2, <1>3, <2>1, FilesClosed
  <2>3. \A p \in DOMAIN staging' : p \in Dir /\ staging'[p] \in Files
    BY <1>2, <1>3, <2>2, Typed
  <2>4. Range(staging') \subseteq Files
    BY <2>3 DEF Range
  <2>5. QED BY <1>1, <2>3, <2>4 DEF TypeOK
<1>5. \A p : Shelved(p)' = Shelved(p)
  BY <1>1 DEF Shelved, Busy
<1>6. StagingIsInHand'
  <2>1. here.aside <= failures
    BY <1>2 DEF RipDir, TypeOK
  <2>2. QED BY <1>1, <1>3, <2>1 DEF StagingIsInHand, Busy
<1>7. AlbumArrives' /\ InboxIsWhole' /\ SessionsAreWhole'
  BY <1>1 DEF AlbumArrives, InboxIsWhole, SessionsAreWhole, Unmixed, Busy
<1>8. FinishedIsKept'
  <2>1. \A d : InInbox(d)' = InInbox(d)
    BY <1>1 DEF InInbox
  <2>2. \A p \in DOMAIN staging : Shelved(p) => p # here
    BY <1>2
  <2>3. QED BY <1>1, <1>3, <1>5, <2>1, <2>2 DEF FinishedIsKept
<1>9. StagingIsWhole'
  <2> DEFINE now == staging'[here]
  <2>1. \A d \in Range(now) : d = job \/ (d \in Range(Staged(here)))
    <3>1. Range([s \in {t} |-> job]) = {job}
      BY DEF Range
    <3>2. QED BY <1>3, <3>1, OverRange
  <2>2. \A d \in Range(Staged(here)) \ botched : d = job
    BY <1>2, NoneInNoFiles DEF StagingIsWhole, Staged
  <2>3. \A d \in Range(now) \ botched : d = job
    BY <2>1, <2>2
  <2>4. \A s \in DOMAIN now : s \in 1 .. Tracks[now[s]]
    <3>1. \A s \in DOMAIN Staged(here) : s \in 1 .. Tracks[Staged(here)[s]]
      BY DEF StagingIsWhole, Staged, NoFiles
    <3>2. QED BY <1>1, <1>3, <3>1 DEF Over
  <2> HIDE DEF now
  <2>5. \A p \in DOMAIN staging' : p # here => p \in DOMAIN staging /\ staging'[p] = staging[p]
    BY <1>3
  <2>6. SUFFICES ASSUME NEW p \in DOMAIN staging'
                 PROVE  /\ \A s \in DOMAIN staging'[p] : s \in 1 .. Tracks[staging'[p][s]]
                        /\ \A d, e \in Range(staging'[p]) \ botched : d = e
                        /\ \A d \in Range(staging'[p]) \ botched :
                              \/ Shelved(p) /\ Whole(staging'[p], d)
                              \/ ~Shelved(p) /\ d = job /\ p = RipDir(job)
    BY <1>1, <1>5 DEF StagingIsWhole, Unmixed, RipDir
  <2>7. CASE p = here
    BY <1>2, <2>3, <2>4, <2>7 DEF now
  <2>8. CASE p # here
    BY <2>5, <2>8 DEF StagingIsWhole, Unmixed
  <2>9. QED BY <2>7, <2>8
<1>10. QED BY <1>4, <1>6, <1>7, <1>8, <1>9

LEMMA RipCompletesKeeps == ASSUME IInv, RipCompletes PROVE IInv'
<1> USE DEF IInv
<1> DEFINE here == RipDir(job)
<1>1. /\ step = "idle" /\ job # NoDisc /\ queue = {} /\ Whole(Staged(here), job)
      /\ finished' = finished \cup {job} /\ job' = NoDisc
      /\ step' = "choose" /\ queue' = DOMAIN staging
      /\ UNCHANGED <<unripped, staging, inbox, album, dest, todo, failures, sessions,
                     botched, torn, pod>>
  BY DEF RipCompletes, StagingIsInHand
<1>2. here \in Dir /\ ~Shelved(here) /\ job \in Disc
  BY <1>1, RipDirIsOpen
<1>3. TypeOK'
  BY <1>1, <1>2 DEF TypeOK
<1>4. ~Busy /\ ~Busy' /\ \A p \in DOMAIN staging : Shelved(p)'
  BY <1>1 DEF Busy, Shelved
<1>5. StagingIsInHand' /\ AlbumArrives' /\ SessionsAreWhole'
  BY <1>1, <1>4 DEF StagingIsInHand, AlbumArrives, SessionsAreWhole, Unmixed
<1>6. InboxIsWhole'
  BY <1>1 DEF InboxIsWhole, Unmixed
<1>7. FinishedIsKept'
  <2>1. here \in DOMAIN staging /\ Whole(staging[here], job)
    <3>1. DOMAIN Staged(here) # {}
      BY <1>1, <1>2, WholeHasFiles
    <3>2. QED BY <1>1, <3>1 DEF Staged, NoFiles
  <2>2. \A d : InInbox(d)' = InInbox(d)
    BY <1>1 DEF InInbox
  <2>3. QED BY <1>1, <1>4, <2>1, <2>2 DEF FinishedIsKept
<1>8. StagingIsWhole'
  <2>1. \A p \in DOMAIN staging : \A d \in Range(staging[p]) \ botched : Whole(staging[p], d)
    BY <1>1 DEF StagingIsWhole, Staged
  <2>2. QED BY <1>1, <1>4, <2>1 DEF StagingIsWhole, Unmixed
<1>9. QED BY <1>3, <1>5, <1>6, <1>7, <1>8

-----------------------------------------------------------------------------
(* The handoff.                                                            *)

\* Every album the handoff answers for is whole, but for rips that failed.
LEMMA ShelvedIsWhole ==
    ASSUME IInv, step # "idle", NEW p \in DOMAIN staging
    PROVE  /\ \A t \in DOMAIN staging[p] : t \in 1 .. Tracks[staging[p][t]]
           /\ Unmixed(staging[p])
           /\ \A d \in Range(staging[p]) \ botched : Whole(staging[p], d)
BY DEF IInv, StagingIsWhole, StagingIsInHand

LEMMA ChooseKeeps == ASSUME IInv, NEW p \in queue, Choose(p) PROVE IInv'
<1> USE DEF IInv
<1>1. /\ step = "choose" /\ album' = p /\ dest' = FreeDest(p)
      /\ todo' = DOMAIN staging[p] /\ queue' = queue \ {p} /\ step' = "copy"
      /\ UNCHANGED <<staging, failures, sessions, unripped, job, finished, botched, torn, pod>>
      /\ p \in DOMAIN staging
  BY DEF Choose, ripVars, StagingIsInHand
<1>2. p \in Dir /\ IsFiniteSet(DOMAIN inbox)
  BY DEF TypeOK, StagingIsInHand
<1>3. dest' \in Dest \ DOMAIN inbox
  BY <1>1, <1>2, FreeDestIsFree
<1>4. /\ DOMAIN inbox' = DOMAIN inbox \cup {dest'}
      /\ \A q \in DOMAIN inbox : inbox'[q] = inbox[q]
      /\ inbox'[dest'] = [hidden |-> NoFiles, shown |-> NoFiles]
  BY <1>3 DEF Choose, Dir0
<1>5. TypeOK'
  <2>1. \A q \in DOMAIN inbox' : q \in Dest /\ inbox'[q] \in [hidden : Files, shown : Files]
    BY <1>3, <1>4, FilesClosed, Typed
  <2>2. Range(inbox') \subseteq [hidden : Files, shown : Files]
    BY <2>1 DEF Range
  <2>3. QED BY <1>1, <2>1, <2>2 DEF TypeOK
<1>6. ~Busy /\ Busy' /\ \A q \in DOMAIN staging : Shelved(q)'
  BY <1>1 DEF Busy, Shelved, StagingIsInHand
<1>7. StagingIsInHand'
  <2>1. IsFiniteSet(DOMAIN inbox')
    BY <1>2, <1>4, FS_AddElement
  <2>2. QED BY <1>1, <1>4, <1>6, <2>1 DEF StagingIsInHand, Busy
<1>8. AlbumArrives'
  BY <1>1, <1>4 DEF AlbumArrives, Agrees, NoFiles, Busy
<1>9. FinishedIsKept'
  <2>1. \A d : InInbox(d) => InInbox(d)'
    BY <1>4, InboxGrows DEF Agrees
  <2>2. QED BY <1>1, <1>6, <2>1 DEF FinishedIsKept
<1>10. StagingIsWhole'
  BY <1>1, <1>6, ShelvedIsWhole DEF StagingIsWhole, Unmixed
<1>11. InboxIsWhole' /\ SessionsAreWhole'
  <2>1. \A q \in DOMAIN inbox' : inbox'[q].shown = NoFiles
                                  \/ (q \in DOMAIN inbox /\ inbox'[q] = inbox[q])
    BY <1>4
  <2>2. QED BY <1>1, <2>1, NoneInNoFiles DEF InboxIsWhole, SessionsAreWhole, Unmixed
<1>12. QED BY <1>5, <1>7, <1>8, <1>9, <1>10, <1>11

\* What the album in hand is, and its destination.
LEMMA AlbumInHand ==
    ASSUME IInv, Busy
    PROVE  /\ album \in DOMAIN staging /\ album \in Dir /\ staging[album] \in Files
           /\ dest \in DOMAIN inbox /\ inbox[dest] \in [hidden : Files, shown : Files]
           /\ job = NoDisc /\ \A p \in DOMAIN staging : Shelved(p)
BY Typed DEF IInv, StagingIsInHand, Busy

\* A step that changes files of the destination only, and tears at most discs.
LEMMA InHandTypes ==
    ASSUME IInv, Busy,
           DOMAIN inbox' = DOMAIN inbox,
           \A q \in DOMAIN inbox : q # dest => inbox'[q] = inbox[q],
           inbox'[dest] \in [hidden : Files, shown : Files],
           step' \in {"copy", "reveal", "remove"},
           torn \subseteq torn', torn' \subseteq Disc,
           UNCHANGED <<staging, queue, album, dest, failures, sessions, unripped, job,
                       finished, botched, pod>>
    PROVE  TypeOK' /\ StagingIsInHand' /\ StagingIsWhole' /\ SessionsAreWhole'
<1>1. TypeOK'
  <2>1. Range(inbox') \subseteq [hidden : Files, shown : Files]
    BY Typed DEF Range, IInv
  <2>2. QED BY <2>1 DEF TypeOK, IInv
<1>2. Busy' /\ \A p : Shelved(p)' = Shelved(p)
  BY DEF Busy, Shelved
<1>3. StagingIsInHand'
  BY <1>2 DEF IInv, StagingIsInHand, Busy
<1>4. StagingIsWhole' /\ SessionsAreWhole'
  BY <1>2 DEF IInv, StagingIsWhole, SessionsAreWhole, Unmixed
<1>5. QED BY <1>1, <1>3, <1>4

LEMMA CopyKeeps == ASSUME IInv, NEW t \in 1 .. MaxTrack, Copy(t) PROVE IInv'
<1> USE DEF IInv
<1> DEFINE src == staging[album]
           was == inbox[dest]
           now == inbox'[dest]
<1>1. /\ step = "copy" /\ t \in todo /\ todo' = todo \ {t}
      /\ UNCHANGED <<staging, step, queue, album, dest, failures, sessions, unripped, job,
                     finished, botched, torn, pod>>
  BY DEF Copy, ripVars
<1>2. Busy /\ Busy'
  BY <1>1 DEF Busy
<1>3. /\ src \in Files /\ dest \in DOMAIN inbox /\ was \in [hidden : Files, shown : Files]
      /\ t \in DOMAIN src
  BY <1>1, <1>2, AlbumInHand DEF AlbumArrives
<1>4. /\ DOMAIN inbox' = DOMAIN inbox
      /\ \A q \in DOMAIN inbox : q # dest => inbox'[q] = inbox[q]
      /\ now = [was EXCEPT !.hidden = Over(was.hidden, [s \in {t} |-> src[t]])]
  BY <1>3 DEF Copy
<1>5. /\ now.hidden = Over(was.hidden, [s \in {t} |-> src[t]])
      /\ now.shown = was.shown
      /\ now \in [hidden : Files, shown : Files]
  <2>1. [s \in {t} |-> src[t]] \in Files
    BY <1>3, FilesClosed, FileIs
  <2>2. Over(was.hidden, [s \in {t} |-> src[t]]) \in Files
    BY <1>3, <2>1, FilesClosed
  <2>3. QED BY <1>3, <1>4, <2>2
<1>6. TypeOK' /\ StagingIsInHand' /\ StagingIsWhole' /\ SessionsAreWhole'
  BY <1>1, <1>2, <1>4, <1>5, InHandTypes DEF TypeOK
<1>7. AlbumArrives'
  <2>1. Agrees(was.hidden, src) /\ Agrees(was.shown, src) /\ was.shown = NoFiles
        /\ todo \subseteq DOMAIN src /\ DOMAIN src \subseteq todo \cup DOMAIN was.hidden
    BY <1>1, <1>2 DEF AlbumArrives
  <2>2. Agrees(now.hidden, src) /\ DOMAIN now.hidden = DOMAIN was.hidden \cup {t}
    BY <1>3, <1>5, <2>1 DEF Agrees, Over
  <2> HIDE DEF src, was, now
  <2>3. QED BY <1>1, <1>5, <2>1, <2>2 DEF AlbumArrives, src, now
<1>8. FinishedIsKept'
  <2>1. \A d : InInbox(d) => InInbox(d)'
    BY <1>4, <1>5, InboxGrows DEF Agrees
  <2>2. QED BY <1>1, <2>1 DEF FinishedIsKept, Shelved, Busy
<1>9. InboxIsWhole'
  <2>1. \A q \in DOMAIN inbox : inbox'[q].shown = inbox[q].shown
    BY <1>4, <1>5
  <2>2. QED BY <1>1, <1>4, <2>1 DEF InboxIsWhole, Unmixed
<1>10. QED BY <1>6, <1>7, <1>8, <1>9

LEMMA AllCopiedKeeps == ASSUME IInv, AllCopied PROVE IInv'
<1> USE DEF IInv
<1>1. /\ step = "copy" /\ todo = {} /\ step' = "reveal"
      /\ todo' = DOMAIN inbox[dest].hidden
      /\ UNCHANGED <<staging, inbox, queue, album, dest, failures, sessions, unripped, job,
                     finished, botched, torn, pod>>
  BY DEF AllCopied, ripVars
<1>2. Busy /\ Busy' /\ \A p : Shelved(p)' = Shelved(p)
  BY <1>1 DEF Busy, Shelved
<1>3. TypeOK' /\ StagingIsInHand' /\ StagingIsWhole' /\ SessionsAreWhole'
  BY <1>1, <1>2, AlbumInHand, InHandTypes DEF TypeOK
<1>4. AlbumArrives'
  BY <1>1, <1>2 DEF AlbumArrives, NoFiles
<1>5. FinishedIsKept' /\ InboxIsWhole'
  BY <1>1, <1>2 DEF FinishedIsKept, InInbox, InboxIsWhole, Unmixed
<1>6. QED BY <1>3, <1>4, <1>5

LEMMA RevealKeeps == ASSUME IInv, NEW t \in 1 .. MaxTrack, Reveal(t) PROVE IInv'
<1> USE DEF IInv
<1> DEFINE src == staging[album]
           was == inbox[dest]
           now == inbox'[dest]
<1>1. /\ step = "reveal" /\ t \in todo /\ todo' = todo \ {t}
      /\ UNCHANGED <<staging, step, queue, album, dest, failures, sessions, unripped, job,
                     finished, botched, torn, pod>>
  BY DEF Reveal, ripVars
<1>2. Busy /\ Busy'
  BY <1>1 DEF Busy
<1>3. /\ src \in Files /\ dest \in DOMAIN inbox /\ was \in [hidden : Files, shown : Files]
      /\ album \in DOMAIN staging /\ t \in DOMAIN was.hidden
  BY <1>1, <1>2, AlbumInHand DEF AlbumArrives
<1>4. /\ DOMAIN inbox' = DOMAIN inbox
      /\ \A q \in DOMAIN inbox : q # dest => inbox'[q] = inbox[q]
      /\ now.hidden = Restrict(was.hidden, DOMAIN was.hidden \ {t})
      /\ now.shown = Over(was.shown, [s \in {t} |-> was.hidden[t]])
      /\ now \in [hidden : Files, shown : Files]
  <2>1. Over(was.shown, [s \in {t} |-> was.hidden[t]]) \in Files
    BY <1>1, <1>3, FilesClosed, FileIs
  <2>2. Restrict(was.hidden, DOMAIN was.hidden \ {t}) \in Files
    BY <1>3, FilesClosed
  <2>3. QED BY <1>3, <2>1, <2>2 DEF Reveal
<1>5. TypeOK' /\ StagingIsInHand' /\ StagingIsWhole' /\ SessionsAreWhole'
  BY <1>1, <1>2, <1>4, InHandTypes DEF TypeOK
<1>6. /\ Agrees(was.hidden, src) /\ Agrees(was.shown, src)
      /\ DOMAIN was.hidden \cap DOMAIN was.shown = {}
      /\ todo \subseteq DOMAIN was.hidden
      /\ DOMAIN src \subseteq DOMAIN was.hidden \cup DOMAIN was.shown
      /\ \A s \in DOMAIN was.hidden \ todo : was.hidden[s] \in torn
  BY <1>1, <1>2 DEF AlbumArrives
<1>7. /\ Agrees(now.hidden, src) /\ Agrees(now.shown, src)
      /\ DOMAIN now.hidden = DOMAIN was.hidden \ {t}
      /\ DOMAIN now.shown = DOMAIN was.shown \cup {t}
      /\ Agrees(was.shown, now.shown)
      /\ \A s \in DOMAIN now.hidden : now.hidden[s] = was.hidden[s]
  BY <1>3, <1>4, <1>6 DEF Agrees, Over, Restrict
<1>8. AlbumArrives'
  <2> HIDE DEF src, was, now
  <2>1. /\ DOMAIN now.hidden \cap DOMAIN now.shown = {}
        /\ todo' \subseteq DOMAIN now.hidden
        /\ DOMAIN src \subseteq DOMAIN now.hidden \cup DOMAIN now.shown
        /\ \A s \in DOMAIN now.hidden \ todo' : now.hidden[s] \in torn
    BY <1>1, <1>6, <1>7
  <2>2. QED BY <1>1, <1>7, <2>1 DEF AlbumArrives, src, now
<1>9. FinishedIsKept'
  <2>1. \A q \in DOMAIN inbox : Agrees(inbox[q].shown, inbox'[q].shown)
    BY <1>4, <1>7 DEF Agrees
  <2>2. \A d : InInbox(d) => InInbox(d)'
    BY <1>4, <2>1, InboxGrows
  <2>3. QED BY <1>1, <2>2 DEF FinishedIsKept, Shelved, Busy
<1>10. InboxIsWhole'
  <2>1. Range(now.shown) \subseteq Range(src)
    BY <1>7, AgreeingRange
  <2>2. Unmixed(src)
    BY <1>1, <1>3, ShelvedIsWhole
  <2> HIDE DEF src, now
  <2>3. \A d, e \in Range(now.shown) \ botched : d = e
    BY <2>1, <2>2 DEF Unmixed
  <2>4. QED BY <1>1, <1>4, <2>3 DEF InboxIsWhole, Unmixed, now
<1>11. QED BY <1>5, <1>8, <1>9, <1>10

LEMMA RenameFailsKeeps == ASSUME IInv, NEW t \in 1 .. MaxTrack, RenameFails(t) PROVE IInv'
<1> USE DEF IInv
<1>1. /\ step = "reveal" /\ t \in todo /\ todo' = todo \ {t}
      /\ torn' = torn \cup {inbox[dest].hidden[t]}
      /\ UNCHANGED <<staging, inbox, step, queue, album, dest, failures, sessions, unripped,
                     job, finished, botched, pod>>
  BY DEF RenameFails, ripVars
<1>2. Busy /\ Busy' /\ \A p : Shelved(p)' = Shelved(p)
  BY <1>1 DEF Busy, Shelved
<1>3. inbox[dest] \in [hidden : Files, shown : Files] /\ t \in DOMAIN inbox[dest].hidden
  BY <1>1, <1>2, AlbumInHand DEF AlbumArrives
<1>4. torn' \subseteq Disc
  BY <1>1, <1>3, FileIs DEF TypeOK
<1>5. TypeOK' /\ StagingIsInHand' /\ StagingIsWhole' /\ SessionsAreWhole'
  BY <1>1, <1>2, <1>4, AlbumInHand, InHandTypes
<1>6. AlbumArrives'
  BY <1>1, <1>2 DEF AlbumArrives
<1>7. FinishedIsKept' /\ InboxIsWhole'
  BY <1>1, <1>2 DEF FinishedIsKept, InInbox, InboxIsWhole, Unmixed
<1>8. QED BY <1>5, <1>6, <1>7

\* In the album whose renames are over, a disc with no file left hidden is whole.
LEMMA ShownIsWhole ==
    ASSUME IInv, step = "reveal", NEW d \in Range(inbox[dest].shown) \ botched,
           d \notin Range(inbox[dest].hidden)
    PROVE  Whole(inbox[dest].shown, d)
<1>1. Busy
  BY DEF Busy
<1>2. /\ Agrees(inbox[dest].hidden, staging[album])
      /\ Agrees(inbox[dest].shown, staging[album])
      /\ DOMAIN staging[album] \subseteq
            DOMAIN inbox[dest].hidden \cup DOMAIN inbox[dest].shown
  BY <1>1 DEF IInv, AlbumArrives
<1>3. Whole(staging[album], d)
  BY <1>1, <1>2, AgreeingRange, AlbumInHand, ShelvedIsWhole
<1>4. QED BY <1>2, <1>3, InRange DEF Whole, Agrees

LEMMA RevealedKeeps == ASSUME IInv, Revealed PROVE IInv'
<1> USE DEF IInv
<1>1. /\ step = "reveal" /\ todo = {} /\ step' = "remove"
      /\ UNCHANGED <<staging, inbox, queue, album, dest, todo, failures, sessions,
                     unripped, job, finished, botched, torn, pod>>
  BY DEF Revealed, ripVars
<1>2. Busy /\ Busy' /\ \A p : Shelved(p)' = Shelved(p)
  BY <1>1 DEF Busy, Shelved
<1>3. TypeOK' /\ StagingIsInHand' /\ StagingIsWhole' /\ SessionsAreWhole'
  BY <1>1, <1>2, AlbumInHand, InHandTypes DEF TypeOK
<1>4. /\ Agrees(inbox[dest].hidden, staging[album])
      /\ Agrees(inbox[dest].shown, staging[album])
      /\ DOMAIN staging[album] \subseteq
            DOMAIN inbox[dest].hidden \cup DOMAIN inbox[dest].shown
      /\ \A t \in DOMAIN inbox[dest].hidden : inbox[dest].hidden[t] \in torn
  BY <1>1, <1>2 DEF AlbumArrives
<1>5. AlbumArrives'
  <2>1. \A t \in DOMAIN staging[album] :
            t \in DOMAIN inbox[dest].shown \/ staging[album][t] \in torn
    BY <1>4 DEF Agrees
  <2>2. QED BY <1>1, <1>4, <2>1 DEF AlbumArrives
<1>6. FinishedIsKept'
  BY <1>1, <1>2 DEF FinishedIsKept, InInbox
<1>7. InboxIsWhole'
  <2>1. \A d \in Range(inbox[dest].hidden) : d \in torn
    BY <1>4, InRange
  <2>2. \A d \in Range(inbox[dest].shown) \ (botched \cup torn) : Whole(inbox[dest].shown, d)
    BY <1>1, <2>1, ShownIsWhole
  <2>3. QED BY <1>1, <2>2 DEF InboxIsWhole, Unmixed
<1>8. QED BY <1>3, <1>5, <1>6, <1>7

\* After an album, the handoff is idle or at the next one.
LEMMA AfterAlbumIs ==
    /\ AfterAlbum \in {"idle", "choose"}
    /\ AfterAlbum = "idle" => queue = {}
BY DEF AfterAlbum

\* Whatever the clean-up leaves of a failed copy, nothing of it is visible.
LEMMA LeftOverIs ==
    ASSUME IInv, step = "copy", inbox' \in LeftOver
    PROVE  /\ DOMAIN inbox' \subseteq DOMAIN inbox
           /\ \A q \in DOMAIN inbox \ {dest} : q \in DOMAIN inbox' /\ inbox'[q] = inbox[q]
           /\ dest \in DOMAIN inbox' =>
                 inbox'[dest] \in [hidden : Files, shown : Files] /\ inbox'[dest].shown = NoFiles
<1>1. /\ dest \in DOMAIN inbox /\ inbox[dest] \in [hidden : Files, shown : Files]
      /\ inbox[dest].shown = NoFiles
  BY AlbumInHand DEF IInv, AlbumArrives, Busy
<1>2. CASE inbox' = Cleared
  BY <1>1, <1>2 DEF Cleared, Restrict
<1>3. CASE \E left \in SUBSET DOMAIN inbox[dest].hidden :
              inbox' = [inbox EXCEPT ![dest].hidden = Restrict(@, left)]
  <2>1. PICK left \in SUBSET DOMAIN inbox[dest].hidden :
               inbox' = [inbox EXCEPT ![dest].hidden = Restrict(@, left)]
    BY <1>3
  <2>2. Restrict(inbox[dest].hidden, left) \in Files
    BY <1>1, FilesClosed
  <2>3. QED BY <1>1, <2>1, <2>2
<1>4. QED BY <1>2, <1>3 DEF LeftOver

LEMMA CopyFailsKeeps == ASSUME IInv, CopyFails PROVE IInv'
<1> USE DEF IInv
<1> DEFINE aside == [album EXCEPT !.aside = failures + 1]
<1>1. /\ step = "copy" /\ failures < MaxCopyFailures /\ failures' = failures + 1
      /\ inbox' \in LeftOver /\ step' = AfterAlbum
      /\ UNCHANGED <<queue, album, dest, todo, sessions, unripped, job, finished, botched,
                     torn, pod>>
  BY DEF CopyFails, ripVars
<1>2. Busy /\ ~Busy'
  BY <1>1, AfterAlbumIs DEF Busy
<1>3. /\ album \in DOMAIN staging /\ album \in Dir /\ staging[album] \in Files
      /\ dest \in DOMAIN inbox /\ inbox[dest] \in [hidden : Files, shown : Files]
      /\ job = NoDisc /\ album \notin queue /\ failures \in Nat /\ MaxCopyFailures \in Nat
  BY <1>2, AlbumInHand, AudioHandoffAssumption DEF StagingIsInHand, TypeOK
<1>4. inbox[dest].shown = NoFiles
  BY <1>1 DEF AlbumArrives
<1>5. /\ DOMAIN inbox' \subseteq DOMAIN inbox
      /\ \A q \in DOMAIN inbox \ {dest} : q \in DOMAIN inbox' /\ inbox'[q] = inbox[q]
      /\ dest \in DOMAIN inbox' =>
            inbox'[dest] \in [hidden : Files, shown : Files] /\ inbox'[dest].shown = NoFiles
  BY <1>1, LeftOverIs
<1>6. /\ DOMAIN staging' = (DOMAIN staging \ {album}) \cup {aside}
      /\ aside \in Dir /\ aside.aside = failures + 1
  BY <1>1, <1>3 DEF CopyFails, Dir
<1>7. \A p \in DOMAIN staging : p.aside <= failures /\ p.aside \in Nat
  BY Typed DEF StagingIsInHand, Dir
<1>8. /\ aside \notin DOMAIN staging
      /\ staging'[aside] = staging[album]
      /\ \A p \in DOMAIN staging \ {album} : staging'[p] = staging[p]
  <2>1. staging' = [p \in (DOMAIN staging \ {album}) \cup {aside} |->
                      IF p = aside THEN staging[album] ELSE staging[p]]
    BY DEF CopyFails
  <2> HIDE DEF aside
  <2>2. aside \notin DOMAIN staging
    BY <1>3, <1>6, <1>7
  <2>3. QED BY <2>1, <2>2
<1> HIDE DEF aside
<1>9. TypeOK'
  <2>1. \A p \in DOMAIN staging' : p \in Dir /\ staging'[p] \in Files
    BY <1>3, <1>6, <1>8, Typed
  <2>2. \A q \in DOMAIN inbox' : q \in Dest /\ inbox'[q] \in [hidden : Files, shown : Files]
    BY <1>5, Typed
  <2>3. Range(staging') \subseteq Files /\ Range(inbox') \subseteq [hidden : Files, shown : Files]
    BY <2>1, <2>2 DEF Range
  <2>4. QED BY <1>1, <1>3, <2>1, <2>2, <2>3, AfterAlbumIs DEF TypeOK
<1>10. \A p \in DOMAIN staging' : Shelved(p)' /\ p.aside <= failures'
  BY <1>1, <1>2, <1>3, <1>6, <1>7, AlbumInHand DEF Shelved
<1>11. StagingIsInHand'
  <2>1. IsFiniteSet(DOMAIN inbox')
    BY <1>5, FS_Subset DEF StagingIsInHand
  <2>2. queue' \subseteq DOMAIN staging'
    BY <1>1, <1>3, <1>6 DEF StagingIsInHand
  <2>3. QED BY <1>1, <1>2, <1>3, <1>10, <2>1, <2>2, AfterAlbumIs DEF StagingIsInHand
<1>12. AlbumArrives'
  BY <1>2 DEF AlbumArrives, Busy
<1>13. FinishedIsKept'
  <2> SUFFICES ASSUME NEW d \in finished \ torn
               PROVE  \/ \E p \in DOMAIN staging' : Shelved(p)' /\ Whole(staging'[p], d)
                      \/ InInbox(d)'
    BY <1>1 DEF FinishedIsKept
  <2>1. CASE InInbox(d)
    <3>1. PICK q \in DOMAIN inbox : Whole(inbox[q].shown, d)
      BY <2>1 DEF InInbox
    <3>2. d \in Disc
      BY DEF TypeOK
    <3>3. q # dest
      BY <1>4, <3>1, <3>2, WholeHasFiles DEF NoFiles
    <3>4. QED BY <1>5, <3>1, <3>3 DEF InInbox
  <2>2. CASE \E p \in DOMAIN staging : Whole(staging[p], d)
    BY <1>6, <1>8, <1>10, <2>2
  <2>3. QED BY <2>1, <2>2 DEF FinishedIsKept
<1>14. StagingIsWhole'
  <2>1. \A p \in DOMAIN staging :
            /\ \A t \in DOMAIN staging[p] : t \in 1 .. Tracks[staging[p][t]]
            /\ Unmixed(staging[p])
            /\ \A d \in Range(staging[p]) \ botched : Whole(staging[p], d)
    BY <1>1, ShelvedIsWhole
  <2>2. \A p \in DOMAIN staging' : \E q \in DOMAIN staging : staging'[p] = staging[q]
    BY <1>3, <1>6, <1>8
  <2>3. QED BY <1>1, <1>10, <2>1, <2>2 DEF StagingIsWhole, Unmixed
<1>15. InboxIsWhole' /\ SessionsAreWhole'
  <2>1. \A q \in DOMAIN inbox' : inbox'[q].shown = NoFiles
                                  \/ (q \in DOMAIN inbox /\ inbox'[q] = inbox[q])
    BY <1>5
  <2>2. QED BY <1>1, <2>1, NoneInNoFiles DEF InboxIsWhole, SessionsAreWhole, Unmixed
<1>16. QED BY <1>9, <1>11, <1>12, <1>13, <1>14, <1>15

LEMMA RemoveKeeps == ASSUME IInv, Remove PROVE IInv'
<1> USE DEF IInv
<1>1. /\ step = "remove" /\ step' = AfterAlbum
      /\ UNCHANGED <<inbox, queue, album, dest, todo, failures, sessions, unripped, job,
                     finished, botched, torn, pod>>
      /\ DOMAIN staging' = DOMAIN staging \ {album}
      /\ \A p \in DOMAIN staging \ {album} : staging'[p] = staging[p]
  BY DEF Remove, ripVars, Restrict
<1>2. Busy /\ ~Busy'
  BY <1>1, AfterAlbumIs DEF Busy
<1>3. TypeOK'
  <2>1. \A p \in DOMAIN staging' : p \in Dir /\ staging'[p] \in Files
    BY <1>1, Typed
  <2>2. Range(staging') \subseteq Files
    BY <2>1 DEF Range
  <2>3. QED BY <1>1, <2>1, <2>2, AfterAlbumIs DEF TypeOK
<1>4. \A p \in DOMAIN staging' : Shelved(p)'
  BY <1>1, <1>2, AlbumInHand DEF Shelved
<1>5. StagingIsInHand'
  BY <1>1, <1>2, <1>4, AfterAlbumIs, AlbumInHand DEF StagingIsInHand
<1>6. AlbumArrives'
  BY <1>2 DEF AlbumArrives, Busy
<1>7. FinishedIsKept'
  <2> SUFFICES ASSUME NEW d \in finished \ torn
               PROVE  \/ \E p \in DOMAIN staging' : Shelved(p)' /\ Whole(staging'[p], d)
                      \/ InInbox(d)
    BY <1>1 DEF FinishedIsKept, InInbox
  <2>1. CASE Whole(staging[album], d)
    <3>1. Whole(inbox[dest].shown, d)
      BY <1>1, <1>2, <2>1 DEF AlbumArrives, Agrees, Whole
    <3>2. QED BY <1>2, <3>1, AlbumInHand DEF InInbox
  <2>2. CASE \E p \in DOMAIN staging \ {album} : Whole(staging[p], d)
    BY <1>1, <1>4, <2>2
  <2>3. QED BY <2>1, <2>2 DEF FinishedIsKept
<1>8. StagingIsWhole'
  <2>1. \A p \in DOMAIN staging' : p \in DOMAIN staging /\ staging'[p] = staging[p]
    BY <1>1
  <2>2. QED BY <1>1, <1>4, <2>1, ShelvedIsWhole DEF StagingIsWhole, Unmixed
<1>9. InboxIsWhole' /\ SessionsAreWhole'
  BY <1>1, AfterAlbumIs DEF InboxIsWhole, SessionsAreWhole, Unmixed
<1>10. QED BY <1>3, <1>4, <1>5, <1>6, <1>7, <1>8, <1>9

-----------------------------------------------------------------------------
(* beets-flask and the pod.                                                *)

LEMMA StartSessionKeeps == ASSUME IInv, NEW p \in DOMAIN inbox, StartSession(p) PROVE IInv'
<1> USE DEF IInv
<1>1. /\ ~(step = "reveal" /\ p = dest) /\ inbox[p].shown # NoFiles
      /\ sessions' = sessions \cup {inbox[p].shown}
      /\ UNCHANGED <<staging, inbox, unripped, job, finished, botched, torn, pod, step,
                     queue, album, dest, todo, failures>>
  BY DEF StartSession, ripVars, handoffVars
<1>2. TypeOK'
  <2>1. inbox[p].shown \in Files
    BY Typed
  <2>2. QED BY <1>1, <2>1 DEF TypeOK
<1>3. Busy' = Busy /\ \A q : Shelved(q)' = Shelved(q)
  BY <1>1 DEF Busy, Shelved
<1>4. StagingIsInHand' /\ AlbumArrives' /\ StagingIsWhole' /\ InboxIsWhole'
  BY <1>1, <1>3 DEF StagingIsInHand, AlbumArrives, StagingIsWhole, InboxIsWhole, Unmixed
<1>5. FinishedIsKept'
  BY <1>1, <1>3 DEF FinishedIsKept, InInbox
<1>6. SessionsAreWhole'
  BY <1>1 DEF SessionsAreWhole, InboxIsWhole, Unmixed
<1>7. QED BY <1>2, <1>4, <1>5, <1>6

LEMMA DeleteImportedKeeps ==
    ASSUME IInv, NEW p \in DOMAIN inbox, DeleteImported(p)
    PROVE  IInv'
<1> USE DEF IInv
<1>1. /\ ~(Busy /\ p = dest)
      /\ finished' = {d \in finished : ~Whole(inbox[p].shown, d)}
      /\ DOMAIN inbox' = DOMAIN inbox \ {p}
      /\ \A q \in DOMAIN inbox \ {p} : inbox'[q] = inbox[q]
      /\ UNCHANGED <<unripped, job, staging, sessions, botched, torn, pod, step, queue, album,
                     dest, todo, failures>>
  BY DEF DeleteImported, handoffVars, Busy, Restrict
<1>2. TypeOK'
  <2>1. \A q \in DOMAIN inbox' : q \in Dest /\ inbox'[q] \in [hidden : Files, shown : Files]
    BY <1>1, Typed
  <2>2. Range(inbox') \subseteq [hidden : Files, shown : Files]
    BY <2>1 DEF Range
  <2>3. QED BY <1>1, <2>1, <2>2 DEF TypeOK
<1>3. Busy' = Busy /\ \A q : Shelved(q)' = Shelved(q)
  BY <1>1 DEF Busy, Shelved
<1>4. StagingIsInHand'
  <2>1. IsFiniteSet(DOMAIN inbox')
    BY <1>1, FS_RemoveElement DEF StagingIsInHand
  <2>2. QED BY <1>1, <1>3, <2>1 DEF StagingIsInHand
<1>5. Busy => dest \in DOMAIN inbox' /\ inbox'[dest] = inbox[dest]
  BY <1>1, AlbumInHand
<1>6. AlbumArrives'
  BY <1>1, <1>3, <1>5 DEF AlbumArrives, Busy
<1>7. FinishedIsKept'
  <2>1. \A d \in finished' : InInbox(d) => InInbox(d)'
    BY <1>1 DEF InInbox
  <2>2. QED BY <1>1, <1>3, <2>1 DEF FinishedIsKept
<1>8. StagingIsWhole' /\ SessionsAreWhole'
  BY <1>1, <1>3 DEF StagingIsWhole, SessionsAreWhole, Unmixed
<1>9. InboxIsWhole'
  <2>1. \A q \in DOMAIN inbox' : q \in DOMAIN inbox /\ inbox'[q] = inbox[q]
    BY <1>1
  <2>2. QED BY <1>1, <2>1 DEF InboxIsWhole, Unmixed
<1>10. QED BY <1>2, <1>4, <1>6, <1>7, <1>8, <1>9

LEMMA RestartKeeps == ASSUME IInv, Restart PROVE IInv'
<1> USE DEF IInv
<1>1. /\ torn' = IF step = "reveal" THEN torn \cup Range(inbox[dest].hidden) ELSE torn
      /\ pod' = 1 - pod
      /\ job' = NoDisc /\ staging' = <<>> /\ step' = "idle" /\ queue' = {}
      /\ finished' = {d \in finished : InInbox(d)}
      /\ UNCHANGED <<unripped, inbox, album, dest, failures, sessions, botched>>
  BY DEF Restart
<1>2. DOMAIN staging' = {} /\ ~Busy'
  BY <1>1 DEF Busy
<1>3. torn \subseteq torn' /\ torn' \subseteq Disc
  <2>1. step = "reveal" => Range(inbox[dest].hidden) \subseteq Disc
    BY AlbumInHand, DiscsOfFiles DEF Busy
  <2>2. QED BY <1>1, <2>1 DEF TypeOK
<1>4. TypeOK'
  BY <1>1, <1>2, <1>3 DEF TypeOK, Range
<1>5. StagingIsInHand' /\ AlbumArrives' /\ StagingIsWhole'
  BY <1>1, <1>2 DEF StagingIsInHand, AlbumArrives, StagingIsWhole, Busy
<1>6. FinishedIsKept'
  BY <1>1 DEF FinishedIsKept, InInbox
<1>7. InboxIsWhole'
  <2>1. ASSUME step = "reveal", NEW d \in Range(inbox[dest].shown) \ (botched \cup torn')
        PROVE  Whole(inbox[dest].shown, d)
    BY <1>1, <2>1, ShownIsWhole
  <2>2. QED BY <1>1, <1>3, <2>1 DEF InboxIsWhole, Unmixed
<1>8. SessionsAreWhole'
  BY <1>1, <1>3 DEF SessionsAreWhole, Unmixed
<1>9. QED BY <1>4, <1>5, <1>6, <1>7, <1>8

-----------------------------------------------------------------------------
(* Theorems.                                                               *)

\* A step that changes nothing keeps the invariant.
LEMMA StutterKeeps == IInv /\ UNCHANGED vars => IInv'
BY DEF IInv, vars, TypeOK, StagingIsInHand, AlbumArrives, FinishedIsKept, StagingIsWhole,
       InboxIsWhole, SessionsAreWhole, Unmixed, RipDir, Busy, Shelved, InInbox

\* Every reachable state satisfies the inductive invariant.
LEMMA InductiveInvariant == Spec => []IInv
<1>1. IInv /\ [Next]_vars => IInv'
  <2> SUFFICES ASSUME IInv, [Next]_vars PROVE IInv'
    OBVIOUS
  <2>1. CASE \E d \in Disc : Insert(d)
    BY <2>1, InsertKeeps
  <2>2. CASE \E t \in 1 .. MaxTrack : Encode(t)
    BY <2>2, EncodeKeeps
  <2>3. CASE \E t \in 1 .. MaxTrack : Copy(t)
    BY <2>3, CopyKeeps
  <2>4. CASE \E t \in 1 .. MaxTrack : Reveal(t)
    BY <2>4, RevealKeeps
  <2>5. CASE RipCompletes
    BY <2>5, RipCompletesKeeps
  <2>6. CASE RipFailed
    BY <2>6, RipFailedKeeps
  <2>7. CASE \E p \in queue : Choose(p)
    BY <2>7, ChooseKeeps
  <2>8. CASE CopyFails
    BY <2>8, CopyFailsKeeps
  <2>9. CASE AllCopied
    BY <2>9, AllCopiedKeeps
  <2>10. CASE Revealed
    BY <2>10, RevealedKeeps
  <2>11. CASE Remove
    BY <2>11, RemoveKeeps
  <2>12. CASE \E p \in DOMAIN inbox : StartSession(p)
    BY <2>12, StartSessionKeeps
  <2>13. CASE \E p \in DOMAIN inbox : DeleteImported(p)
    BY <2>13, DeleteImportedKeeps
  <2>14. CASE Restart
    BY <2>14, RestartKeeps
  <2>15. CASE UNCHANGED vars
    BY <2>15, StutterKeeps
  <2>16. CASE \E t \in 1 .. MaxTrack : RenameFails(t)
    BY <2>16, RenameFailsKeeps
  <2>17. QED
    BY <2>1, <2>2, <2>3, <2>4, <2>5, <2>6, <2>7, <2>8, <2>9, <2>10, <2>11, <2>12, <2>13,
       <2>14, <2>15, <2>16 DEF Next
<1>2. QED BY <1>1, InitIInv, PTL DEF Spec

\* Every variable keeps its type.
THEOREM TypeCorrect == Spec => []TypeOK
<1>1. IInv => TypeOK
  BY DEF IInv
<1>2. QED BY <1>1, InductiveInvariant, PTL

\* A disc ripped whole is whole in staging, or whole and visible in the inbox,
\* until its import is deleted, its pod is gone, or a rename of one of its files
\* fails.
THEOREM FinishedKept == Spec => []FinishedRipIsSomewhere
<1>1. IInv => FinishedRipIsSomewhere
  BY DEF IInv, FinishedIsKept, FinishedRipIsSomewhere, Somewhere
<1>2. QED BY <1>1, InductiveInvariant, PTL

\* What beets-flask starts on lacks a track of a disc only if that disc's own rip
\* failed, or a file of its own was left hidden by a failed rename or a dead pod;
\* two discs are in it only if the rip of one of them failed.
THEOREM SpoiltOnlySo == Spec => []SpoiltByFailuresOnly
<1>1. IInv => SpoiltByFailuresOnly
  BY DEF IInv, SessionsAreWhole, SpoiltByFailuresOnly, Unmixed
<1>2. QED BY <1>1, InductiveInvariant, PTL

-----------------------------------------------------------------------------
(* Each disc is handed off once.                                           *)

\* Where there are files of disc d, in staging and visible in the inbox, and whether
\* beets-flask has started on any.
StagedIn(d) == {p \in DOMAIN staging : d \in Range(staging[p])}

ShownIn(d) == {p \in DOMAIN inbox : d \in Range(inbox[p].shown)}

Started(d) == \E s \in sessions : d \in Range(s)

\* A disc has files in one directory of staging and is visible in one of the inbox
\* at most, both only while the one is shown as the other, and is neither visible nor
\* torn before its rip is over.
EachDiscOnce ==
    \A d \in Disc :
        /\ d \in unripped \/ d = job => ShownIn(d) = {} /\ ~Started(d) /\ d \notin torn
        /\ d \in unripped => StagedIn(d) = {} /\ d # job
        /\ d = job => StagedIn(d) \subseteq {RipDir(d)}
        /\ \A p, q \in StagedIn(d) : p = q
        /\ \A p, q \in ShownIn(d) : p = q
        /\ \A p \in StagedIn(d), q \in ShownIn(d) : Busy /\ p = album /\ q = dest
        /\ Started(d) => \A p \in StagedIn(d) : step = "remove" /\ p = album

LEMMA InitOnce == Init => EachDiscOnce
<1> SUFFICES ASSUME Init PROVE EachDiscOnce
  OBVIOUS
<1>1. /\ DOMAIN staging = {} /\ DOMAIN inbox = {} /\ sessions = {} /\ job = NoDisc
      /\ torn = {}
  BY DEF Init
<1>2. \A d : StagedIn(d) = {} /\ ShownIn(d) = {} /\ ~Started(d)
  BY <1>1 DEF StagedIn, ShownIn, Started
<1>3. QED BY <1>1, <1>2, AudioHandoffAssumption DEF EachDiscOnce

\* Steps that move no file.
LEMMA InsertOnce == ASSUME IInv, EachDiscOnce, NEW d \in Disc, Insert(d) PROVE EachDiscOnce'
<1>1. /\ d \in unripped /\ unripped' = unripped \ {d} /\ job = NoDisc /\ job' = d
      /\ UNCHANGED <<staging, inbox, sessions, step, album, dest, torn>>
  BY DEF Insert, handoffVars
<1>2. \A e : /\ StagedIn(e)' = StagedIn(e) /\ ShownIn(e)' = ShownIn(e)
             /\ Started(e)' = Started(e) /\ Busy' = Busy
  BY <1>1 DEF StagedIn, ShownIn, Started, Busy
<1>3. QED BY <1>1, <1>2 DEF EachDiscOnce, RipDir

\* The rip ended, whichever way, and a step of the handoff that shows nothing.
LEMMA StandstillOnce ==
    ASSUME IInv, EachDiscOnce,
           \/ RipCompletes \/ RipFailed \/ AllCopied \/ Revealed
           \/ \E t \in 1 .. MaxTrack : Copy(t)
    PROVE  EachDiscOnce'
<1>1. /\ UNCHANGED <<unripped, staging, sessions, album, dest, torn>>
      /\ job' \in {job, NoDisc} /\ step # "remove"
      /\ Busy => Busy'
  BY DEF RipCompletes, RipFailed, AllCopied, Revealed, Copy, ripVars, handoffVars,
         Busy
<1>2. DOMAIN inbox' = DOMAIN inbox /\ \A q \in DOMAIN inbox : inbox'[q].shown = inbox[q].shown
  <2>1. CASE UNCHANGED inbox
    BY <2>1
  <2>2. ASSUME NEW t \in 1 .. MaxTrack, Copy(t)
        PROVE  /\ DOMAIN inbox' = DOMAIN inbox
               /\ \A q \in DOMAIN inbox : inbox'[q].shown = inbox[q].shown
    <3>1. dest \in DOMAIN inbox /\ inbox[dest] \in [hidden : Files, shown : Files]
      BY <2>2, AlbumInHand DEF Copy, Busy
    <3>2. QED BY <2>2, <3>1 DEF Copy
  <2>3. QED BY <2>1, <2>2 DEF RipCompletes, RipFailed, AllCopied, Revealed
<1>3. \A e : /\ StagedIn(e)' = StagedIn(e) /\ ShownIn(e)' = ShownIn(e)
             /\ Started(e)' = Started(e)
  BY <1>1, <1>2 DEF StagedIn, ShownIn, Started
<1>4. \A e \in Disc : e # NoDisc
  BY AudioHandoffAssumption
<1>5. \A e \in Disc : Started(e) => StagedIn(e) = {}
  BY <1>1 DEF EachDiscOnce
<1>6. QED BY <1>1, <1>3, <1>4, <1>5 DEF EachDiscOnce, RipDir

\* A track encoded is one of the disc in the drive, in its own directory.
LEMMA EncodeOnce ==
    ASSUME IInv, EachDiscOnce, NEW t \in 1 .. MaxTrack, Encode(t)
    PROVE  EachDiscOnce'
<1> DEFINE here == RipDir(job)
<1>1. /\ step = "idle" /\ job # NoDisc
      /\ UNCHANGED <<inbox, sessions, unripped, job, step, album, dest, torn>>
  BY DEF Encode, ripVars, handoffVars
<1>2. /\ DOMAIN staging' = DOMAIN staging \cup {here}
      /\ staging'[here] = Over(Staged(here), [s \in {t} |-> job])
      /\ \A p \in DOMAIN staging : p # here => staging'[p] = staging[p]
  BY DEF Encode
<1>3. \A e : ShownIn(e)' = ShownIn(e) /\ Started(e)' = Started(e) /\ Busy' = Busy
  BY <1>1 DEF ShownIn, Started, Busy
<1>4. \A e : e # job => StagedIn(e)' \subseteq StagedIn(e)
  <2> SUFFICES ASSUME NEW e, e # job, NEW p \in DOMAIN staging', e \in Range(staging'[p])
               PROVE  p \in DOMAIN staging /\ e \in Range(staging[p])
    BY DEF StagedIn
  <2>1. CASE p # here
    BY <1>2, <2>1
  <2>2. CASE p = here
    <3>1. e \notin Range([s \in {t} |-> job])
      BY DEF Range
    <3>2. e \in Range(Staged(here))
      BY <1>2, <2>2, <3>1, OverRange
    <3>3. QED BY <2>2, <3>2, NoneInNoFiles DEF Staged
  <2>3. QED BY <2>1, <2>2
<1>5. \A e : e = job => StagedIn(e)' \subseteq {here}
  <2>1. StagedIn(job) \subseteq {here}
    BY <1>1, RipDirIsOpen DEF EachDiscOnce
  <2>2. QED BY <1>2, <2>1 DEF StagedIn
<1> HIDE DEF here
<1>6. job \in Disc /\ here = RipDir(job)
  BY <1>1, RipDirIsOpen DEF here
<1>7. SUFFICES ASSUME NEW e \in Disc
               PROVE  /\ e \in unripped \/ e = job =>
                            ShownIn(e) = {} /\ ~Started(e) /\ e \notin torn
                      /\ e \in unripped => StagedIn(e)' = {} /\ e # job
                      /\ e = job => StagedIn(e)' \subseteq {RipDir(e)}
                      /\ \A p, q \in StagedIn(e)' : p = q
                      /\ \A p, q \in ShownIn(e) : p = q
                      /\ \A p \in StagedIn(e)', q \in ShownIn(e) :
                            Busy /\ p = album /\ q = dest
                      /\ Started(e) => \A p \in StagedIn(e)' : step = "remove" /\ p = album
  BY <1>1, <1>3 DEF EachDiscOnce, RipDir
<1>8. CASE e = job
  BY <1>5, <1>6, <1>8 DEF EachDiscOnce
<1>9. CASE e # job
  BY <1>4, <1>9 DEF EachDiscOnce
<1>10. QED BY <1>8, <1>9

\* A destination chosen is new and has no file.
LEMMA ChooseOnce ==
    ASSUME IInv, EachDiscOnce, NEW p \in queue, Choose(p)
    PROVE  EachDiscOnce'
<1>1. /\ step = "choose" /\ dest' = FreeDest(p)
      /\ UNCHANGED <<staging, sessions, unripped, job, torn>>
  BY DEF Choose, ripVars
<1>2. p \in Dir /\ IsFiniteSet(DOMAIN inbox)
  BY DEF IInv, TypeOK, StagingIsInHand
<1>3. dest' \notin DOMAIN inbox
  BY <1>1, <1>2, FreeDestIsFree
<1>4. /\ DOMAIN inbox' = DOMAIN inbox \cup {dest'}
      /\ \A q \in DOMAIN inbox : inbox'[q] = inbox[q]
      /\ inbox'[dest'] = [hidden |-> NoFiles, shown |-> NoFiles]
  BY <1>3 DEF Choose, Dir0
<1>5. \A e : ShownIn(e)' = ShownIn(e)
  BY <1>3, <1>4, NoneInNoFiles DEF ShownIn
<1>6. \A e : StagedIn(e)' = StagedIn(e) /\ Started(e)' = Started(e)
  BY <1>1 DEF StagedIn, Started
<1>7. ~Busy
  BY <1>1 DEF Busy
<1>8. \A e \in Disc : Started(e) => StagedIn(e) = {}
  BY <1>1 DEF EachDiscOnce
<1>9. QED BY <1>1, <1>5, <1>6, <1>7, <1>8 DEF EachDiscOnce, RipDir

\* The disc a file of the album in hand comes from is ripped.
LEMMA InHandIsRipped ==
    ASSUME IInv, EachDiscOnce, Busy, NEW e \in Disc, album \in StagedIn(e)
    PROVE  e \notin unripped /\ e # job
BY AlbumInHand, AudioHandoffAssumption DEF EachDiscOnce

\* A file renamed is of a disc that is visible nowhere in the inbox but there.
LEMMA RevealOnce ==
    ASSUME IInv, EachDiscOnce, NEW t \in 1 .. MaxTrack, Reveal(t)
    PROVE  EachDiscOnce'
<1> DEFINE f == staging[album][t]
<1>1. /\ step = "reveal" /\ t \in todo
      /\ UNCHANGED <<staging, step, album, dest, sessions, unripped, job, torn>>
  BY DEF Reveal, ripVars
<1>2. Busy /\ Busy'
  BY <1>1 DEF Busy
<1>3. /\ dest \in DOMAIN inbox /\ inbox[dest] \in [hidden : Files, shown : Files]
      /\ album \in DOMAIN staging /\ t \in DOMAIN staging[album]
      /\ inbox[dest].hidden[t] = f
  BY <1>1, <1>2, AlbumInHand DEF AlbumArrives, Agrees, IInv
<1>4. /\ DOMAIN inbox' = DOMAIN inbox
      /\ \A q \in DOMAIN inbox : q # dest => inbox'[q] = inbox[q]
      /\ inbox'[dest].shown = Over(inbox[dest].shown, [s \in {t} |-> f])
  BY <1>3 DEF Reveal
<1>5. album \in StagedIn(f)
  BY <1>3, InRange DEF StagedIn
<1> HIDE DEF f
<1>6. \A e : e # f => ShownIn(e)' \subseteq ShownIn(e)
  <2> SUFFICES ASSUME NEW e, e # f, e \in Range(inbox'[dest].shown)
               PROVE  e \in Range(inbox[dest].shown)
    BY <1>3, <1>4 DEF ShownIn
  <2>1. e \notin Range([s \in {t} |-> f])
    BY DEF Range
  <2>2. QED BY <1>4, <2>1, OverRange
<1>7. \A e : ShownIn(e)' \subseteq ShownIn(e) \cup {dest}
  BY <1>4 DEF ShownIn
<1>8. \A e : StagedIn(e)' = StagedIn(e) /\ Started(e)' = Started(e)
  BY <1>1 DEF StagedIn, Started
<1>9. SUFFICES ASSUME NEW e \in Disc
               PROVE  /\ e \in unripped \/ e = job => ShownIn(e)' = {}
                      /\ \A p, q \in ShownIn(e)' : p = q
                      /\ \A p \in StagedIn(e), q \in ShownIn(e)' : p = album /\ q = dest
  BY <1>1, <1>2, <1>8 DEF EachDiscOnce, RipDir
<1>10. CASE e = f
  <2>1. ShownIn(e) \subseteq {dest} /\ \A p \in StagedIn(e) : p = album
    BY <1>5, <1>10 DEF EachDiscOnce
  <2>2. e \notin unripped /\ e # job
    BY <1>2, <1>5, <1>10, InHandIsRipped
  <2>3. QED BY <1>7, <1>10, <2>1, <2>2
<1>11. CASE e # f
  BY <1>6, <1>11 DEF EachDiscOnce
<1>12. QED BY <1>10, <1>11

\* What is hidden in the destination is of a disc that is ripped.
LEMMA HiddenIsRipped ==
    ASSUME IInv, EachDiscOnce, step = "reveal", NEW d \in Range(inbox[dest].hidden)
    PROVE  d \in Disc /\ album \in StagedIn(d) /\ d \notin unripped /\ d # job
<1>1. Busy
  BY DEF Busy
<1>2. /\ album \in DOMAIN staging
      /\ inbox[dest] \in [hidden : Files, shown : Files]
      /\ Agrees(inbox[dest].hidden, staging[album])
  BY <1>1, AlbumInHand DEF IInv, AlbumArrives
<1>3. d \in Disc
  BY <1>2, DiscsOfFiles
<1>4. album \in StagedIn(d)
  BY <1>2, AgreeingRange DEF StagedIn
<1>5. QED BY <1>1, <1>3, <1>4, InHandIsRipped

LEMMA RenameFailsOnce ==
    ASSUME IInv, EachDiscOnce, NEW t \in 1 .. MaxTrack, RenameFails(t)
    PROVE  EachDiscOnce'
<1>1. /\ step = "reveal" /\ t \in todo
      /\ torn' = torn \cup {inbox[dest].hidden[t]}
      /\ UNCHANGED <<staging, inbox, sessions, step, album, dest, unripped, job>>
  BY DEF RenameFails, ripVars
<1>2. inbox[dest].hidden[t] \in Range(inbox[dest].hidden)
  BY <1>1, InRange DEF IInv, AlbumArrives
<1>3. \A e \in Disc : e \in unripped \/ e = job => e # inbox[dest].hidden[t]
  BY <1>1, <1>2, HiddenIsRipped
<1>4. \A e : /\ StagedIn(e)' = StagedIn(e) /\ ShownIn(e)' = ShownIn(e)
             /\ Started(e)' = Started(e) /\ Busy' = Busy
  BY <1>1 DEF StagedIn, ShownIn, Started, Busy
<1>5. QED BY <1>1, <1>3, <1>4 DEF EachDiscOnce, RipDir

\* Nothing of an album whose copy failed is visible in the inbox, and all of it is
\* moved aside.
LEMMA CopyFailsOnce == ASSUME IInv, EachDiscOnce, CopyFails PROVE EachDiscOnce'
<1> DEFINE aside == [album EXCEPT !.aside = failures + 1]
<1>1. /\ step = "copy" /\ inbox' \in LeftOver
      /\ UNCHANGED <<sessions, unripped, job, torn>>
      /\ staging' = [p \in (DOMAIN staging \ {album}) \cup {aside} |->
                        IF p = aside THEN staging[album] ELSE staging[p]]
  BY DEF CopyFails, ripVars
<1> HIDE DEF aside
<1>2. Busy
  BY <1>1 DEF Busy
<1>3. /\ album \in DOMAIN staging /\ dest \in DOMAIN inbox
      /\ inbox[dest] \in [hidden : Files, shown : Files]
  BY <1>2, AlbumInHand
<1>4. inbox[dest].shown = NoFiles
  BY <1>1 DEF AlbumArrives, IInv
<1>5. /\ DOMAIN inbox' \subseteq DOMAIN inbox
      /\ \A q \in DOMAIN inbox \ {dest} : inbox'[q] = inbox[q]
      /\ dest \in DOMAIN inbox' => inbox'[dest].shown = NoFiles
  BY <1>1, LeftOverIs
<1>6. \A e : ShownIn(e)' \subseteq ShownIn(e) \ {dest}
  BY <1>5, NoneInNoFiles DEF ShownIn
<1>7. \A e : StagedIn(e)' \subseteq (StagedIn(e) \ {album})
                                    \cup (IF album \in StagedIn(e) THEN {aside} ELSE {})
  BY <1>1, <1>3 DEF StagedIn
<1>8. \A e : Started(e)' = Started(e)
  BY <1>1 DEF Started
<1>9. \A e \in Disc : e # job
  BY <1>2, AlbumInHand, AudioHandoffAssumption
<1>10. SUFFICES ASSUME NEW e \in Disc
                PROVE  /\ e \in unripped => ShownIn(e)' = {} /\ StagedIn(e)' = {}
                       /\ \A p, q \in StagedIn(e)' : p = q
                       /\ \A p, q \in ShownIn(e)' : p = q
                       /\ \A p \in StagedIn(e)', q \in ShownIn(e)' : FALSE
                       /\ Started(e) => StagedIn(e)' = {}
  BY <1>1, <1>8, <1>9 DEF EachDiscOnce, RipDir
<1>11. Started(e) => StagedIn(e) = {}
  BY <1>1 DEF EachDiscOnce
<1>12. QED BY <1>6, <1>7, <1>11 DEF EachDiscOnce

\* What leaves staging leaves it in one piece.
LEMMA RemoveOnce == ASSUME IInv, EachDiscOnce, Remove PROVE EachDiscOnce'
<1>1. /\ step = "remove"
      /\ UNCHANGED <<inbox, sessions, unripped, job, torn>>
      /\ DOMAIN staging' = DOMAIN staging \ {album}
      /\ \A p \in DOMAIN staging \ {album} : staging'[p] = staging[p]
  BY DEF Remove, ripVars, Restrict
<1>2. \A e : StagedIn(e)' = StagedIn(e) \ {album}
  BY <1>1 DEF StagedIn
<1>3. \A e : ShownIn(e)' = ShownIn(e) /\ Started(e)' = Started(e)
  BY <1>1 DEF ShownIn, Started
<1>4. QED BY <1>1, <1>2, <1>3 DEF EachDiscOnce, RipDir

\* A session starts on nothing that is in staging, but for the album about to
\* leave it.
LEMMA StartSessionOnce ==
    ASSUME IInv, EachDiscOnce, NEW p \in DOMAIN inbox, StartSession(p)
    PROVE  EachDiscOnce'
<1>1. /\ ~(step = "reveal" /\ p = dest) /\ inbox[p].shown # NoFiles
      /\ sessions' = sessions \cup {inbox[p].shown}
      /\ UNCHANGED <<staging, inbox, unripped, job, step, album, dest, torn>>
  BY DEF StartSession, ripVars, handoffVars
<1>2. \A e : StagedIn(e)' = StagedIn(e) /\ ShownIn(e)' = ShownIn(e) /\ Busy' = Busy
  BY <1>1 DEF StagedIn, ShownIn, Busy
<1>3. \A e : Started(e)' => Started(e) \/ e \in Range(inbox[p].shown)
  BY <1>1 DEF Started
<1>4. \A e : e \in Range(inbox[p].shown) => p \in ShownIn(e)
  BY DEF ShownIn
<1>5. step = "copy" => p # dest
  BY <1>1 DEF AlbumArrives, IInv
<1>6. ASSUME NEW e \in Disc, e \in Range(inbox[p].shown), NEW q \in StagedIn(e)
      PROVE  step = "remove" /\ q = album
  <2>1. Busy /\ q = album /\ p = dest
    BY <1>4, <1>6 DEF EachDiscOnce
  <2>2. QED BY <1>1, <1>5, <2>1 DEF Busy
<1>7. QED BY <1>1, <1>2, <1>3, <1>4, <1>6 DEF EachDiscOnce, RipDir

LEMMA DeleteImportedOnce ==
    ASSUME IInv, EachDiscOnce, NEW p \in DOMAIN inbox, DeleteImported(p)
    PROVE  EachDiscOnce'
<1>1. /\ DOMAIN inbox' = DOMAIN inbox \ {p}
      /\ \A q \in DOMAIN inbox \ {p} : inbox'[q] = inbox[q]
      /\ UNCHANGED <<staging, unripped, job, sessions, step, album, dest, torn>>
  BY DEF DeleteImported, handoffVars, Restrict
<1>2. \A e : ShownIn(e)' \subseteq ShownIn(e)
  BY <1>1 DEF ShownIn
<1>3. \A e : StagedIn(e)' = StagedIn(e) /\ Started(e)' = Started(e) /\ Busy' = Busy
  BY <1>1 DEF StagedIn, Started, Busy
<1>4. QED BY <1>1, <1>2, <1>3 DEF EachDiscOnce, RipDir

\* A pod that is gone takes all of staging with it.
LEMMA RestartOnce == ASSUME IInv, EachDiscOnce, Restart PROVE EachDiscOnce'
<1>1. job' = NoDisc /\ staging' = <<>> /\ UNCHANGED <<unripped, inbox, sessions>>
  BY DEF Restart
<1>2. \A e : StagedIn(e)' = {}
  BY <1>1 DEF StagedIn
<1>3. \A e : ShownIn(e)' = ShownIn(e) /\ Started(e)' = Started(e)
  BY <1>1 DEF ShownIn, Started
<1>4. \A e \in Disc : e # NoDisc
  BY AudioHandoffAssumption
<1>5. \A e \in Disc : e \in unripped => e \notin torn'
  <2>1. step = "reveal" => \A e \in Range(inbox[dest].hidden) : e \notin unripped
    BY HiddenIsRipped
  <2>2. QED BY <2>1 DEF Restart, EachDiscOnce
<1>6. QED BY <1>1, <1>2, <1>3, <1>4, <1>5 DEF EachDiscOnce

LEMMA OnceInductive == Spec => []EachDiscOnce
<1>1. IInv /\ EachDiscOnce /\ [Next]_vars => EachDiscOnce'
  <2> SUFFICES ASSUME IInv, EachDiscOnce, [Next]_vars PROVE EachDiscOnce'
    OBVIOUS
  <2>1. CASE \E d \in Disc : Insert(d)
    BY <2>1, InsertOnce
  <2>2. CASE \E t \in 1 .. MaxTrack : Encode(t)
    BY <2>2, EncodeOnce
  <2>3. CASE \E t \in 1 .. MaxTrack : Copy(t)
    BY <2>3, StandstillOnce
  <2>4. CASE \E t \in 1 .. MaxTrack : Reveal(t)
    BY <2>4, RevealOnce
  <2>5. CASE RipCompletes \/ RipFailed \/ AllCopied \/ Revealed
    BY <2>5, StandstillOnce
  <2>6. CASE \E p \in queue : Choose(p)
    BY <2>6, ChooseOnce
  <2>7. CASE CopyFails
    BY <2>7, CopyFailsOnce
  <2>8. CASE Remove
    BY <2>8, RemoveOnce
  <2>9. CASE \E p \in DOMAIN inbox : StartSession(p)
    BY <2>9, StartSessionOnce
  <2>10. CASE \E p \in DOMAIN inbox : DeleteImported(p)
    BY <2>10, DeleteImportedOnce
  <2>11. CASE Restart
    BY <2>11, RestartOnce
  <2>12. CASE UNCHANGED vars
    BY <2>12 DEF vars, EachDiscOnce, StagedIn, ShownIn, Started, Busy, RipDir
  <2>13. CASE \E t \in 1 .. MaxTrack : RenameFails(t)
    BY <2>13, RenameFailsOnce
  <2>14. QED
    BY <2>1, <2>2, <2>3, <2>4, <2>5, <2>6, <2>7, <2>8, <2>9, <2>10, <2>11, <2>12, <2>13
       DEF Next
<1>2. QED BY <1>1, InitOnce, InductiveInvariant, PTL DEF Spec

\* The handoff remembers nothing, and yet no disc is visible in two albums of
\* the inbox, whatever fails, and none is still to be handed off once
\* beets-flask has started on it.
THEOREM OnlyOnce == Spec => []HandedOffOnce
<1>1. IInv /\ EachDiscOnce => HandedOffOnce
  <2> SUFFICES ASSUME IInv, EachDiscOnce PROVE HandedOffOnce
    OBVIOUS
  <2>1. \A f \in Files : Range(f) \subseteq Disc
    BY FileIs, InRange
  <2>2. ASSUME NEW p \in DOMAIN inbox, NEW q \in DOMAIN inbox,
               NEW d \in Range(inbox[p].shown), d \in Range(inbox[q].shown)
        PROVE  p = q
    <3>1. d \in Disc
      BY <2>1, Typed DEF IInv
    <3>2. p \in ShownIn(d) /\ q \in ShownIn(d)
      BY <2>2 DEF ShownIn
    <3>3. QED BY <3>1, <3>2 DEF EachDiscOnce
  <2>3. ASSUME NEW s \in sessions, NEW p \in DOMAIN staging,
               NEW d \in Range(s), d \in Range(staging[p])
        PROVE  step = "remove" /\ p = album
    <3>1. d \in Disc
      BY <2>1 DEF IInv, TypeOK
    <3>2. Started(d) /\ p \in StagedIn(d)
      BY <2>3 DEF Started, StagedIn
    <3>3. QED BY <3>1, <3>2 DEF EachDiscOnce
  <2>4. QED BY <2>2, <2>3 DEF HandedOffOnce
<1>2. QED BY <1>1, InductiveInvariant, OnceInductive, PTL

-----------------------------------------------------------------------------
(* The handoff implements its contract.                                    *)

\* What is finished, not torn, and neither visible nor being renamed is in staging.
KeptIsTheRest == Kept = finished \ (torn \cup Visible \cup Showing)

LEMMA RestIsKept == IInv => KeptIsTheRest
BY DEF IInv, FinishedIsKept, KeptIsTheRest, Kept, Visible

LEMMA ContractInit == Init => Contract!Init
<1> SUFFICES ASSUME Init PROVE Contract!Init
  OBVIOUS
<1>1. unripped = Disc /\ job = NoDisc /\ finished = {} /\ pod = 0
  BY DEF Init
<1>2. Kept = {} /\ Showing = {} /\ Visible = {} /\ Begun = {}
  BY <1>1 DEF Kept, Showing, Visible, Begun
<1>3. QED BY <1>1, <1>2 DEF Contract!Init, Coming

\* No disc with a file still hidden in the destination is visible with every track.
LEMMA HiddenNotVisible ==
    ASSUME IInv, EachDiscOnce, step = "reveal", NEW d \in Range(inbox[dest].hidden)
    PROVE  ~InInbox(d)
<1>1. Busy
  BY DEF Busy
<1>2. /\ album \in DOMAIN staging
      /\ Agrees(inbox[dest].hidden, staging[album])
      /\ DOMAIN inbox[dest].hidden \cap DOMAIN inbox[dest].shown = {}
  BY <1>1, AlbumInHand DEF IInv, AlbumArrives
<1>3. d \in Disc /\ album \in StagedIn(d)
  BY HiddenIsRipped
<1>4. PICK t \in DOMAIN inbox[dest].hidden : inbox[dest].hidden[t] = d
  BY InRange
<1>5. t \in 1 .. Tracks[d]
  BY <1>2, <1>4, ShelvedIsWhole DEF Agrees
<1>6. ASSUME NEW q \in DOMAIN inbox, Whole(inbox[q].shown, d)
      PROVE  FALSE
  <2>1. q \in ShownIn(d)
    BY <1>3, <1>6, WholeInRange DEF ShownIn
  <2>2. q = dest
    BY <1>3, <2>1 DEF EachDiscOnce
  <2>3. QED BY <1>2, <1>4, <1>5, <1>6, <2>2 DEF Whole
<1>7. QED BY <1>6 DEF InInbox

\* Once every rename has been tried, and before any is, no disc is being shown.
LEMMA NoneIsShowing ==
    ASSUME IInv, step = "reveal" => todo = {}
    PROVE  Showing = {}
<1> SUFFICES ASSUME NEW d \in finished, d \notin torn, step = "reveal", todo = {},
                    Whole(Staged(album), d)
             PROVE  InInbox(d)
  BY DEF Showing, Visible
<1>1. /\ album \in DOMAIN staging /\ dest \in DOMAIN inbox
      /\ Agrees(inbox[dest].hidden, staging[album])
      /\ Agrees(inbox[dest].shown, staging[album])
      /\ DOMAIN staging[album] \subseteq
            DOMAIN inbox[dest].hidden \cup DOMAIN inbox[dest].shown
      /\ \A t \in DOMAIN inbox[dest].hidden : inbox[dest].hidden[t] \in torn
  BY AlbumInHand DEF IInv, AlbumArrives, Busy
<1>2. Whole(staging[album], d)
  BY <1>1 DEF Staged
<1>3. Whole(inbox[dest].shown, d)
  BY <1>1, <1>2 DEF Whole, Agrees
<1>4. QED BY <1>1, <1>3 DEF InInbox

\* Where the discs, the sessions and what is visible stay, and nothing is shown, the
\* contract stutters.
LEMMA NothingMoves ==
    ASSUME KeptIsTheRest, KeptIsTheRest', Showing = {}, Showing' = {},
           UNCHANGED <<finished, sessions, unripped, job, torn, pod>>,
           \A d \in finished : InInbox(d)' = InInbox(d)
    PROVE  UNCHANGED Contract!vars
<1>1. Visible' = Visible /\ Begun' = Begun
  BY DEF Visible, Begun
<1>2. Kept' = Kept
  BY <1>1 DEF KeptIsTheRest
<1>3. QED BY <1>1, <1>2 DEF Contract!vars, Coming

\* Steps that leave what is visible, and the discs, as they were.
LEMMA HiddenSteps ==
    ASSUME IInv, KeptIsTheRest, KeptIsTheRest',
           \/ \E t \in 1 .. MaxTrack : Encode(t) \/ Copy(t)
           \/ \E p \in queue : Choose(p)
           \/ CopyFails
           \/ Revealed
           \/ Remove
    PROVE  UNCHANGED Contract!vars
<1>1. /\ UNCHANGED <<finished, sessions, unripped, job, torn, pod>>
      /\ step = "reveal" => todo = {}
      /\ step' # "reveal"
  BY DEF Encode, Copy, Choose, CopyFails, Revealed, Remove, ripVars, handoffVars, AfterAlbum
<1>2. Showing = {} /\ Showing' = {}
  BY <1>1, NoneIsShowing DEF Showing
<1>3. \A d \in finished : ~Whole(NoFiles, d)
  BY WholeHasFiles DEF IInv, TypeOK, NoFiles
<1>4. SUFFICES \A d \in finished : InInbox(d)' = InInbox(d)
  BY <1>1, <1>2, NothingMoves
<1>5. CASE UNCHANGED inbox
  BY <1>5 DEF InInbox
<1>6. ASSUME NEW t \in 1 .. MaxTrack, Copy(t)
      PROVE  \A d \in finished : InInbox(d)' = InInbox(d)
  <2>1. Busy
    BY <1>6 DEF Copy, Busy
  <2>2. dest \in DOMAIN inbox /\ inbox[dest] \in [hidden : Files, shown : Files]
    BY <2>1, AlbumInHand
  <2>3. DOMAIN inbox' = DOMAIN inbox /\ \A q \in DOMAIN inbox : inbox'[q].shown = inbox[q].shown
    BY <1>6, <2>2 DEF Copy
  <2>4. QED BY <2>3 DEF InInbox
<1>7. ASSUME NEW p \in queue, Choose(p)
      PROVE  \A d \in finished : InInbox(d)' = InInbox(d)
  <2>1. dest' \notin DOMAIN inbox
    BY <1>7, FreeDestIsFree DEF Choose, IInv, TypeOK, StagingIsInHand
  <2>2. /\ DOMAIN inbox' = DOMAIN inbox \cup {dest'}
        /\ \A q \in DOMAIN inbox : inbox'[q] = inbox[q]
        /\ inbox'[dest'].shown = NoFiles
    BY <1>7, <2>1 DEF Choose, Dir0
  <2>3. QED BY <1>3, <2>1, <2>2 DEF InInbox
<1>8. CASE CopyFails
  <2>1. step = "copy" /\ inbox' \in LeftOver
    BY <1>8 DEF CopyFails
  <2>2. inbox[dest].shown = NoFiles
    BY <2>1 DEF AlbumArrives, IInv
  <2>3. /\ DOMAIN inbox' \subseteq DOMAIN inbox
        /\ \A q \in DOMAIN inbox \ {dest} : q \in DOMAIN inbox' /\ inbox'[q] = inbox[q]
        /\ dest \in DOMAIN inbox' => inbox'[dest].shown = NoFiles
    BY <2>1, LeftOverIs
  <2>4. QED BY <1>3, <2>2, <2>3 DEF InInbox
<1>9. QED
  BY <1>5, <1>6, <1>7, <1>8 DEF Encode, Revealed, Remove, ripVars, handoffVars

\* A rip that is over: finished, and with no file in the inbox yet, or given up.
LEMMA RipEnds ==
    ASSUME IInv, EachDiscOnce, KeptIsTheRest, KeptIsTheRest', RipCompletes \/ RipFailed
    PROVE  \E d \in Coming : Contract!Finish(d) \/ Contract!GiveUp(d)
<1>1. /\ step = "idle" /\ job # NoDisc /\ job' = NoDisc
      /\ UNCHANGED <<unripped, inbox, sessions, torn, pod>>
      /\ step' # "reveal"
      /\ RipCompletes => finished' = finished \cup {job}
      /\ RipFailed => finished' = finished
  BY DEF RipCompletes, RipFailed, handoffVars
<1>2. job \in Disc /\ job \notin unripped /\ job \notin torn
  BY <1>1, RipDirIsOpen DEF EachDiscOnce
<1>3. ~InInbox(job) /\ ~\E s \in sessions : Whole(s, job)
  <2>1. ShownIn(job) = {} /\ ~Started(job)
    BY <1>2 DEF EachDiscOnce
  <2>2. \A f : Whole(f, job) => job \in Range(f)
    BY <1>2, TracksOfDisc, InRange DEF Whole
  <2>3. QED BY <2>1, <2>2 DEF InInbox, ShownIn, Started
<1>4. Visible' = Visible /\ Begun' = Begun /\ Showing = {} /\ Showing' = {}
  BY <1>1, <1>3 DEF Visible, Begun, Showing, InInbox
<1>5. job \in Coming /\ Coming' = Coming \ {job}
  BY <1>1, <1>2 DEF Coming
<1>6. CASE RipCompletes
  <2>1. Kept' = Kept \cup {job}
    BY <1>1, <1>2, <1>3, <1>4, <1>6 DEF KeptIsTheRest, Visible
  <2>2. Contract!Finish(job)
    BY <1>1, <1>4, <1>5, <2>1 DEF Contract!Finish
  <2>3. QED BY <1>5, <2>2
<1>7. CASE RipFailed
  <2>1. Kept' = Kept
    BY <1>1, <1>4, <1>7 DEF KeptIsTheRest
  <2>2. Contract!GiveUp(job)
    BY <1>1, <1>4, <1>5, <2>1 DEF Contract!GiveUp
  <2>3. QED BY <1>5, <2>2
<1>8. QED BY <1>6, <1>7

\* When the files have arrived, what is kept in the album in hand begins to be shown.
LEMMA AllCopiedBegins ==
    ASSUME IInv, KeptIsTheRest, KeptIsTheRest', AllCopied
    PROVE  \E discs \in SUBSET Disc : Contract!BeginToShow(discs)
<1>1. /\ step = "copy" /\ step' = "reveal"
      /\ UNCHANGED <<staging, inbox, sessions, unripped, job, finished, torn, pod, album>>
  BY DEF AllCopied, ripVars
<1>2. Visible' = Visible /\ Begun' = Begun /\ Showing = {}
  BY <1>1 DEF Visible, Begun, Showing, InInbox
<1> DEFINE discs == Showing'
<1>3. discs \subseteq Kept
  BY <1>1, <1>2 DEF Showing, KeptIsTheRest
<1>4. discs \in SUBSET Disc
  BY <1>3 DEF Kept, IInv, TypeOK
<1> HIDE DEF discs
<1>5. Kept' = Kept \ discs /\ Showing' = Showing \cup discs
  BY <1>1, <1>2 DEF KeptIsTheRest, discs
<1>6. Contract!BeginToShow(discs)
  BY <1>1, <1>2, <1>3, <1>5 DEF Contract!BeginToShow, Coming
<1>7. QED BY <1>4, <1>6

\* A rename shows the discs whose last track it was.
LEMMA RevealShows ==
    ASSUME IInv, KeptIsTheRest, KeptIsTheRest', NEW t \in 1 .. MaxTrack, Reveal(t)
    PROVE  \E discs \in SUBSET Disc : Contract!Show(discs)
<1>1. /\ step = "reveal" /\ t \in todo
      /\ UNCHANGED <<staging, sessions, unripped, job, finished, torn, pod, step, album>>
  BY DEF Reveal, ripVars
<1>2. /\ dest \in DOMAIN inbox /\ inbox[dest] \in [hidden : Files, shown : Files]
      /\ Agrees(inbox[dest].hidden, staging[album])
      /\ Agrees(inbox[dest].shown, staging[album])
      /\ t \in DOMAIN inbox[dest].hidden
      /\ album \in DOMAIN staging
      /\ DOMAIN inbox[dest].hidden \cap DOMAIN inbox[dest].shown = {}
  BY <1>1, AlbumInHand DEF Busy, AlbumArrives, IInv
<1>3. /\ DOMAIN inbox' = DOMAIN inbox
      /\ \A q \in DOMAIN inbox : q # dest => inbox'[q] = inbox[q]
      /\ inbox'[dest].shown = Over(inbox[dest].shown, [s \in {t} |-> inbox[dest].hidden[t]])
  BY <1>2 DEF Reveal
<1>4. /\ Agrees(inbox[dest].shown, inbox'[dest].shown)
      /\ Agrees(inbox'[dest].shown, staging[album])
  BY <1>1, <1>2, <1>3 DEF Agrees, Over
<1>5. \A d : InInbox(d) => InInbox(d)'
  BY <1>3, <1>4, InboxGrows DEF Agrees
<1>6. \A d : InInbox(d)' /\ ~InInbox(d) => Whole(Staged(album), d)
  <2> SUFFICES ASSUME NEW d, InInbox(d)', ~InInbox(d) PROVE Whole(Staged(album), d)
    OBVIOUS
  <2>1. Whole(inbox'[dest].shown, d)
    BY <1>3 DEF InInbox, Whole
  <2>2. QED BY <1>2, <1>4, <2>1 DEF Whole, Agrees, Staged
<1> DEFINE discs == {d \in finished \ torn : InInbox(d)' /\ ~InInbox(d)}
<1>7. Visible' = Visible \cup discs /\ Begun' = Begun
  BY <1>1, <1>5 DEF Visible, Begun
<1>8. discs \subseteq Showing /\ discs \in SUBSET Disc
  BY <1>1, <1>6 DEF Showing, Visible, IInv, TypeOK
<1>9. Showing' = Showing \ discs
  BY <1>1, <1>7 DEF Showing, Staged
<1> HIDE DEF discs
<1>10. Kept' = Kept
  BY <1>1, <1>7, <1>8, <1>9 DEF KeptIsTheRest
<1>11. Contract!Show(discs)
  BY <1>1, <1>7, <1>8, <1>9, <1>10 DEF Contract!Show, Coming
<1>12. QED BY <1>8, <1>11

\* A rename that fails tears the disc the file is of.
LEMMA RenameFailsTears ==
    ASSUME IInv, EachDiscOnce, KeptIsTheRest, KeptIsTheRest', Begun \subseteq Visible,
           NEW t \in 1 .. MaxTrack, RenameFails(t)
    PROVE  \E discs \in SUBSET Disc : Contract!Tear(discs)
<1> DEFINE e == inbox[dest].hidden[t]
<1>1. /\ step = "reveal" /\ t \in todo /\ torn' = torn \cup {e}
      /\ UNCHANGED <<staging, inbox, sessions, unripped, job, finished, pod, step, album>>
  BY DEF RenameFails, ripVars
<1>2. e \in Range(inbox[dest].hidden)
  BY <1>1, InRange DEF IInv, AlbumArrives
<1> HIDE DEF e
<1>3. e \in Disc /\ album \in StagedIn(e) /\ ~InInbox(e)
  BY <1>1, <1>2, HiddenIsRipped, HiddenNotVisible
<1>4. e \in Kept => e \in Showing
  <2> SUFFICES ASSUME e \in Kept PROVE e \in Showing
    OBVIOUS
  <2>1. PICK p \in DOMAIN staging : Whole(staging[p], e)
    BY DEF Kept
  <2>2. p = album
    BY <1>3, <2>1, WholeInRange DEF StagedIn, EachDiscOnce
  <2>3. QED BY <1>1, <2>1, <2>2 DEF Kept, Showing, Staged
<1>5. Visible' = Visible /\ (\A d : InInbox(d)' = InInbox(d))
  BY <1>1, <1>3 DEF Visible, InInbox
<1>6. Begun' = Begun
  <2>1. e \notin Begun
    BY <1>3 DEF Visible
  <2>2. QED BY <1>1, <2>1 DEF Begun
<1>7. Showing' = Showing \ {e}
  BY <1>1, <1>5 DEF Showing, Staged
<1>8. Kept' = Kept
  <2>1. e \notin Kept
    BY <1>4 DEF Kept
  <2>2. QED BY <1>1, <1>5, <1>7, <2>1 DEF KeptIsTheRest
<1> DEFINE discs == Showing \cap {e}
<1>9. Contract!Tear(discs)
  BY <1>1, <1>5, <1>6, <1>7, <1>8 DEF Contract!Tear, Coming
<1>10. discs \in SUBSET Disc
  BY <1>3
<1>11. QED BY <1>9, <1>10

LEMMA SessionStarts ==
    ASSUME IInv, KeptIsTheRest, KeptIsTheRest', NEW p \in DOMAIN inbox, StartSession(p)
    PROVE  \E discs \in SUBSET Disc : Contract!Start(discs)
<1> DEFINE discs == {d \in finished \ torn : Whole(inbox[p].shown, d)}
<1>1. /\ sessions' = sessions \cup {inbox[p].shown}
      /\ UNCHANGED <<staging, inbox, unripped, job, finished, torn, pod, step, album>>
  BY DEF StartSession, ripVars, handoffVars
<1>2. Visible' = Visible /\ Showing' = Showing
  BY <1>1 DEF Visible, Showing, InInbox, Staged
<1>3. Begun' = Begun \cup discs
  BY <1>1 DEF Begun
<1>4. discs \subseteq Visible /\ discs \in SUBSET Disc
  BY DEF Visible, InInbox, IInv, TypeOK
<1> HIDE DEF discs
<1>5. Kept' = Kept
  BY <1>1, <1>2 DEF KeptIsTheRest
<1>6. Contract!Start(discs)
  BY <1>1, <1>2, <1>3, <1>4, <1>5 DEF Contract!Start, Coming
<1>7. QED BY <1>4, <1>6

LEMMA ImportTakes ==
    ASSUME IInv, KeptIsTheRest, KeptIsTheRest', Begun \subseteq Visible,
           NEW p \in DOMAIN inbox, DeleteImported(p)
    PROVE  \E discs \in SUBSET Disc : Contract!Take(discs)
<1> DEFINE discs == {d \in finished \ torn : Whole(inbox[p].shown, d)}
<1>1. /\ inbox[p].shown \in sessions
      /\ finished' = {d \in finished : ~Whole(inbox[p].shown, d)}
      /\ DOMAIN inbox' = DOMAIN inbox \ {p}
      /\ \A q \in DOMAIN inbox \ {p} : inbox'[q] = inbox[q]
      /\ UNCHANGED <<unripped, job, staging, sessions, torn, pod, step, album>>
  BY DEF DeleteImported, handoffVars, Restrict
<1>2. \A d \in finished' : InInbox(d)' = InInbox(d)
  BY <1>1 DEF InInbox
<1>3. discs \subseteq Begun /\ discs \in SUBSET Disc
  BY <1>1 DEF Begun, IInv, TypeOK
<1>4. /\ finished' \ torn = (finished \ torn) \ discs
      /\ \A d \in finished \ torn : d \in discs => InInbox(d)
  BY <1>1 DEF InInbox
<1> HIDE DEF discs
<1>5. /\ Visible' = Visible \ discs /\ Begun' = Begun \ discs
      /\ Showing' = Showing
  <2>1. Visible' = Visible \ discs /\ Begun' = Begun \ discs
    BY <1>1, <1>2, <1>4 DEF Visible, Begun
  <2>2. Showing' = Showing
    BY <1>1, <1>3, <1>4, <2>1 DEF Visible, Showing, Staged, Begun
  <2>3. QED BY <2>1, <2>2
<1>6. Kept' = Kept
  BY <1>1, <1>3, <1>4, <1>5 DEF KeptIsTheRest, Begun, Visible
<1>7. Contract!Take(discs)
  BY <1>1, <1>3, <1>6, <1>5 DEF Contract!Take, Coming
<1>8. QED BY <1>3, <1>7

\* Nothing kept outlives a restart, and all that is visible does.
LEMMA RestartLoses ==
    ASSUME IInv, EachDiscOnce, KeptIsTheRest, KeptIsTheRest', Begun \subseteq Visible, Restart
    PROVE  Contract!LosePlace
<1>1. /\ job' = NoDisc /\ finished' = {d \in finished : InInbox(d)} /\ step' = "idle"
      /\ torn' = IF step = "reveal" THEN torn \cup Range(inbox[dest].hidden) ELSE torn
      /\ UNCHANGED <<unripped, inbox, sessions>>
  BY DEF Restart
<1>2. Visible' = Visible /\ Showing' = {}
  <2>1. \A d \in torn' \ torn : ~InInbox(d)
    BY <1>1, HiddenNotVisible
  <2>2. torn \subseteq torn' /\ \A d : InInbox(d)' = InInbox(d)
    BY <1>1 DEF InInbox
  <2>3. QED BY <1>1, <2>1, <2>2 DEF Visible, Showing
<1>3. Begun' = Begun
  <2>1. \A d \in Visible : d \in finished' \ torn'
    BY <1>2 DEF Visible
  <2>2. finished' \ torn' \subseteq finished \ torn
    BY <1>1
  <2>3. QED BY <1>1, <2>1, <2>2 DEF Begun
<1>4. Kept' = {} /\ pod' # pod
  <2>1. finished' \ torn' \subseteq Visible'
    BY <1>1 DEF Visible, InInbox
  <2>2. pod' # pod
    BY DEF Restart, IInv, TypeOK
  <2>3. QED BY <2>1, <2>2 DEF KeptIsTheRest
<1>5. Coming' \in {Coming} \cup {Coming \ {d} : d \in Coming}
  <2>1. CASE job = NoDisc \/ job \in unripped
    BY <1>1, <2>1 DEF Coming
  <2>2. CASE job # NoDisc /\ job \notin unripped
    BY <1>1, <2>2 DEF Coming
  <2>3. QED BY <2>1, <2>2
<1>6. QED BY <1>2, <1>3, <1>4, <1>5 DEF Contract!LosePlace

\* Each step of the handoff is one of the contract, or leaves its variables alone.
LEMMA ContractNext ==
    ASSUME IInv, EachDiscOnce, KeptIsTheRest, KeptIsTheRest', Begun \subseteq Visible,
           [Next]_vars
    PROVE  [Contract!Next]_(Contract!vars)
<1>1. CASE \E d \in Disc : Insert(d)
  <2>1. PICK d \in Disc : Insert(d)
    BY <1>1
  <2>2. /\ job = NoDisc /\ job' = d /\ d \in unripped /\ unripped' = unripped \ {d}
        /\ d # NoDisc /\ step = "idle"
        /\ UNCHANGED <<inbox, finished, sessions, torn, pod, step>>
    BY <2>1, AudioHandoffAssumption DEF Insert, handoffVars
  <2>3. Visible' = Visible /\ Begun' = Begun /\ Showing = {} /\ Showing' = {}
    BY <2>2 DEF Visible, Begun, Showing, InInbox
  <2>4. Kept' = Kept
    BY <2>2, <2>3 DEF KeptIsTheRest
  <2>5. QED BY <2>2, <2>3, <2>4 DEF Contract!vars, Coming
<1>2. CASE RipCompletes \/ RipFailed
  BY <1>2, RipEnds DEF Contract!Next
<1>3. CASE \E t \in 1 .. MaxTrack : Reveal(t)
  BY <1>3, RevealShows DEF Contract!Next
<1>4. CASE \E p \in DOMAIN inbox : StartSession(p)
  BY <1>4, SessionStarts DEF Contract!Next
<1>5. CASE \E p \in DOMAIN inbox : DeleteImported(p)
  BY <1>5, ImportTakes DEF Contract!Next
<1>6. CASE Restart
  BY <1>6, RestartLoses DEF Contract!Next
<1>7. CASE UNCHANGED vars
  BY <1>7 DEF vars, Contract!vars, Coming, Kept, Showing, Visible, Begun, InInbox, Staged
<1>8. CASE \/ \E t \in 1 .. MaxTrack : Encode(t) \/ Copy(t)
           \/ \E p \in queue : Choose(p)
           \/ CopyFails \/ Revealed \/ Remove
  BY <1>8, HiddenSteps
<1>9. CASE AllCopied
  BY <1>9, AllCopiedBegins DEF Contract!Next
<1>10. CASE \E t \in 1 .. MaxTrack : RenameFails(t)
  BY <1>10, RenameFailsTears DEF Contract!Next
<1>11. QED
  BY <1>1, <1>2, <1>3, <1>4, <1>5, <1>6, <1>7, <1>8, <1>9, <1>10 DEF Next

\* By the contract's steps, work starts only on what is shown and not yet taken.
LEMMA BegunIsVisible == Spec => [](Begun \subseteq Visible)
<1>1. Init => Begun \subseteq Visible
  BY ContractInit DEF Contract!Init
<1>2. IInv /\ EachDiscOnce /\ KeptIsTheRest /\ KeptIsTheRest' /\ Begun \subseteq Visible
        /\ [Next]_vars => (Begun \subseteq Visible)'
  <2> SUFFICES ASSUME IInv, EachDiscOnce, KeptIsTheRest, KeptIsTheRest',
                      Begun \subseteq Visible, [Next]_vars
               PROVE  (Begun \subseteq Visible)'
    OBVIOUS
  <2>1. [Contract!Next]_(Contract!vars)
    BY ContractNext
  <2>2. QED
    BY <2>1 DEF Contract!Next, Contract!vars, Contract!Finish, Contract!GiveUp,
                Contract!BeginToShow, Contract!Show, Contract!Tear, Contract!Start,
                Contract!Take, Contract!LosePlace
<1>3. QED BY <1>1, <1>2, InductiveInvariant, OnceInductive, RestIsKept, PTL DEF Spec

\* The handoff implements its contract: what is finished is kept until the renames
\* show it, only another pod loses it before, only a rename that fails, or another
\* pod, while they do, and what is visible with every track goes only with its
\* import.
THEOREM ImplementsContract == Spec => KeepsContract
<1>1. Spec => [](IInv /\ EachDiscOnce /\ KeptIsTheRest /\ Begun \subseteq Visible)
  BY InductiveInvariant, OnceInductive, RestIsKept, BegunIsVisible, PTL
<1>2. IInv /\ EachDiscOnce /\ KeptIsTheRest /\ KeptIsTheRest' /\ Begun \subseteq Visible
        /\ [Next]_vars => [Contract!Next]_(Contract!vars)
  BY ContractNext
<1>3. QED BY <1>1, <1>2, ContractInit, PTL DEF Spec, KeepsContract, Contract!Spec
=============================================================================
