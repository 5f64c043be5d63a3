---------------------------- MODULE AudioHandoff ----------------------------
(***************************************************************************)
(* CD rips on their way into the beets-flask inbox                         *)
(* (kubernetes/apps/automatic-ripping-machine/init-scripts.yaml,           *)
(* arm-audio-handoff.sh).                                                  *)
(*                                                                         *)
(* abcde encodes a disc track by track into a directory of container-local *)
(* staging named after the album.  ARM then runs the handoff, which copies *)
(* every staged album into the inbox under hidden names, renames the files *)
(* once all have arrived, and removes the album from staging whether they  *)
(* could all be renamed or not.  beets-flask watches the inbox and starts  *)
(* a session on an album that has stopped changing.  A restarted pod loses *)
(* its staging; the inbox stays.                                           *)
(*                                                                         *)
(* The inbox is on a share, where a copy, a rename or a removal may fail.  *)
(* Staging is on the container's own disk, where they are taken to work.   *)
(*                                                                         *)
(* There is one drive and a job holds its lock until the notifications it  *)
(* sends have returned, so no disc is ripped while the handoff runs.       *)
(***************************************************************************)
EXTENDS Naturals, Sequences, FiniteSets, Functions

CONSTANTS Disc,              \* discs someone inserts, each once
          NoDisc,            \* no disc in the drive
          NameOf,            \* the album name abcde finds for a disc
          Tracks,            \* how many tracks a disc has
          MaxTrack,          \* the most a disc may have
          MaxCopyFailures    \* bound: copies that fail

ASSUME AudioHandoffAssumption ==
    /\ NoDisc \notin Disc
    /\ MaxTrack \in Nat
    /\ Tracks \in [Disc -> 1 .. MaxTrack]
    /\ DOMAIN NameOf = Disc
    /\ MaxCopyFailures \in Nat

VARIABLES unripped,  \* discs not inserted yet
          job,       \* the disc being ripped, or NoDisc
          staging,   \* album directories and the files in them
          inbox,     \* the same, and whether each file has its final name
          step,      \* where the handoff is
          queue,     \* the directories its glob found and it has yet to handle
          album,     \* the directory it is handling
          dest,      \* where that goes in the inbox
          todo,      \* files its loop has yet to copy, or to rename
          failures,  \* copies that failed so far
          finished,  \* discs ripped whole and not lost with a pod since
          sessions,  \* what beets-flask has started sessions on
          botched,   \* history: discs whose rip failed
          torn,      \* history: discs with a file left hidden, by a rename that
                     \* failed or by a pod dead between two
          pod        \* history: changes with each pod

vars == <<unripped, job, staging, inbox, step, queue, album, dest, todo, failures,
          finished, sessions, botched, torn, pod>>
ripVars == <<unripped, job, finished, botched>>
handoffVars == <<step, queue, album, dest, todo, failures>>

\* A directory of staging: an album, or one moved aside by failed handoff n.
Dir == [name : Range(NameOf), aside : 0 .. MaxCopyFailures]

\* Its destination, with the number appended to the name; 1 for none.
Dest == [name : Range(NameOf), aside : 0 .. MaxCopyFailures,
         suffix : Nat \ {0}]

NoDest == [name |-> "", aside |-> 0, suffix |-> 0]

\* A file's name is its track number; its content is the disc it came from.
Files == UNION {[S -> Disc] : S \in SUBSET (1 .. MaxTrack)}

NoFiles == [t \in {} |-> NoDisc]

\* The files of a directory f, with those of g written over them.
Over(f, g) == [t \in DOMAIN f \cup DOMAIN g |-> IF t \in DOMAIN g THEN g[t] ELSE f[t]]

Whole(f, d) == \A t \in 1 .. Tracks[d] : t \in DOMAIN f /\ f[t] = d

TypeOK ==
    /\ unripped \subseteq Disc
    /\ job \in Disc \cup {NoDisc}
    /\ DOMAIN staging \subseteq Dir /\ Range(staging) \subseteq Files
    /\ DOMAIN inbox \subseteq Dest
    /\ Range(inbox) \subseteq [hidden : Files, shown : Files]
    /\ step \in {"idle", "choose", "copy", "reveal", "remove"}
    /\ queue \subseteq Dir
    /\ failures \in 0 .. MaxCopyFailures
    /\ finished \subseteq Disc
    /\ sessions \subseteq Files
    /\ botched \subseteq Disc /\ torn \subseteq Disc
    /\ pod \in {0, 1}

Init ==
    /\ unripped = Disc
    /\ job = NoDisc
    /\ staging = <<>>
    /\ inbox = <<>>
    /\ step = "idle"
    /\ queue = {}
    /\ album = NoDest
    /\ dest = NoDest
    /\ todo = {}
    /\ failures = 0
    /\ finished = {}
    /\ sessions = {}
    /\ botched = {}
    /\ torn = {}
    /\ pod = 0

-----------------------------------------------------------------------------
(* ARM and abcde.                                                          *)

Insert(d) ==
    /\ job = NoDisc
    /\ step = "idle"
    /\ d \in unripped
    /\ unripped' = unripped \ {d}
    /\ job' = d
    /\ UNCHANGED <<staging, inbox, finished, sessions, botched, torn, pod>>
    /\ UNCHANGED handoffVars

RipDir(d) == [name |-> NameOf[d], aside |-> 0]

Staged(p) == IF p \in DOMAIN staging THEN staging[p] ELSE NoFiles

\* abcde moves an encoded track into the album's directory, whatever is there.
Encode(t) ==
    /\ job # NoDisc
    /\ step = "idle"
    /\ t \in 1 .. Tracks[job]
    /\ \A s \in 1 .. t - 1 : s \in DOMAIN Staged(RipDir(job)) /\ Staged(RipDir(job))[s] = job
    /\ ~(t \in DOMAIN Staged(RipDir(job)) /\ Staged(RipDir(job))[t] = job)
    /\ staging' = [p \in DOMAIN staging \cup {RipDir(job)} |->
                    IF p = RipDir(job) THEN Over(Staged(p), [s \in {t} |-> job])
                                       ELSE staging[p]]
    /\ UNCHANGED <<inbox, sessions, torn, pod>>
    /\ UNCHANGED ripVars
    /\ UNCHANGED handoffVars

\* "Music CD: ... processing complete.": the glob takes in all of staging.
RipCompletes ==
    /\ job # NoDisc
    /\ step = "idle"
    /\ Whole(Staged(RipDir(job)), job)
    /\ finished' = finished \cup {job}
    /\ job' = NoDisc
    /\ step' = "choose"
    /\ queue' = DOMAIN staging
    /\ UNCHANGED <<unripped, staging, inbox, album, dest, todo, failures, sessions,
                   botched, torn, pod>>

\* A rip that fails says so in another message, which the script leaves alone.
RipFailed ==
    /\ job # NoDisc
    /\ step = "idle"
    /\ job' = NoDisc
    /\ botched' = botched \cup {job}
    /\ UNCHANGED <<unripped, staging, inbox, finished, sessions, torn, pod>>
    /\ UNCHANGED handoffVars

-----------------------------------------------------------------------------
(* The handoff.                                                            *)

\* Fault: no suffix, so that an album goes on top of one of the same name.
TakenDest(p) ==
    [name |-> p.name, aside |-> p.aside, suffix |-> 1]

\* Fault: the suffixes counted from zero.
FreeDestFromZero(p) ==
    LET candidate(n) == [name |-> p.name, aside |-> p.aside, suffix |-> n]
        free == {n \in 0 .. Cardinality(DOMAIN inbox) : candidate(n) \notin DOMAIN inbox}
    IN candidate(CHOOSE n \in free : \A m \in free : n <= m)

\* The first free name: "name", "name (2)", "name (3)", ...  One of the first
\* Cardinality(DOMAIN inbox) + 1 is.
FreeDest(p) ==
    LET candidate(n) == [name |-> p.name, aside |-> p.aside, suffix |-> n]
        free == {n \in 1 .. Cardinality(DOMAIN inbox) + 1 : candidate(n) \notin DOMAIN inbox}
    IN candidate(CHOOSE n \in free : \A m \in free : n <= m)

Dir0(p) == IF p \in DOMAIN inbox THEN inbox[p] ELSE [hidden |-> NoFiles, shown |-> NoFiles]

Choose(p) ==
    /\ step = "choose"
    /\ p \in queue
    /\ album' = p
    /\ dest' = FreeDest(p)
    /\ inbox' = [q \in DOMAIN inbox \cup {dest'} |-> Dir0(q)]
    /\ todo' = DOMAIN staging[p]
    /\ queue' = queue \ {p}
    /\ step' = "copy"
    /\ UNCHANGED <<staging, failures, sessions, torn, pod>>
    /\ UNCHANGED ripVars

Copy(t) ==
    /\ step = "copy"
    /\ t \in todo
    /\ inbox' = [inbox EXCEPT ![dest].hidden = Over(@, [s \in {t} |-> staging[album][t]])]
    /\ todo' = todo \ {t}
    /\ UNCHANGED <<staging, step, queue, album, dest, failures, sessions, torn, pod>>
    /\ UNCHANGED ripVars

AfterAlbum == IF queue = {} THEN "idle" ELSE "choose"

\* The inbox without dest's hidden files, and without dest if it is then empty.
Cleared ==
    LET left == [inbox EXCEPT ![dest].hidden = NoFiles]
    IN IF left[dest].shown = NoFiles THEN Restrict(left, DOMAIN left \ {dest}) ELSE left

\* What the clean-up of dest may leave: everything gone, or, on a share that does
\* not answer, the directory and any of its hidden files.
LeftOver == {Cleared} \cup {[inbox EXCEPT ![dest].hidden = Restrict(@, left)] :
                              left \in SUBSET DOMAIN inbox[dest].hidden}

\* Fault: the album not moved aside.
CopyFailsInPlace ==
    /\ step = "copy"
    /\ todo # {}
    /\ failures < MaxCopyFailures
    /\ failures' = failures + 1
    /\ inbox' \in LeftOver
    /\ step' = AfterAlbum
    /\ UNCHANGED <<staging, queue, album, dest, todo, sessions, torn, pod>>
    /\ UNCHANGED ripVars

\* A copy fails: what has arrived of the album is removed, if it can be, and the
\* rip is moved aside under a name of its own.
CopyFails ==
    /\ step = "copy"
    /\ todo # {}
    /\ failures < MaxCopyFailures
    /\ failures' = failures + 1
    /\ inbox' \in LeftOver
    /\ staging' = LET aside == [album EXCEPT !.aside = failures + 1]
                  IN [p \in (DOMAIN staging \ {album}) \cup {aside} |->
                        IF p = aside THEN staging[album] ELSE staging[p]]
    /\ step' = AfterAlbum
    /\ UNCHANGED <<queue, album, dest, todo, sessions, torn, pod>>
    /\ UNCHANGED ripVars

\* Fault: staging emptied before the renames.
RemovedBeforeReveal ==
    /\ step = "copy"
    /\ todo = {}
    /\ staging' = Restrict(staging, DOMAIN staging \ {album})
    /\ step' = "reveal"
    /\ todo' = DOMAIN inbox[dest].hidden
    /\ UNCHANGED <<inbox, queue, album, dest, failures, sessions, torn, pod>>
    /\ UNCHANGED ripVars

AllCopied ==
    /\ step = "copy"
    /\ todo = {}
    /\ step' = "reveal"
    /\ todo' = DOMAIN inbox[dest].hidden
    /\ UNCHANGED <<staging, inbox, queue, album, dest, failures, sessions, torn, pod>>
    /\ UNCHANGED ripVars

Reveal(t) ==
    /\ step = "reveal"
    /\ t \in todo
    /\ todo' = todo \ {t}
    /\ inbox' = [inbox EXCEPT
                    ![dest].shown = Over(@, [s \in {t} |-> inbox[dest].hidden[t]]),
                    ![dest].hidden = Restrict(@, DOMAIN @ \ {t})]
    /\ UNCHANGED <<staging, step, queue, album, dest, failures, sessions, torn, pod>>
    /\ UNCHANGED ripVars

\* Nothing looks at mv's status: the file stays hidden and the loop goes on.
RenameFails(t) ==
    /\ step = "reveal"
    /\ t \in todo
    /\ todo' = todo \ {t}
    /\ torn' = torn \cup {inbox[dest].hidden[t]}
    /\ UNCHANGED <<staging, inbox, step, queue, album, dest, failures, sessions, pod>>
    /\ UNCHANGED ripVars

\* The loop is over, whatever of the album is still hidden.
Revealed ==
    /\ step = "reveal"
    /\ todo = {}
    /\ step' = "remove"
    /\ UNCHANGED <<staging, inbox, queue, album, dest, todo, failures, sessions, torn, pod>>
    /\ UNCHANGED ripVars

\* Fault: the album left in staging.
AlbumLeft ==
    /\ step = "remove"
    /\ step' = AfterAlbum
    /\ UNCHANGED <<staging, inbox, queue, album, dest, todo, failures, sessions, torn, pod>>
    /\ UNCHANGED ripVars

Remove ==
    /\ step = "remove"
    /\ staging' = Restrict(staging, DOMAIN staging \ {album})
    /\ step' = AfterAlbum
    /\ UNCHANGED <<inbox, queue, album, dest, todo, failures, sessions, torn, pod>>
    /\ UNCHANGED ripVars

-----------------------------------------------------------------------------
(* beets-flask, and the pod.                                               *)

\* An album quiet for 30 s.  The renames of one album take milliseconds, so
\* none is between two of its own.
StartSession(p) ==
    /\ p \in DOMAIN inbox
    /\ ~(step = "reveal" /\ p = dest)
    /\ inbox[p].shown # NoFiles
    /\ sessions' = sessions \cup {inbox[p].shown}
    /\ UNCHANGED <<staging, inbox, torn, pod>>
    /\ UNCHANGED ripVars
    /\ UNCHANGED handoffVars

\* delete_imported_folders: an imported album leaves the inbox by hand.
DeleteImported(p) ==
    /\ p \in DOMAIN inbox
    /\ inbox[p].shown \in sessions
    /\ ~(step \in {"copy", "reveal", "remove"} /\ p = dest)
    /\ finished' = {d \in finished : ~Whole(inbox[p].shown, d)}
    /\ inbox' = Restrict(inbox, DOMAIN inbox \ {p})
    /\ UNCHANGED <<unripped, job, staging, sessions, botched, torn, pod>>
    /\ UNCHANGED handoffVars

InInbox(d) == \E p \in DOMAIN inbox : Whole(inbox[p].shown, d)

\* Staging is container-local: what was not handed off is gone.
Restart ==
    /\ job # NoDisc \/ step # "idle" \/ staging # <<>>
    /\ pod' = 1 - pod
    /\ torn' = IF step = "reveal" THEN torn \cup Range(inbox[dest].hidden) ELSE torn
    /\ job' = NoDisc
    /\ staging' = <<>>
    /\ finished' = {d \in finished : InInbox(d)}
    /\ step' = "idle"
    /\ queue' = {}
    /\ todo' = {}
    /\ UNCHANGED <<unripped, inbox, album, dest, failures, sessions, botched>>

Next ==
    \/ \E d \in Disc : Insert(d)
    \/ \E t \in 1 .. MaxTrack : Encode(t) \/ Copy(t) \/ Reveal(t) \/ RenameFails(t)
    \/ RipCompletes
    \/ RipFailed
    \/ \E p \in queue : Choose(p)
    \/ CopyFails
    \/ AllCopied
    \/ Revealed
    \/ Remove
    \/ \E p \in DOMAIN inbox : StartSession(p) \/ DeleteImported(p)
    \/ Restart

Spec == Init /\ [][Next]_vars

-----------------------------------------------------------------------------
(* Properties.                                                             *)

\* "A partially-copied album is never visible as an album", and two discs are not one,
\* up to the failures the script does not handle: copies that fail, albums of one
\* name, imports and restarts at any other point show no disc in pieces, only its own
\* rip that failed does, or its own file left hidden by a rename that failed or that a
\* dead pod never came to; and no album shows two discs unless the rip of one failed.
SpoiltByFailuresOnly ==
    \A s \in sessions : \A d \in Range(s) :
        /\ Whole(s, d) \/ d \in botched \cup torn
        /\ \A e \in Range(s) : d = e \/ d \in botched \/ e \in botched

\* A disc ripped whole is somewhere: it is whole in staging, or whole and visible
\* in the inbox.
Somewhere(d) ==
    \/ \E p \in DOMAIN staging : Whole(staging[p], d)
    \/ InInbox(d)

\* While the pod lives, through copies that fail, equal names and the removal of
\* imported albums; but for a disc with a file that could not be renamed, which
\* is visible in part or not at all and is removed from staging all the same.
FinishedRipIsSomewhere == \A d \in finished \ torn : Somewhere(d)

\* "Moves a finished CD rip from container-local staging into the beets-flask inbox, in
\* a way that never shows a partial album": both halves, without the exceptions of the
\* two properties above.  Already the first does not hold: after a rename that fails the
\* album is removed from staging all the same.
HandsOffWhole ==
    /\ \A d \in finished : Somewhere(d)
    /\ \A s \in sessions : \A d \in Range(s) : Whole(s, d)

\* The handoff keeps no record of what it has handed off, so that an album goes
\* once rests on where its files are: "Always, so the next rip cannot merge into
\* what is left here".  No disc is visible in two albums of the inbox, and none
\* that beets-flask has started on is still in staging, but for the album about
\* to be removed -- through copies that fail and are tried again under another
\* name, renames that fail, equal names, imports deleted and restarts.
HandedOffOnce ==
    /\ \A p, q \in DOMAIN inbox :
          Range(inbox[p].shown) \cap Range(inbox[q].shown) # {} => p = q
    /\ \A s \in sessions, p \in DOMAIN staging :
          Range(s) \cap Range(staging[p]) # {} => step = "remove" /\ p = album

\* The discs whose rip is not over; of the finished ones that are not torn those
\* visible with every track, those being renamed in the inbox, those yet to be, and
\* those a session was started on.
Coming == unripped \cup ({job} \ {NoDisc})

Visible == {d \in finished \ torn : InInbox(d)}

Showing ==
    {d \in finished \ (torn \cup Visible) : step = "reveal" /\ Whole(Staged(album), d)}

Kept ==
    {d \in finished \ (torn \cup Visible \cup Showing) :
        \E p \in DOMAIN staging : Whole(staging[p], d)}

Begun == {d \in finished \ torn : \E s \in sessions : Whole(s, d)}

Contract == INSTANCE HandoffContract WITH
    place <- pod,
    coming <- Coming,
    kept <- Kept,
    showing <- Showing,
    shown <- Visible,
    started <- Begun

\* The handoff keeps its promise: a finished rip is in staging until it is shown;
\* nothing but another pod loses it before, nothing but a rename that fails while
\* it is being shown, and nothing but its import being deleted, on which a session
\* was started, after; and none comes back.
KeepsContract == Contract!Spec
=============================================================================
