# A model of the parts of vulcanus-proxmox that keep things safe

The repository runs a home estate: a Proxmox host, NixOS containers and VMs on
it, and a Kubernetes cluster. Most of it is configuration. What is program --
what reads state, decides and acts -- is there to keep data: backups and their
offsite copy, the checks that say when a backup did not happen, and the ripping
of discs, the seeding of a music database from it, and the mirrors of the code.
These modules model that program, TLC checks them on small instances, and TLAPS
proves what matters most of all of them for every instance.

Paths below are relative to the repository.

## The system

| Component | State it keeps | Operations | Hard about it |
|---|---|---|---|
| **PBS #2's daily chain** (`nixos/hosts/pbs-offsite/{pbs_offsite.py,default.nix}`, `nixos/modules/pbs.nix`) | the offsite datastore and its protected flags | pull, mirror the flags, prune to keep-last | three programs in a row, any of which may fail half-way, beside a primary that goes on changing |
| **PBS #2's freshness assertion** (same file, `assess`, `freshness`) | none; reads both stores | a verdict a day | limits that have to fit a schedule, and a pull that strips what a verify recorded |
| **PBS coverage assertion** (`ansible/files/pbs_freshness.py`, `ansible/backup-monitoring.yaml`) | none; reads PVE and the primary | a verdict a day | guests, scope and groups that change under it; ages rounded to hours |
| **VMID-reuse alerts** (`reuse_alerts` and what it calls, same file) | none, on purpose: the ladder is read off the group | pushes | a stateless ladder over a group that is pruned, protected and deleted from |
| **Kubernetes backup coverage** (`kubernetes/k8up/coverage/`, `kubernetes/k8up/*/schedules.yaml`) | none; reads the cluster and the restic repository | a verdict every six hours | backups that "succeed" without taking anything; limits that have to fit a schedule |
| **restic repository host** (`nixos/hosts/restic-repository/default.nix`) | the repository | its own backup, check, prune, keep-tag | restic's locks, and units that retry |
| **ARM disc wrapper** (`kubernetes/apps/automatic-ripping-machine/init-scripts.yaml`, `arm-disc-wrapper.sh`) | a lock file | one process for each udev event | events that race each other and the drive |
| **CD rip handoff** (same file, `arm-audio-handoff.sh`) | container-local staging, the inbox | copy, reveal, remove | a watcher on the inbox, albums of one name, a pod that dies |
| **ARM duplicate titles** (same file) | tracks of a job, and a record of what was skipped | choose the titles to rip | an algorithm over which tests hold a few discs |
| **ARM source patches, whole-disc backup, title charset** (same file) | ARM's own source files; a raw folder's `arm-job.json` | edit the sources at container start; a job's stamps | a stamp written at four moments of a job that may die between any two |
| **ARM stamps** (`tools/arm-stamps/stamps.py`) | the stamps of raw folders | plan from database, logs and folders; write one by one | names of logs and folders that pass from one job to another, and jobs that stamp meanwhile |
| **Soft Serve mirror** (`kubernetes/apps/soft-serve/{mirror_plan.py,mirror_sync.sh}`) | bare repositories, in Soft Serve | list, import, compare refs | a listing read page by page while it changes, refs read one after the other, partial failures |
| **mb-seed** (`tools/mb-seed/`) | a ledger file, cover files, and in each server a queue and its own copy of the ledger | seed, capture or record a release, save a cover | books addressed by their place in a queue that a restart may change; a ledger read once and rewritten whole |
| **beets** (`kubernetes/apps/beets/`) | a third-party library | hooks | import stages |
| **Cloudflare gateway policy** (`kubernetes/apps/cloudflare-gateway/`) | one Kubernetes object | reconcile | an empty address list |
| **ZFS pool health, review threads, other scripts and configuration** | none | report | -- |

How they interact: vzdump writes to the primary PBS, where the coverage
assertion and the reuse alerts read. PBS #2 pulls from the primary and reads its
flags. The offsite assertion reads both stores. Every verdict reaches
healthchecks as a ping, pass or fail, and is gone then: a check that is silent
turns red on its own period, so what has to be right is that a *pass* is
deserved and that a *failure* means something. On the ripping side udev starts
wrappers, a wrapper becomes the ARM job, ARM starts abcde, and on its "processing
complete" the handoff; beets-flask watches the inbox. The jobs stamp their raw
folders, and the stamp tool, run by hand in the same container, brings older
stamps to today's form. mb-seed is used by hand beside beets. What makes each of them
correct is said property by property below.

`PROJECT.json` lists all components, the line each hazard bites at, and for each
definition the lines it models. K8up, restic, PBS, PVE, ARM, abcde, beets-flask,
MusicBrainz, GitHub, Soft Serve, udev and the drive are not part of the repository; the modules model them from
what the code and its comments say of them, nondeterministically where these are
silent.

## Modules

| Module | Models | Instance |
|---|---|---|
| `RetentionContract` | what an offsite store promises, abstractly | through `PbsOffsite` |
| `PbsOffsite` | the daily chain beside the primary | `MCPbsOffsite` |
| `PbsOffsiteFreshness` | `assess` and `freshness` against the schedule | `MCPbsOffsiteFreshness` |
| `PbsOffsiteProofs` | the inductive invariants and theorems of `PbsOffsite` and `PbsOffsiteFreshness` | -- |
| `PbsFreshness` | `classify` and `main` of `pbs_freshness.py` | `MCPbsFreshness` |
| `PbsFreshnessProofs` | its theorems, for any schedule | -- |
| `VmidReuse` | `summarise_group`, `reuse_alerts`, `notify_reuse` | `MCVmidReuse` |
| `VmidReuseProofs` | its inductive invariant and theorems, for any keep-last and rungs | -- |
| `BackupCoverage` | `parse_snapshots` to `classify` and `main` | `MCBackupCoverage` |
| `BackupCoverageProofs` | its inductive invariant and theorems | -- |
| `DiscWrapper` | `arm-disc-wrapper.sh` | `MCDiscWrapper` |
| `HandoffContract` | what a handoff owes a finished rip, abstractly | through `AudioHandoff` |
| `AudioHandoff` | `arm-audio-handoff.sh` | `MCAudioHandoff` |
| `DiscToInboxProofs` | the inductive invariants and theorems of `DiscWrapper` and `AudioHandoff` | -- |
| `ArmStamps` | `stamps.py`, and the stamps of ARM's jobs | `MCArmStamps` |
| `ArmStampsProofs` | its inductive invariant and theorems | -- |
| `MbSeed` | `seed.py`'s servers, ledger and covers, over `manifest.py`'s books | `MCMbSeed` |
| `MbSeedProofs` | its inductive invariant and theorems | -- |
| `SoftServeMirror` | `mirror_plan.py` and `mirror_sync.sh` | `MCSoftServeMirror` |
| `SoftServeMirrorProofs` | its inductive invariant and theorems | -- |

Two proof modules extend two specifications each: the two ends of PBS #2's day, and the
two scripts a disc goes through. No two of these share a variable; so that they can be
named side by side, the definitions of one of each pair carry its name (`FreshnessSpec`,
`WrapperSpec`).

### PbsOffsite

The stores are sets of snapshots, a snapshot being a group and a time;
protection is a subset. `pc` says where `pbs-offsite-daily` is. `Pull` and
`Prune` stand for the two PBS jobs, with `PullFails` and `PruneFails` leaving any
part done. The mirror is not one step: `ListPrimary` and `ListLocal` are the two
reads of `mirror()`, `PlanMirror` is `plan_mirror`, and `SetProtected` sets one
flag. `ChainStops` is `set -e`, at any point. Meanwhile `Backup`, `Protect`,
`Unprotect` and `ForgetPrimary` happen on the primary, and `UnprotectHere` and
`ForgetHere` are what somebody does about the copies `assess` and `plan_mirror`
report. A pull may or may not bring back a snapshot the prune here evicted;
the code does not depend on it, so the model allows both.

`mirror()` sets the flags in the order of group and time. The model allows any
order: it has more behaviours than the code, and what holds of it holds of the
code.

`PbsOffsite` implements `RetentionContract`: what it must not lose is what the
listing of the chain under way showed as protected and the primary still holds;
a copy leaves only by an eviction that leaves `Keep` newer ones of its group,
after the marks were read, or by hand once the primary no longer has it.

### PbsOffsiteFreshness

One group, its copies, and the events of a day at their deployed hours, in hours
since midnight of day 0: backup (10 or 11 by season), pull (12), on a Sunday the
verify (14), the check (18). `Resynced` is what the docstring of `assess` says
of a pull: the newest copy arrives anew when its manifest differs from the
primary's, as a verify here or there makes it.

### PbsFreshness and VmidReuse

`PbsFreshness` has the live guests (`/etc/pve/.vmlist`), the vzdump job's scope,
the groups, and a day of a run and a check in half-hours: 04:00 the run, 08:00
the check, 26 h the limit. Guests come and go and change type under a VMID, the
job is disabled or narrowed, groups are emptied. `CheckFails` is the `except` of
`main`; a lost push adds a problem.

`VmidReuse` follows one group through re-issues of its VMID. A check reads the
identities at both ends and then counts; `ends` and `counted` are the positions
whose read succeeded. A backup here is its machine and its protection. `left` is
what the last push said of the runs to come, for as long as nobody touches the
group, and whether the earlier machine's backups were then the oldest of all
(`together`): a machine whose VMID came back to it may have backups on both sides of
another's, which the count at the push does not tell from a row of its own. `lifted`
is that a protection was lifted since a check last found the group no fuller than
keep-last: nobody is told of it, and the next run may evict more than one.
`VmidReuseAssumption` asks for what `REUSE_RUNGS` has, a ladder that ends in 1, and a
keep-last above 1.

### BackupCoverage

One item, a claim's volume or a dump, in quarter-hours: the runs at 01:00, 07:00,
13:00 and 19:00 and the checks at :45 past the second hour after. A run takes the
item or does not, and reports success in both cases (k8up#1032), possibly late by
`MaxLate`. The check is two steps, because `collect_snapshots` lists first and
`inspect_dumps` reads the newest dump afterwards; a backup by hand may land
between. `Declare` is an annotation, an access mode or a deletion; `Replace` a
pod replaced by another. Sizes are small numbers around `SHRINK_FLOOR_BYTES` and
its half; a dump is one file, so it has nothing beside it that a recount would leave out.
A volume is empty when it holds no files (`files`), which may hold no bytes. `hand` tells
the backups made by hand, or again by a retry, from the scheduled runs'; the check
cannot.

### DiscWrapper

Each process is at one of the script's steps; what it asks (status, udev's
database) and what it does with the answer are separate steps, and events come in
between. The drive loads a disc in three steps, each of which owes an event; the
kernel merges events, so at most two are owed. A job holds the tray locked.

### AudioHandoff

A file is its track number and its content the disc it came from, so that an
album of two discs can be told from a whole one. `Copy` and `Reveal` go file by
file. The inbox is on a share, so each copy may fail (`CopyFails`, after which the
clean-up may leave anything hidden, `LeftOver`), and so may each rename: `mv`'s status is
not looked at, so `RenameFails` leaves the file hidden and goes on, and `Remove` empties
staging whatever is still hidden. Staging is on the container's own disk, where the
moves and removals are taken to work. `Restart` empties staging at any point, and is the
only step that changes `pod`; `StartSession` is beets-flask finding an album quiet.
`botched` are the discs whose rip failed and `torn` those with a file left hidden, by a
rename that failed or by a pod dead between two. `Tracks`, the tracks of each disc, is a constant; the suffix
a destination gets when its name is taken is any positive number, and the first free
one never passes the number of albums there are (`FreeDest`).

`AudioHandoff` implements `HandoffContract`, which knows discs and no files: one whose
rip is finished is kept (`Kept`, in staging) until the handoff begins to show it
(`Showing`, while its files are renamed). It is then shown (`Visible`, with every track)
or torn, and what is shown goes only by being taken, after work on it has started
(`Begun`). All that is kept or about to be shown, and nothing that is shown, is lost
with the place it is in: `LosePlace` changes `place`, which is `pod`, so that no step
but a restart is one. The contract says nothing of a rip that failed, which may be
visible in pieces, nor of what becomes of a torn one.

### ArmStamps

Jobs run one after another, from discs of one label, so that folders and logs
contend for their names; a folder's stamp is one of `Stamp`, or none, and no stamp is
mistaken for none (`NoStampIsNull`). A job is at one of its steps, `stamping` to `encoding`,
and each step writes the stamp the patches of `init-scripts.yaml` make it write.
`FirstStamped` and `FirstMapped` are the ages of these patches: earlier jobs left
no stamp, or one without a Blu-ray's titles. `Die` ends a job at any step;
`ScanUnrecorded` is a job that cannot read its stamp when it has chosen what to skip.
`lacking` are the jobs whose log the tool used before it was complete, and those whose
stamp does not have what they skipped.
`Plan` is all of the tool up to its first write: `Rewrites` is `conform` of the
stamps there are, `Backfills` what `backfill` makes of
the folders without that `plan` can prove to be a job's.
`Write` is one stamp, `StopTool` a run ended half-way. Meanwhile logs age out, and
between two runs the owner renames folders or restores them from a snapshot.

Some things are assumed. The tool came after the last patch, so that the jobs
before it had ended (`Plan`'s guard). Jobs that take one name over from another
start days apart, and `stamps.py`'s ten-minute window so tells them apart
(`LogOf`); logs age out oldest first. The owner leaves folders alone while the tool runs, and the running
job's folder always. The reads of one plan are a single step.

### MbSeed

A server listens on a port; `queue` and `entries` are `Handler.books` and
`Ledger.entries`, read when it starts and never again. `tabs` are the pages and
redirects that name a book by server and place, and outlive the server. `Capture`
is `/captured` and `/record`, which end in the same `capture`; `CaptureCut` and
`SaveCoverCut` are a server killed within `write_text` and `write_bytes`.
`AfterCapture` and `NextAfter` are where the browser is sent on to. `Start` may
find another manifest than the last one did, or be told to narrow it.
`answered`, `exposed`, `misled` and `cut` are history.

### SoftServeMirror

Time is in Soft Serve's sync periods of ten minutes. A repository is its place in
the listing, and its heads and tags are one of a few values (`Refs`), so that a
force-push can bring an earlier one back. `Start` is the CronJob; `FetchPage` is `get()` of
one page, and with the last one `plan()`; `ListMirrors` is the start of
`mirror_sync.sh`; then each line of the plan is an `Import`, or `ReadUpstream` and
`ReadMirror`, two steps, as the script asks GitHub first and the mirror after.
Each has its failure, and `Killed` is the deadline. Meanwhile `Push`, `Create`,
`Delete`, `Sync` and `Stick` change GitHub and the mirrors between any two steps.
A page and the sorted plan are told by place: a repository's, or a line's, is the
number of those not after it. One listing stands for those of the four owners, whose
pages are read in the same way one after the other; a private repository differs in
a flag of its import.

## Runs

All bounds are CONSTANTS of a `.cfg`. Between them the passing runs take every
disjunct of every next-state relation.

| Run | Checks | Bounds, and why they are enough |
|---|---|---|
| `offsite_chain` | `PruneSparesArchived`, `LeftoverLeftAlone`, `KeepsContract`, `FlagsConverge` | 1 group, 3 backups, keep-last 1: an eviction needs one more than it keeps, and a second pull one more than that. The safety properties are proved for any groups |
| `offsite_fresh` | `QuietOnSchedule`, `PassIsDeserved` | 14 days: two Sundays and the days after each; 3 days without a pull |
| `pbs_fresh` | `NotLandedFails` | 2 VMIDs, 3 days, 3 changes; the run reaches a guest up to two hours late, more than the one that a floored age forgives |
| `vmid_reuse` | `NoSilentEviction`, `PromiseKept` | 3 machines, keep-last 4, rungs {2, 1}, 1 protected backup, 1 failed read a check: a machine between two others, one with backups on both sides of another's when a rung is due, and a ladder with a rung to step over |
| `coverage` | `MissedRunShows`, `LossShows`, `HealthyIsQuiet` | 2 days, 1 change, 1 run by hand, before a check or while it runs; runs late by 0 or 30 minutes |
| `wrapper` | `OneJobPerDisc`, `StartsOnReadDiscs`, `DiscIsSeenUnlessDropped` | 3 processes at a time: one with the lock, one about to try, one that comes between; 2 polls |
| `handoff` | `SpoiltByFailuresOnly`, `FinishedRipIsSomewhere`, `HandedOffOnce`, `KeepsContract` | 3 discs of 2, 1 and 1 tracks, two of one name; 1 copy that fails, and any renames |
| `arm_stamps` | `StampNamesMaker`, `PlanStaysCurrent`, `MapIsWhole`, `SecondRunIsQuiet`, `MapNeverShrinks` | 3 jobs, one of each age; 2 titles; 2 renames, restores or logs gone: one folder may hand its name on, and its log as well. Symmetric in the titles |
| `mb_seed` | `RecordedStays`, `RightBook`, `OnwardToNew`, `SavedArtIsWhole` | 2 ports, 2 starts on each, 2 releases; 3 books, without art, with embedded art and with a sidecar, the last two sharing a cover's name; 2 manifests. Symmetric in the ports |
| `soft_serve` | `PassIsDeserved`, `FailsForAReason` | 2 repositories and a fork between them, a page each; two hours from the end of a quiet run, that is two more, the second late enough for a push after the first to be past the margin; any mirrors stuck at first, 2 values of the refs, 2 changes, 1 failed request; the deployed margin, period and deadline |

Each of these also checks its module's type invariant (`TypeOK`, `FreshnessTypeOK` or
`WrapperTypeOK`).
Deadlock is not checked where a bound ends the behaviour (days, discs, changes)
or the system may rest (nobody inserts a disc).

What they show, in a sentence each:

* `PruneSparesArchived`: in whatever order the primary, the chain and a person
  act, and wherever the chain fails, nothing leaves PBS #2 that the chain saw
  protected and the primary still holds.
* `FlagsConverge`: a mirror that fails half-way is made good by a later one, also
  if a copy it was to flag has been forgotten.
* `QuietOnSchedule`, `PassIsDeserved` (of the offsite assertion): eight days and 26
  hours are neither too short for the schedule nor too long for two Sundays, or
  two pulls, to go missing -- although a frozen group's one copy arrives anew every
  week.
* `NotLandedFails`: a guest this morning's run missed fails this morning's check,
  under whatever type its VMID had before, unless yesterday's run reached it more
  than an hour in.
* `NoSilentEviction`: no machine's last unprotected backup is pruned without a push
  naming it or a failed check since it was last backed up, for a ladder that
  remembers nothing -- unless a read failed, which fails nothing, or a protection was
  lifted since the check before, of which nobody is told. `PromiseKept`: the
  runs a push announces are never too many, for a full group that nobody touches, and
  exact if no other machine's backups lie between the earlier machine's.
* `MissedRunShows`, `LossShows`, `HealthyIsQuiet`: the check after a missed run
  fails and a loss between two checks fails, each unless the newest backup was made by
  hand or by a retry; and a healthy item passes, unless a dump of another size lands
  while the check runs.
* `OneJobPerDisc`, `DiscIsSeenUnlessDropped`: the lock, inherited through `exec`,
  does what its comment says, and a wrapper without a job is the only way for a
  disc to be overlooked.
* `FinishedRipIsSomewhere`: a finished rip none of whose renames failed is whole in
  staging or whole in the inbox as long as the pod lives; what loses it is a restart
  before it was handed off, which the comments accept. `SpoiltByFailuresOnly`: only a
  failed rip, a rename that failed or a pod dead between two shows an album in pieces,
  and only a failed rip one of two discs. `HandedOffOnce`: although nothing records what was handed off, no disc is
  visible in two albums of the inbox, nor still in staging, but for the album about to
  be removed, once beets-flask has started on it.
* `StampNamesMaker`, `PlanStaysCurrent`: whatever names have passed from one job to
  the next, a stamp names the job that made its folder, or one that made a folder
  of that name before; and although nothing is locked, no job writes a stamp the
  tool is about to write. `MapIsWhole`, `MapNeverShrinks`, `SecondRunIsQuiet`: a map
  taken from the log of a job that has ended well lists all its titles, if what it
  skipped is recorded, nothing takes one off, and a second run changes nothing.
* `RecordedStays`, `RightBook`, `OnwardToNew`: with one server at a time, and no write
  cut short, nothing recorded is lost, recorded for another book by the server that
  seeded it, or offered again.
* `PassIsDeserved` (of the mirror job): a job that succeeds has left no repository
  without a mirror, and no mirror behind one last pushed to an hour ago.
  `FailsForAReason`: pushes before the job, however recent, never fail it, and
  neither does the mirror of a repository that is gone.

### Where the code does not do what is said of it

Two runs each check one claim of the repository and find it false; `PROJECT.json`
quotes the lines.

* `wrapper_dropped`: a wrapper that has read "no disc" has yet to give up the
  lock. The events of the disc loading meanwhile are dropped on it, no further
  one is owed, and the disc is never seen. The repository's test says a dropped
  event would mean just that.
* `handoff_lost`: after a rename that failed the script says "handed off" and removes
  the album from staging all the same. What is still hidden is then nowhere else, and
  the pod lives. `HandsOffWhole` is what the script's header says of it, with the
  exceptions of `FinishedRipIsSomewhere` and `SpoiltByFailuresOnly` taken back. Its
  other half, that no partial album is ever shown, fails as well: by a pod dead
  between two renames, by a rename that fails beside others that do not, and by the
  directory a failed rip leaves in staging, which the glob hands off with the next disc
  that completes.

Others have no run of their own; where a property had to except one, it says so,
and the hazards in `PROJECT.json` give the lines.

* *PBS.* The push says the earlier machine's backups "are gone in N more runs"
  (`docs/backups.md`): keep-last evicts nothing before the group is full, so in a
  group still growing they are there after N runs, and so they are if another
  machine's backups lie between them; both are on the safe side (`PromiseKept`). A
  protection lifted after the push is not: the group has one more than keep-last
  allows, the next run evicts two where the push says one, and steps over a rung, the
  last one if there were two left (`NoSilentEviction`). A count that stays on a rung is
  pushed at every run; one none of whose reads succeeded is 0 rather than unknown, and
  pushes nothing. "A guest whose backup has not landed yet reads as 26 h old and fails"
  (`ansible/backup-monitoring.yaml`): ages are floored, so 26 h 59 min passes, and a
  guest the last run reached late reads as less (`NotLandedFails`).
* *Kubernetes.* "The check after a missed run fails" (`backup_coverage.py`), but not if a
  dump was made by hand after the run before: it is young enough (`MissedRunShows`).
  "Losing more than half of an item between two runs is the signal", but a backup made
  again after the loss and before the check leaves two that have both lost it
  (`LossShows`). A dump that lands between the listing and the reading back is compared
  with the length of the one before it, so a check may fail once for no reason
  (`HealthyIsQuiet`). A dump whose pod is replaced every day is new for ever.
* *Discs.* A failed rip's directory also takes in the next disc of the same name. A
  tray opened between a wrapper's last poll and its `exec` starts a job on no disc
  (`StartsOnReadDiscs`).
* *Stamps.* "Each title HandBrake was given" (`stamps.py`) is, for a job that is
  still transcoding or has failed, each title so far, and no later run adds the
  rest, as a map that is there is left alone; titles a job skipped and could not record
  are missing as well (`MapIsWhole`).
* *mb-seed.* Two servers, which `MB_SEED_PORT` allows, drop each other's entries;
  a server killed within `write_text` leaves a ledger that no start accepts
  (`RecordedStays`). A capture that comes back after a restart under another
  manifest records its release for the book now in that place, where `capture` says
  it records "the release a book became" (`RightBook`). `fetch_cover` compares
  lengths, but a sidecar has none in the manifest (`SavedArtIsWhole`).
* *Mirrors.* A push after the listing is compared with the `pushed_at` listed before
  it and may fail the job (`FailsForAReason`; `mirror_sync.sh` says a push inside the
  margin does not). A repository pushed to every hour never has its mirror called
  stale (`PassIsDeserved`; `docs/git.md` speaks of a mirror that has drifted for over
  an hour). A repository deleted while the pages are read hides another for a run,
  and one created is listed twice and fails its second import.

## Fairness

`PbsOffsite`: a timer starts the chain daily (`WF` on `Pull`), and no chain lasts
for ever (`WF` on `ChainStops`); each further step is *strongly* fair, because the
chain is tried every day and a step that can succeed does so on some of them -- a
primary never reachable again is an outage that pages someone. Nothing on the
primary and nothing a person does is fair. `FlagsConverge` is about a primary
whose flag has stopped changing, so this is all it needs.

`DiscWrapper`: the drive gets on with loading a disc (`DiscOK`, `ReadTOC`), the
kernel delivers what it owes, and a process that runs goes on to its end. Nobody
has to insert, eject or remove anything. `JobFails` is not fair.

The other modules make no liveness claim: their programs are run by timers, and a
timer that does not fire is caught by healthchecks' period, outside of them.

## Proofs

`PbsOffsiteProofs` proves, for any set of groups, any keep-last above zero and any
bound on the backups:

| Theorem | States |
|---|---|
| `TypeCorrect` | `Spec => []TypeOK` |
| `FlagsMatchAtPrune` | `Spec => []MirroredFlagsMatch` |
| `SparesArchived` | `Spec => PruneSparesArchived` |
| `LeftoverKept` | `Spec => LeftoverLeftAlone` |
| `ImplementsContract` | `Spec => KeepsContract` |

The only assumption is `PbsOffsiteAssumption`: `MaxTime` is a natural number and
`Keep` a positive one. TLC evaluates it in every run of the module.

`MirroredFlagsMatch` is not inductive: it speaks of the moment of the prune and is
made true by what happened before. The inductive invariant `IInv` adds to
`TypeOK`

* `FlagsSet`: from the listing of this store on, every copy that is listed, still
  on the primary and *not* on the list of changes already has its flag. With an
  empty list this is `MirroredFlagsMatch`;
* `ListingFits`: what the listing and the list of changes may hold at each stage.
  `MirrorDone` needs the list empty afterwards, and a chain that ends needs to
  leave nothing behind;
* `TimesTaken`: whatever the primary holds or the listing shows was taken by now.
  Without it a new backup could be mistaken for one already listed, and
  `FlagsSet` would not survive a `Backup`.

It is shown to hold initially and to be kept, action by action, by the primary's
steps, the chain's and a person's (`PrimaryStepIInv`, `ChainStepIInv`,
`OperatorStepIInv`). The action properties then follow from which actions take a
copy away at all (`WhatRemovesCopies`). The refinement goes step by step:
every action of the chain is a step of `RetentionContract` or a stutter under the
mapping, and a prune is an `Evict` because whatever keep-last drops is outlived by
`Keep` newer survivors (`KeepsLastOutlives`), a failed prune dropping fewer.

The same module proves of `PbsOffsiteFreshness`, for any days, outages, first Sunday and
hours of the backups before noon (`FreshnessAssumption`):

| Theorem | States |
|---|---|
| `FreshnessTypeCorrect` | `FreshnessSpec => []FreshnessTypeOK` |
| `FreshnessQuiet` | `FreshnessSpec => []QuietOnSchedule`, given `SyncLimit > 18` and `VerifyLimit > 150` |
| `FreshnessDeserved` | `FreshnessSpec => []PassIsDeserved`, given `SyncLimit <= 31` and `VerifyLimit <= 222` |

These are all the limits that do: with 18, 150, 32 or 223 TLC shows the property
violated. The deployed 26 and 192 are well inside, so either hour of the backups and a
check some hours off do no harm. The inductive invariant `FreshnessIInv` says when things
happened: a snapshot on the primary was taken at the season's hour of its day
(`TakenDaily`); what the last pull found is here (`CopiedInTime`); what has no result
came with some day's pull (`ArrivesAtNoon`); a verify under way began on a Sunday and is
over by Monday's check (`VerifyUnderWay`); unless a Sunday's verify was skipped, none has
passed over a copy that was here then, but the one under way (`NonePassedOver`); and the
last verdict is what the stores as they are would give (`AnswerStands`). The rest is that
any seven days have a Sunday and two Sundays are seven days apart.

`MbSeedProofs` proves, for any ports, books, manifests and names of covers, and any
number of starts and releases:

| Theorem | States |
|---|---|
| `TypeCorrect` | `Spec => []TypeOK` |
| `EntriesStay` | `Spec => []RecordedStays` |
| `EntriesRight` | `Spec => []RightBook` |
| `OnwardNew` | `Spec => []OnwardToNew` |
| `CoversWhole` | `Spec => []SavedArtIsWhole` |

The assumption is `MbSeedAssumption`: manifests list books in the order of their
paths, embedded art and a sidecar exclude each other, every book has a cover's name.
`RecordedStays` is inductive only together with `TornExposes`, that a torn ledger
leaves no entry anyone relies on: a start after it was discarded has none.
`RightBook` speaks of the file, which the next record takes over from a server's
memory; `OwnEntries` says it of both, and `TabsFollow`, that a tab of the server
still running names the book it was seeded from, makes it survive a `Capture`.
`OnwardToNew` follows from `RecordedStays` and the least place that `NextAfter`
chooses.

`PbsFreshnessProofs` proves, for any guests, days and changes, and any hours of
`PbsFreshnessAssumption` -- a run and its check on one day, in this order:

| Theorem | States |
|---|---|
| `TypeCorrect` | `Spec => []TypeOK` |
| `OthersReport` | `Spec => EverythingElseReports` |
| `MissedFails` | `Spec => NotLandedFails`, given `LimitFits` |

`LimitFits` is what the hours owe each other: that a guest reached an hour into
yesterday's run, and not by today's, is past the limit in whole hours by the check.
The deployed ones (run at 04:00, check at 08:00, 26 hours) meet it with nothing to
spare: a check half an hour earlier, or a limit of 27, and it is false. The types
need one fact more, that no check comes after the last day's.

`BackupCoverageProofs` proves, for any contents of the items, any floor, days, changes and
runs by hand:

| Theorem | States |
|---|---|
| `TypeCorrect` | `Spec => []TypeOK` |
| `CoverageMissed` | `Spec => MissedRunShows`, given `MaxLate <= 2` |
| `CoverageLoss` | `Spec => LossShows` |
| `CoverageQuiet` | `Spec => HealthyIsQuiet` |

from `BackupCoverageAssumption`: there is something to take of a volume, what has no files
has no bytes, and a dump is one file. `MaxLate <= 2`: a run must reach an item within half an hour. A dump three quarters late
is still within 7 hours at the check after the next run, so that a missed run can pass
one check; TLC shows it with `MaxLate = 3`. `CoverageLoss` and `CoverageQuiet` need no such
bound. `CoverageMissed` and `CoverageLoss` are not about an item whose newest
backup was made by hand, of which they are false. Earlier ones by hand do no harm, as `IInv` shows: each snapshot of a scheduled run was taken at a slot of the schedule,
late by nothing or `MaxLate` (`TakenOnSchedule`); and unless the newest is by hand, what a
check has listed is the series as it still is (`ListedStands`), and what the check before
saw last is the newest or the last but one (`BeforeIsHeld`), which is why two snapshots
are enough to compare. That a volume with bytes in it has files (`HasFiles`) is from the
assumption.

About `DiscWrapper`, `DiscToInboxProofs` proves, for any number of wrappers at once and
any patience:

| Theorem | States |
|---|---|
| `WrapperTypeCorrect` | `WrapperSpec => []WrapperTypeOK` |
| `OneJob` | `WrapperSpec => []OneJobPerDisc` |
| `OnReadDiscs` | `WrapperSpec => []StartsOnReadDiscs` |

from `DiscWrapperAssumption`, that nobody is no wrapper and that a wrapper polls at
least once. Neither property is inductive. `LockIsHeld` says that the one wrapper
past the lock holds it, so that `OneHolder`; `MediaIsCurrent`, that udev's database
is behind the drive only while the event of an opened tray is owed; `AnswerHolds`,
that until a tray is opened under a wrapper what the holder was told is still so;
and `DiscIsDone`, that once a disc has had its job, and that has ended well, the tray
is open and no wrapper has been told otherwise.

About `AudioHandoff`, it proves, for any discs, names and numbers of tracks, and any
number of copies that fail:

| Theorem | States |
|---|---|
| `TypeCorrect` | `Spec => []TypeOK` |
| `FinishedKept` | `Spec => []FinishedRipIsSomewhere` |
| `SpoiltOnlySo` | `Spec => []SpoiltByFailuresOnly` |
| `OnlyOnce` | `Spec => []HandedOffOnce` |
| `ImplementsContract` | `Spec => KeepsContract` |

from `AudioHandoffAssumption`: every disc has a name and at least one track, and no
disc is none. What beets-flask sees at once depends on where the handoff is.
`StagingIsInHand` says that while it runs nothing is ripped and all of staging is
its own; `AlbumArrives`, that each file of the album in hand is still to be copied,
hidden or shown, none is shown before all are hidden, and that what is hidden when there
is nothing left to rename is of torn discs, so that all of every other disc is visible
when staging goes; `FinishedIsKept`, the first property, with staging narrowed to the
directories no rip writes into. For the second, `StagingIsWhole`, `InboxIsWhole` and `SessionsAreWhole`
follow the tracks of one disc from the drive to beets-flask. That the free
destination exists is a matter of counting: there are more suffixes than albums.

`HandedOffOnce` is inductive only as `EachDiscOnce`, an invariant beside `IInv`: a disc
has files in one directory of staging and is visible in one of the inbox at most, in both
only while the one is shown as the other, and is neither visible nor torn before its rip
is over. The refinement needs it too: a rip that is finished is not visible yet, and
nothing was started on it. With `RestIsKept`, that a finished rip that is not torn,
visible or about to be is in staging, each step is then one of the contract's or a stutter
(`ContractNext`): the steps of the handoff are stutters (`HiddenSteps`), but for the one
that begins the renames (`AllCopiedBegins`), the rename that completes a disc
(`RevealShows`) and one that fails (`RenameFailsTears`). That what a session was started
on is still visible, which makes deleting an import a `Take`, is an invariant of the
contract itself, so it follows from the steps' being the contract's (`BegunIsVisible`).

`ArmStampsProofs` proves, for any jobs, discs, titles, ages of the two patches,
renames and logs gone:

| Theorem | States |
|---|---|
| `TypeCorrect` | `Spec => []TypeOK` |
| `StampsNameMakers` | `Spec => []StampNamesMaker` |
| `PlansStayCurrent` | `Spec => []PlanStaysCurrent` |
| `MapsAreWhole` | `Spec => []MapIsWhole` |
| `MapsNeverShrink` | `Spec => MapNeverShrinks` |
| `SecondRunsAreQuiet` | `Spec => []SecondRunIsQuiet` |

from `ArmStampsAssumption`, which puts the two patches in order and keeps what stands
for "no map" from being one, and `NoStampIsNull`. The tool proves things about the
past from names, so `IInv` says what a name can tell: `FoldersByMaker`, that of the
folders made under the title's name only the latest can still have it;
`LogsByJob`, that a log's last path is the folder of the job that opened it, and its
titles that job's; `FinishedLogs`, that with what was skipped they are the whole
disc once the job has ended well, if what it skipped is recorded. `RunningStamp` follows a stamp through a job's
steps, `StampsByAge` says whose stamps the tool writes, and `PlanIsSound` that what is
planned is of a folder no job will touch, and still as it was read. `SecondRunIsQuiet`
is about two plans, the second of a state that need never be reached; it follows from
what `Rewrites` and `Backfills` leave for themselves, proved as lemmas about them.

`VmidReuseProofs` proves, for any machines, any keep-last above 1 and any ladder that
ends in 1, and any protections and reads that fail:

| Theorem | States |
|---|---|
| `TypeCorrect` | `Spec => []TypeOK` |
| `EvictionIsTold` | `Spec => NoSilentEviction` |
| `PromisesKept` | `Spec => []PromiseKept` |

The ladder remembers nothing, so the invariant says what a check has made sure of.
`LastOneIsTold`: of a full group, the machine that has only the oldest left has been
told about, or a read failed, or a protection was lifted; the last rung is what makes it
true, as with one left the count is 1. `KeepLastHolds`: a group is no fuller than
keep-last unless a protection was lifted since a check last found it so. `PromiseCounts`: what is left of the announced runs is no more than
what is left of the backups, and the same if they are the oldest. A run of vzdump then
without a lifted protection takes at most the oldest unprotected backup, and of a full group (`AfterRun`): the
positions keep-last keeps are numbered anew in their order (`RanksNumber`, `Carried`),
and everything said of them is a matter of counting.

`SoftServeMirrorProofs` proves, for any repositories and forks, any length of a page,
any margin, period and deadline, and any changes and faults:

| Theorem | States |
|---|---|
| `TypeCorrect` | `Spec => []TypeOK` |
| `PassesAreDeserved` | `Spec => []PassIsDeserved` |
| `FailuresHaveReasons` | `Spec => []FailsForAReason` |

from `SoftServeAssumption`: there are finitely many repositories, the refs of a new one are
among those there may be, and a page, the
margin, the period and the deadline, which is within it, are of some length. The two
properties pull in opposite directions, and each has its part of `IInv`. For a pass,
`NothingIsPassedOver` says what each repository has been through: listed, if its place
is on a page already asked for, then in the plan, then in the lines still to be read
or `Checked`. A creation only moves places back, which is why a deletion under the
listing is the one excuse. `Checked` survives whatever follows: a mirror still behind
since before the job was so when it was compared (`ReadDiffers`), with a line that
tells of no later push than the last (`LinesArePast`). For a failure, `QuietSince` says
that a job with no excuse has read nothing that is not still true, and each repository
once; that nothing is stuck, and that what is behind was so within the period the job
began in, of a push within the margin, so that the next tick mends it. The lemmas about
places (`Numbered`, `Ranks`, `PlanIs`, `PageShows`) say that counting numbers an ordered
set, and so that a page and the plan leave nothing out and have nothing twice.

Two of the properties proved are checked by no run: `MirroredFlagsMatch`, which is what
`PruneSparesArchived` rests on, and `EverythingElseReports`, which needs no invariant.

Model-checked only: `FlagsConverge` and `DiscIsSeenUnlessDropped`, which are
liveness under fairness and out of the prover's reach. What recursive functions
compute is out of its reach as well; no module has one.

## Not modelled

* What PBS, restic and K8up do inside. `restic-repository`'s units are ordered by
  restic's locks, and would be a model of these.
* Credentials, HTTP, TLS, parsing of listings, wording of reports. A listing that
  cannot be parsed is a check that fails.
* K8up's Job logs (`collect_item_errors`): they end in reports only.
* The clock changing under a check, and a check slower than the day's schedule
  leaves room for. Both PBS #2 timers are `Persistent`; the model keeps the chain
  and the check apart, as they are on a day the host is up.
* Garbage collection, which removes no snapshot.
* Configuration: Terraform, Helm values, NixOS options, Kubernetes manifests, DNS.
* How ARM's patches get into its source, and the title charset: replacements in a
  third-party program's text. What its jobs stamp is in `ArmStamps`.
* Audio tags and release fields, which `manifest.py` reads and `seed.py` puts into
  forms: data without a state. A book in `MbSeed` is its place, its art and the name
  of its cover.
* beets' configuration and import stages, the Cloudflare policy, the ZFS report and
  the review-threads client: one read and one write, or a third-party program's.
* The duplicate-titles algorithm: see the plan. `ArmStamps` has its outcome as any
  set of titles that leaves one.

## Plan

The data depends on what was written first: `PbsOffsite` with its contract and
proofs, the two assertions over PBS, the reuse ladder, the coverage check, and the
two scripts through which every disc and every CD goes. Then came `MbSeed` and its
proofs, `ArmStamps`, `SoftServeMirror`, and the proofs about the other modules. What is
left, in this order:

1. `DuplicateTitles`: `_arm_duplicates` and what follows as recursive functions
   over titles made of weighted clips, checked over all small discs: whatever is
   skipped is played by what is kept, something is always kept, the main feature
   ends on a kept title, the record's parts are true.
2. The restic repository's units, and beets' hooks.
