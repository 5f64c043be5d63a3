-------------------------- MODULE SoftServeMirror ---------------------------
(* The hourly job that watches the mirrors of GitHub's repositories: the     *)
(* plan of mirror_plan.py, listed page by page, and mirror_sync.sh, which    *)
(* goes through it line by line, imports what has no mirror and compares     *)
(* the refs of what has one.  GitHub and Soft Serve change all the while.    *)
(*                                                                           *)
(* Time is in Soft Serve's sync periods of ten minutes.  A repository is its *)
(* place in the listing, which is by name, and its heads and tags are one of *)
(* a few values, so that a force-push can bring an earlier one back.         *)
EXTENDS Integers, Sequences, FiniteSets

CONSTANTS
    Repo,           \* repositories, in the order GitHub lists them
    Forks,          \* those that are forks
    Refs,           \* what a repository's heads and tags may be, 0 when it is new
    PerPage,        \* PER_PAGE
    Margin,         \* mirror_sync.sh's margin
    Period,         \* from one run to the next
    Deadline,       \* the job's activeDeadlineSeconds
    MaxTime,        \* bound: sync periods
    MaxChanges,     \* bound: what happens on GitHub and to Soft Serve's sync
    MaxFaults       \* bound: requests that fail

ASSUME SoftServeAssumption ==
    /\ Repo \subseteq Nat /\ IsFiniteSet(Repo)
    /\ Forks \subseteq Repo
    /\ 0 \in Refs /\ Refs \subseteq Nat
    /\ {PerPage, Margin, Period, Deadline} \subseteq Nat \ {0}
    /\ Deadline < Period
    /\ MaxTime \in Nat \ {0}
    /\ {MaxChanges, MaxFaults} \subseteq Nat

VARIABLES
    now,
    upstream,       \* GitHub: each repository's heads and tags, or Gone
    pushedAt,       \* GitHub: pushed_at
    mirror,         \* Soft Serve: each mirror's heads and tags, or Gone
    stuck,          \* mirrors whose sync fails
    pc,             \* where the job is
    began,          \* when the last job began
    page,           \* get(): the page asked for next
    items,          \* get(): what was listed so far
    plan,           \* the lines of the plan still to be read
    syncAt,         \* mirror_sync.sh: now
    existing,       \* mirror_sync.sh: the mirrors at its start
    read,           \* mirror_sync.sh: upstream's refs, before the mirror's
    failed,         \* mirror_sync.sh: failed, and the job's verdict
    changes, faults,
    behind,         \* history: since when each mirror has differed, or InStep
    there,          \* history: on GitHub and in scope since the job began
    shifted,        \* history: a repository was deleted under the listing
    excuse          \* history: since the job began, something that may fail it

world == <<now, upstream, pushedAt, mirror, stuck, behind>>
job == <<pc, began, page, items, plan, syncAt, existing, read, failed>>
vars == <<world, job, changes, faults, there, shifted, excuse>>

Gone == -1
InStep == -1
LongAgo == -(Margin + 1)        \* also null, a repository never pushed to

Line == [name : Repo, pushed : {LongAgo} \union 0 .. MaxTime]
InScopeAll(r) == TRUE                                   \* fault: forks as well
InScope(r) == r \notin Forks
OnGitHub == {r \in Repo : upstream[r] # Gone}

\* A job has just ended and left everything in step.
Init ==
    /\ now = 1
    /\ upstream \in [Repo -> {0, Gone}]
    /\ pushedAt = [r \in Repo |-> LongAgo]
    /\ mirror = [r \in Repo |-> IF InScope(r) THEN upstream[r] ELSE Gone]
    /\ stuck \in SUBSET {r \in Repo : mirror[r] # Gone}
    /\ pc = "idle" /\ began = 0 /\ page = 1 /\ items = <<>> /\ plan = <<>>
    /\ syncAt = 0 /\ existing = {} /\ read = Gone /\ failed = FALSE
    /\ changes = 0 /\ faults = 0
    /\ behind = [r \in Repo |-> InStep]
    /\ there = {} /\ shifted = FALSE /\ excuse = FALSE

-----------------------------------------------------------------------------
(* GitHub, and Soft Serve's own sync.                                        *)

\* The refs of GitHub and of the mirrors become u and m.
Become(u, m) ==
    /\ upstream' = u
    /\ mirror' = m
    /\ behind' = [r \in Repo |->
         IF Gone \in {u[r], m[r]} \/ u[r] = m[r] THEN InStep
         ELSE IF behind[r] = InStep THEN now ELSE behind[r]]

Change ==
    /\ changes < MaxChanges /\ changes' = changes + 1
    /\ excuse' = TRUE
    /\ UNCHANGED <<now, job, faults>>

\* A push, and the deletion of a branch, which moves pushed_at as well.  Nothing
\* reads what was pushed to a fork, or when.
Push(r) ==
    /\ r \in OnGitHub \ Forks
    /\ \E v \in Refs \ {upstream[r]} : Become([upstream EXCEPT ![r] = v], mirror)
    /\ pushedAt' = [pushedAt EXCEPT ![r] = now]
    /\ Change
    /\ UNCHANGED <<stuck, there, shifted>>

\* A repository is created, or renamed or moved here with its old pushed_at.
Create(r) ==
    /\ r \notin OnGitHub
    /\ Become([upstream EXCEPT ![r] = 0], mirror)
    /\ pushedAt' = [pushedAt EXCEPT ![r] = LongAgo]
    /\ Change
    /\ UNCHANGED <<stuck, there, shifted>>

Delete(r) ==
    /\ r \in OnGitHub
    /\ Become([upstream EXCEPT ![r] = Gone], mirror)
    /\ there' = there \ {r}
    /\ shifted' = (shifted \/ pc = "list")
    /\ Change
    /\ UNCHANGED <<pushedAt, stuck>>

\* The sync of one mirror begins, or ceases, to fail.
Stick(r) ==
    /\ mirror[r] # Gone
    /\ stuck' = IF r \in stuck THEN stuck \ {r} ELSE stuck \union {r}
    /\ Change
    /\ UNCHANGED <<upstream, pushedAt, mirror, behind, there, shifted>>

\* What a sync makes of the mirrors of rs.  One without upstream is kept.
Follow(rs) == [r \in Repo |->
    IF r \in rs \ stuck /\ Gone \notin {mirror[r], upstream[r]}
    THEN upstream[r] ELSE mirror[r]]

Sync(r) ==
    /\ Follow({r}) # mirror
    /\ Become(upstream, Follow({r}))
    /\ UNCHANGED <<now, pushedAt, stuck, job, changes, faults, there, shifted, excuse>>

\* A period ends: every mirror was synced in it, the job due in it was
\* started, and one at its deadline was killed.
Tick ==
    /\ now < MaxTime
    /\ now % Period = 0 => began = now
    /\ pc # "idle" => now - began < Deadline
    /\ now' = now + 1
    /\ Become(upstream, Follow(Repo))
    /\ UNCHANGED <<pushedAt, stuck, job, changes, faults, there, shifted, excuse>>

-----------------------------------------------------------------------------
(* The plan.                                                                 *)

\* The CronJob starts.  A mirror that is behind and was not pushed to within
\* the margin, as one whose sync has only just been mended, may fail it.
Start ==
    /\ pc = "idle" /\ now % Period = 0 /\ began # now
    /\ pc' = "list" /\ began' = now
    /\ page' = 1 /\ items' = <<>> /\ failed' = FALSE
    /\ there' = {r \in OnGitHub : InScope(r)}
    /\ shifted' = FALSE
    /\ excuse' = \/ stuck # {}
                 \/ \E r \in Repo : behind[r] # InStep /\ now - pushedAt[r] > Margin
    /\ UNCHANGED <<world, plan, syncAt, existing, read, changes, faults>>

\* One page of the listing, as it is now.
Rank(S, r) == Cardinality({q \in S : q <= r})

Batch ==
    LET before == (page - 1) * PerPage
        rest == Cardinality(OnGitHub) - before
    IN  [i \in 1 .. (IF rest < PerPage THEN rest ELSE PerPage) |->
           LET r == CHOOSE q \in OnGitHub : Rank(OnGitHub, q) = before + i
           IN  [name |-> r, pushed |-> pushedAt[r]]]

LastPage(batch) == Len(batch) < PerPage

\* The lines in scope, sorted.
NotAfter(listed, i, j) ==
    \/ listed[i].name < listed[j].name
    \/ /\ listed[i].name = listed[j].name
       /\ \/ listed[i].pushed < listed[j].pushed
          \/ listed[i].pushed = listed[j].pushed /\ i <= j

PlanOf(listed) ==
    LET kept == {i \in DOMAIN listed : InScope(listed[i].name)}
        place(i) == Cardinality({j \in kept : NotAfter(listed, j, i)})
    IN  [k \in 1 .. Cardinality(kept) |-> listed[CHOOSE i \in kept : place(i) = k]]

\* The job's end, with what it leaves reset; its verdict stays in failed.
Ends ==
    /\ pc' = "idle"
    /\ page' = 1 /\ items' = <<>> /\ plan' = <<>>
    /\ syncAt' = 0 /\ existing' = {} /\ read' = Gone
    /\ UNCHANGED <<world, began, changes, there, shifted>>

\* get() and, after the last page, plan() and the end of main().
FetchPage ==
    LET batch == Batch
        listed == items \o batch
    IN  /\ pc = "list"
        /\ \/ /\ ~ LastPage(batch)
              /\ items' = listed /\ page' = page + 1
              /\ UNCHANGED <<world, pc, began, plan, syncAt, existing, read, failed,
                             changes, faults, there, shifted, excuse>>
           \/ /\ LastPage(batch) /\ PlanOf(listed) = <<>>
              /\ failed' = TRUE
              /\ Ends
              /\ UNCHANGED <<faults, excuse>>
           \/ /\ LastPage(batch) /\ PlanOf(listed) # <<>>
              /\ plan' = PlanOf(listed) /\ items' = <<>> /\ page' = 1
              /\ pc' = "mirrors"
              /\ UNCHANGED <<world, began, syncAt, existing, read, failed,
                             changes, faults, there, shifted, excuse>>

Fault ==
    /\ faults < MaxFaults /\ faults' = faults + 1
    /\ excuse' = TRUE

\* A page, or the listing of the mirrors, cannot be had.
ListingFails ==
    /\ pc \in {"list", "mirrors"}
    /\ failed' = TRUE
    /\ Fault
    /\ Ends

Killed ==
    /\ pc # "idle" /\ now - began = Deadline
    /\ failed' = TRUE /\ excuse' = TRUE
    /\ Ends
    /\ UNCHANGED faults

-----------------------------------------------------------------------------
(* The sync.                                                                 *)

ListMirrors ==
    /\ pc = "mirrors"
    /\ syncAt' = now
    /\ existing' = {r \in Repo : mirror[r] # Gone}
    /\ pc' = "line"
    /\ UNCHANGED <<world, began, page, items, plan, read, failed, changes, faults,
                   there, shifted, excuse>>

AtLine == pc = "line" /\ plan # <<>>
ToImport == AtLine /\ Head(plan).name \notin existing
ToCompare == AtLine /\ Head(plan).name \in existing

NextLine ==
    /\ plan' = Tail(plan)
    /\ pc' = "line"
    /\ read' = Gone
    /\ UNCHANGED <<now, pushedAt, stuck, began, page, items, syncAt, existing, changes,
                   there, shifted>>

Import ==
    LET r == Head(plan).name
    IN  /\ ToImport
        /\ r \in OnGitHub /\ mirror[r] = Gone
        /\ Become(upstream, [mirror EXCEPT ![r] = upstream[r]])
        /\ NextLine
        /\ UNCHANGED <<failed, faults, excuse>>

\* An import that fails, or runs into its timeout while Soft Serve goes on
\* with the clone.  A repository that has gone or already has its mirror
\* cannot be imported at all.
ImportFails ==
    LET r == Head(plan).name
    IN  /\ ToImport
        /\ failed' = TRUE
        /\ \/ /\ r \notin OnGitHub \/ mirror[r] # Gone
              /\ UNCHANGED <<upstream, mirror, behind, faults, excuse>>
           \/ /\ r \in OnGitHub /\ mirror[r] = Gone
              /\ \E v \in {Gone, upstream[r]} :
                   Become(upstream, [mirror EXCEPT ![r] = v])
              /\ Fault
        /\ NextLine

ReadUpstream ==
    LET r == Head(plan).name
    IN  /\ ToCompare
        /\ r \in OnGitHub
        /\ read' = upstream[r] /\ pc' = "compare"
        /\ UNCHANGED <<world, began, page, items, plan, syncAt, existing, failed,
                       changes, faults, there, shifted, excuse>>

StaleAtOnce(line) == read # mirror[line.name]           \* fault: no margin

\* Refs that differ, of a repository last pushed to before the margin when
\* it was listed.
Stale(line) ==
    /\ read # mirror[line.name]
    /\ syncAt - line.pushed > Margin

ReadMirror ==
    /\ pc = "compare"
    /\ failed' = (failed \/ Stale(Head(plan)))
    /\ NextLine
    /\ UNCHANGED <<upstream, mirror, behind, faults, excuse>>

ReadFailsQuietly ==                                     \* fault: read as no refs
    /\ ToCompare \/ pc = "compare"
    /\ Fault
    /\ NextLine
    /\ UNCHANGED <<upstream, mirror, behind, failed>>

\* Either refs cannot be read, as upstream's cannot once it is gone.
ReadFails ==
    /\ ToCompare \/ pc = "compare"
    /\ failed' = TRUE
    /\ \/ /\ ToCompare /\ Head(plan).name \notin OnGitHub
          /\ UNCHANGED <<faults, excuse>>
       \/ Fault
    /\ NextLine
    /\ UNCHANGED <<upstream, mirror, behind>>

SyncEnds ==
    /\ pc = "line" /\ plan = <<>>
    /\ Ends
    /\ UNCHANGED <<failed, faults, excuse>>

-----------------------------------------------------------------------------
Outside ==
    \/ Tick
    \/ \E r \in Repo : Push(r) \/ Create(r) \/ Delete(r) \/ Stick(r) \/ Sync(r)

JobStep ==
    \/ Start \/ FetchPage \/ ListingFails \/ Killed \/ ListMirrors
    \/ Import \/ ImportFails \/ ReadUpstream \/ ReadMirror \/ ReadFails \/ SyncEnds

Next == Outside \/ JobStep

Spec == Init /\ [][Next]_vars

-----------------------------------------------------------------------------
\* Types; the plan is of repositories in scope.
TypeOK ==
    /\ now \in 0 .. MaxTime
    /\ upstream \in [Repo -> Refs \union {Gone}]
    /\ mirror \in [Repo -> Refs \union {Gone}]
    /\ pushedAt \in [Repo -> {LongAgo} \union 0 .. MaxTime]
    /\ stuck \subseteq Repo
    /\ pc \in {"idle", "list", "mirrors", "line", "compare"}
    /\ began \in 0 .. MaxTime /\ syncAt \in 0 .. MaxTime
    /\ page \in 1 .. Cardinality(Repo) + 1
    /\ items \in Seq(Line)
    /\ plan \in Seq({l \in Line : l.name \notin Forks})
    /\ existing \subseteq Repo \ Forks
    /\ read \in Refs \union {Gone}
    /\ {failed, shifted, excuse} \subseteq BOOLEAN
    /\ changes \in 0 .. MaxChanges /\ faults \in 0 .. MaxFaults
    /\ behind \in [Repo -> InStep .. MaxTime]
    /\ there \subseteq Repo

\* The job is about to succeed.
Passes == pc = "line" /\ plan = <<>> /\ ~ failed

\* A job that succeeds has deserved to.  It leaves no repository without a
\* mirror that was on GitHub, in scope, from its start to its end, and no mirror
\* that differed from GitHub all that time, of a repository not pushed to within
\* the hour before the sync: whatever reads failed or refs moved meanwhile, a
\* mirror that stopped following fails the first job an hour after the last
\* push.  Only a repository deleted while the pages were read excuses it, as
\* that moves the others up past the page that would have shown them.
PassIsDeserved ==
    Passes /\ ~ shifted => \A r \in there :
      /\ mirror[r] # Gone
      /\ behind[r] # InStep /\ behind[r] < began => syncAt - pushedAt[r] <= Margin

\* A job fails for a reason: a request that failed, its deadline, a sync that
\* is stuck, a mirror behind without a push, or a change on GitHub since it
\* began.  What was pushed before it began, however shortly, fails nothing, and
\* neither does a mirror kept of a repository that is gone.
FailsForAReason ==
    failed => excuse \/ there = {}
=============================================================================
