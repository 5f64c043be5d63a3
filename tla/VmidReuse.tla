----------------------------- MODULE VmidReuse ------------------------------
(***************************************************************************)
(* One PBS backup group across the machines that have had its VMID, and    *)
(* what pbs-freshness (ansible/files/pbs_freshness.py) says about it.      *)
(*                                                                         *)
(* vzdump appends a backup of whichever machine has the VMID and prunes to *)
(* keep-last, which neither removes nor counts a protected backup.  After  *)
(* every run the check compares the identities at the two ends of the      *)
(* unprotected backups, counts those of the earlier machine, and picks the *)
(* rungs on which to push.  Each identity is read from a backup's config   *)
(* blob, and any of those reads may fail.                                  *)
(***************************************************************************)
EXTENDS Integers, Sequences, FiniteSets, FiniteSetsExt

CONSTANTS Machine,        \* identities: smbios1 UUIDs, or net0 MACs
          Unknown,        \* no identity, or no count: None in the code
          Keep,           \* the job's keep-last
          Rungs,          \* REUSE_RUNGS
          MaxProtected,   \* bound: protected backups at one time
          MaxUnreadable   \* bound: failed reads in one check

ASSUME VmidReuseAssumption ==
    /\ Unknown \notin Machine \cup Nat
    /\ Keep \in Nat \ {0, 1}
    /\ Rungs \subseteq Nat \ {0} /\ 1 \in Rungs
    /\ MaxProtected \in Nat
    /\ MaxUnreadable \in Nat

VARIABLES machine,    \* who has the VMID
          group,      \* its backups, oldest first
          phase,      \* "backup" or "check": which of the two runs next
          said,       \* what the last check made of the group
          told,       \* machines some signal was raised about, since their last backup
          lifted,     \* whether a protection was lifted since a check last found the
                      \* group no fuller than keep-last: history, nothing reads it
          blind,      \* machines of which a check, since then, may have missed something
          left        \* runs until the last push said the earlier machine is gone,
                      \* if the group was then as full as keep-last lets it be

vars == <<machine, group, phase, said, told, lifted, blind, left>>

Backups == [machine : Machine, protected : BOOLEAN]

Outcome == [earlier : Machine \cup {Unknown},   \* Unknown: no reuse detected
            prior : Nat \cup {Unknown},         \* prior_count
            push : {"none", "sent", "lost"}]

Nothing == [earlier |-> Unknown, prior |-> Unknown, push |-> "none"]

\* What the last push announced: nothing, or a machine and a number of runs, and
\* whether that machine's backups were then the oldest of all, with none of
\* another's between them.
NoPromise == [earlier |-> Unknown, runs |-> 0, together |-> TRUE]

\* The positions of the backups that keep-last may remove, and a machine's of those.
Unprotected(g) == {i \in DOMAIN g : ~g[i].protected}

HeldBy(g, m) == {i \in Unprotected(g) : g[i].machine = m}

TypeOK ==
    /\ machine \in Machine
    /\ group \in Seq(Backups)
    /\ Cardinality(DOMAIN group \ Unprotected(group)) <= MaxProtected
    /\ phase \in {"backup", "check"}
    /\ said \in Outcome
    /\ told \subseteq Machine
    /\ lifted \in BOOLEAN
    /\ blind \subseteq Machine
    /\ left \in [earlier : Machine \cup {Unknown}, runs : Nat, together : BOOLEAN]

Init ==
    /\ machine \in Machine
    /\ group = <<>>
    /\ phase = "backup"
    /\ said = Nothing
    /\ told = {}
    /\ lifted = FALSE
    /\ blind = {}
    /\ left = NoPromise

-----------------------------------------------------------------------------
(* The VMID, the job, and someone at the datastore.                        *)

\* The guest is destroyed and the VMID given to another, new or restored.
Reissue(m) ==
    /\ phase = "backup"
    /\ m # machine
    /\ machine' = m
    /\ UNCHANGED <<group, phase, said, told, lifted, blind, left>>

\* What is left of g at the positions in kept, in its order.
Rank(kept, i) == Cardinality({j \in kept : j <= i})
Only(g, kept) == [k \in 1 .. Cardinality(kept) |-> g[CHOOSE i \in kept : Rank(kept, i) = k]]

\* keep-last: the newest Keep of the unprotected, and every protected one.
PruneKeepLast(g) ==
    Only(g, {i \in DOMAIN g :
                g[i].protected \/ Cardinality({j \in Unprotected(g) : i <= j}) <= Keep})

Backup ==
    /\ phase = "backup"
    /\ group' = PruneKeepLast(Append(group, [machine |-> machine, protected |-> FALSE]))
    /\ told' = told \ {machine}
    /\ blind' = blind \ {machine}
    /\ left' = IF left.earlier = Unknown \/ left.runs = 0 \/ left.earlier = machine
               THEN NoPromise ELSE [left EXCEPT !.runs = @ - 1]
    /\ phase' = "check"
    /\ UNCHANGED <<machine, said, lifted>>

\* Archiving a backup, and giving one up again, which no one is told of.  Either, or
\* forgetting a backup, changes what the last push counted: its promise is off.
SetProtected(i, flag) ==
    /\ i \in DOMAIN group
    /\ group[i].protected # flag
    /\ flag => Cardinality(DOMAIN group \ Unprotected(group)) < MaxProtected
    /\ group' = [group EXCEPT ![i].protected = flag]
    /\ lifted' = (lifted \/ ~flag)
    /\ left' = NoPromise
    /\ UNCHANGED <<machine, phase, said, told, blind>>

Forget(i) ==
    /\ i \in DOMAIN group
    /\ ~group[i].protected
    /\ group' = Only(group, DOMAIN group \ {i})
    /\ left' = NoPromise
    /\ UNCHANGED <<machine, phase, said, told, lifted, blind>>

-----------------------------------------------------------------------------
(* pbs-freshness.                                                          *)

\* The machine of the backup at position i, if there are two to compare and it
\* could be read.
Identity(g, i, readable) ==
    IF Cardinality(Unprotected(g)) >= 2 /\ i \in readable THEN g[i].machine ELSE Unknown

\* Fault: a number for a count that was not taken.
SummariseGroupByNumber(g, ends, counted) ==
    LET oldest == Identity(g, Min(Unprotected(g)), ends)
    IN [unprotected |-> Cardinality(Unprotected(g)), oldest |-> oldest,
        newest |-> Identity(g, Max(Unprotected(g)), ends),
        prior |-> Cardinality({i \in counted : g[i].machine = oldest}) - 1]

\* Fault: the count stops short of the oldest.
SummariseGroupShort(g, ends, counted) ==
    LET oldest == Identity(g, Min(Unprotected(g)), ends)
        newest == Identity(g, Max(Unprotected(g)), ends)
    IN [unprotected |-> Cardinality(Unprotected(g)), oldest |-> oldest, newest |-> newest,
        prior |-> IF Unknown \notin {oldest, newest} /\ oldest # newest
                  THEN Cardinality({i \in counted \ {Min(Unprotected(g))} :
                                      g[i].machine = oldest})
                  ELSE Unknown]

\* summarise_group.  ends and counted are the unprotected backups whose identity
\* could be read: first at the two ends, then for the count.
SummariseGroup(g, ends, counted) ==
    LET oldest == Identity(g, Min(Unprotected(g)), ends)
        newest == Identity(g, Max(Unprotected(g)), ends)
    IN [unprotected |-> Cardinality(Unprotected(g)), oldest |-> oldest, newest |-> newest,
        prior |-> IF Unknown \notin {oldest, newest} /\ oldest # newest
                  THEN Cardinality({i \in counted : g[i].machine = oldest})
                  ELSE Unknown]

ReuseDetected(s) ==
    /\ s.unprotected >= 2
    /\ s.oldest # Unknown
    /\ s.newest # Unknown
    /\ s.oldest # s.newest

\* Fault: the ladder stops above its last rung.
DueWithoutLastRung(s) ==
    /\ ReuseDetected(s)
    /\ \/ s.prior = Unknown
       \/ s.unprotected = s.prior + 1
       \/ s.prior \in Rungs \ {1}

\* reuse_alerts, for one group.
Due(s) ==
    /\ ReuseDetected(s)
    /\ \/ s.prior = Unknown
       \/ s.unprotected = s.prior + 1
       \/ s.prior \in Rungs

\* No backup of another machine is older than one of m's.
Together(g, m) ==
    \A i, j \in Unprotected(g) : i < j /\ g[j].machine = m => g[i].machine = m

\* What a push says of the runs to come, if it is heard and all was read.
Promise(s, push, complete) ==
    IF push # "sent" THEN left
    ELSE IF complete /\ s.unprotected = Keep
         THEN [earlier |-> s.oldest, runs |-> s.prior, together |-> Together(group, s.oldest)]
         ELSE NoPromise

\* What a lifted protection may have done lasts until a run has pruned the group to
\* keep-last again and a check has looked at what is left.
StillLifted == lifted /\ Cardinality(Unprotected(group)) > Keep

\* One run.  A push that does not arrive fails the check instead.
Check ==
    /\ phase = "check"
    /\ \E ends, counted \in SUBSET Unprotected(group) :
        LET s == SummariseGroup(group, ends, counted)
            complete == ends = Unprotected(group) /\ counted = Unprotected(group)
        IN /\ Cardinality(Unprotected(group) \ ends)
                + Cardinality(Unprotected(group) \ counted) <= MaxUnreadable
           /\ blind' = IF complete THEN blind ELSE Machine
           /\ \E push \in IF Due(s) THEN {"sent", "lost"} ELSE {"none"} :
                /\ said' = [earlier |-> IF ReuseDetected(s) THEN s.oldest ELSE Unknown,
                            prior |-> s.prior, push |-> push]
                /\ told' = IF push = "none" THEN told ELSE told \cup {s.oldest}
                /\ left' = Promise(s, push, complete)
    /\ lifted' = StillLifted
    /\ phase' = "backup"
    /\ UNCHANGED <<machine, group>>

\* The scope, the guest list or the datastore could not be read: /fail.
CheckFails ==
    /\ phase = "check"
    /\ said' = Nothing
    /\ told' = Machine
    /\ lifted' = StillLifted
    /\ phase' = "backup"
    /\ UNCHANGED <<machine, group, blind, left>>

Next ==
    \/ \E m \in Machine : Reissue(m)
    \/ Backup
    \/ \E i \in DOMAIN group : Forget(i) \/ \E flag \in BOOLEAN : SetProtected(i, flag)
    \/ Check
    \/ CheckFails

Spec == Init /\ [][Next]_vars

-----------------------------------------------------------------------------
(* Properties.                                                             *)

\* A backup run never removes the last unprotected backup of a machine that no
\* longer has the VMID without a signal about it since it was last backed up: a
\* push naming it, or a check that failed.  Two cases are left out, in which the
\* code is silent: one of the reads failed, which fails nothing, or someone lifted
\* a protection since the last check, so that a run evicts more than one, or finds
\* a group full that no check saw full.  The rungs of reuse_alerts, and a failed
\* push failing the check.
NoSilentEviction ==
    [][Backup /\ ~lifted =>
        \A m \in Machine \ {machine, machine'} :
            HeldBy(group, m) # {} /\ HeldBy(group', m) = {} => m \in told \cup blind]_vars

\* The message says the earlier machine's backups "are gone in N more runs".  For
\* a group that keep-last fills, every backup of it read, none of those runs is
\* the last of them before the Nth, for as long as nobody touches the group; and
\* with the Nth they are gone, if no other machine's backups lie between them.
PromiseKept ==
    left.earlier # Unknown =>
        /\ left.runs > 0 => HeldBy(group, left.earlier) # {}
        /\ left.runs = 0 /\ left.together => HeldBy(group, left.earlier) = {}
=============================================================================
