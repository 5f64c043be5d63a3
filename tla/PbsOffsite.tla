----------------------------- MODULE PbsOffsite -----------------------------
(***************************************************************************)
(* PBS #2's daily chain beside the primary it copies                       *)
(* (nixos/hosts/pbs-offsite): pull the primary's snapshots, mirror their   *)
(* protected flags, prune to keep-last.  The mirror reads the primary,     *)
(* then this store, then sets one flag at a time, and everything it does   *)
(* interleaves with backups, protection and deletion on the primary.       *)
(*                                                                         *)
(* Proxmox Backup Server itself is not part of the repository: what a      *)
(* pull, a prune and a protected flag do is taken from how the code and    *)
(* its comments use them.                                                  *)
(***************************************************************************)
EXTENDS Naturals, FiniteSets

CONSTANTS Groups,     \* backup groups, "vm/<vmid>" or "ct/<vmid>"
          MaxTime,    \* bound: backups taken of one group
          Keep        \* keep-last, 31 in the deployment

ASSUME PbsOffsiteAssumption ==
    /\ MaxTime \in Nat
    /\ Keep \in Nat \ {0}

VARIABLES primary,    \* snapshots the primary holds
          archived,   \* those of them it holds protected
          latest,     \* the time of each group's last backup, 0 for none
          local,      \* snapshots this store holds
          flagged,    \* those of them it holds protected
          pc,         \* where pbs-offsite-daily is
          seen,       \* the mirror's listing of the primary
          todo        \* snapshots whose flag the mirror has yet to set

vars == <<primary, archived, latest, local, flagged, pc, seen, todo>>
primaryVars == <<primary, archived, latest>>
chainVars == <<pc, seen, todo>>

Snapshot == [group : Groups, time : 1 .. MaxTime]

Listing == [held : SUBSET Snapshot, protected : SUBSET Snapshot]

NoListing == [held |-> {}, protected |-> {}]

Stages == {"idle", "pulled", "listed", "setting", "mirrored"}

Of(S, g) == {s \in S : s.group = g}

\* What keep-last leaves of the unprotected snapshots S: each group's newest
\* Keep, all of them where there are fewer.
KeepsLast(S, kept) ==
    /\ kept \subseteq S
    /\ \A g \in Groups : Cardinality(Of(kept, g)) <= Keep
    /\ \A s \in S \ kept :
        /\ Cardinality(Of(kept, s.group)) = Keep
        /\ \A k \in Of(kept, s.group) : k.time > s.time

TypeOK ==
    /\ primary \in SUBSET Snapshot
    /\ archived \in SUBSET primary
    /\ latest \in [Groups -> 0 .. MaxTime]
    /\ local \in SUBSET Snapshot
    /\ flagged \in SUBSET local
    /\ pc \in Stages
    /\ seen \in Listing
    /\ todo \in SUBSET Snapshot

Init ==
    /\ primary = {}
    /\ archived = {}
    /\ latest = [g \in Groups |-> 0]
    /\ local = {}
    /\ flagged = {}
    /\ pc = "idle"
    /\ seen = NoListing
    /\ todo = {}

-----------------------------------------------------------------------------
(* The primary.                                                            *)

\* vzdump appends one snapshot to a group and prunes that group to keep-last.
Backup(g) ==
    /\ latest[g] < MaxTime
    /\ latest' = [latest EXCEPT ![g] = @ + 1]
    /\ LET new == [group |-> g, time |-> latest[g] + 1]
           unprotected == Of(primary \ archived, g) \cup {new}
       IN \E kept \in SUBSET unprotected :
            /\ KeepsLast(unprotected, kept)
            /\ primary' = (primary \ unprotected) \cup kept
    /\ UNCHANGED <<archived, local, flagged, pc, seen, todo>>

\* Archiving on the primary, and taking it back.
Protect(s) ==
    /\ s \in primary \ archived
    /\ archived' = archived \cup {s}
    /\ UNCHANGED <<primary, latest, local, flagged, pc, seen, todo>>

Unprotect(s) ==
    /\ s \in archived
    /\ archived' = archived \ {s}
    /\ UNCHANGED <<primary, latest, local, flagged, pc, seen, todo>>

\* A snapshot forgotten by hand; PBS refuses while it is protected.
ForgetPrimary(s) ==
    /\ s \in primary \ archived
    /\ primary' = primary \ {s}
    /\ UNCHANGED <<archived, latest, local, flagged, pc, seen, todo>>

-----------------------------------------------------------------------------
(* The chain on PBS #2: sync-job run, pbs-offsite mirror, prune-job run.   *)

\* Newer than everything here of its group: what a pull has to copy.
Missing == {s \in primary \ local : \A l \in Of(local, s.group) : l.time < s.time}

\* remove-vanished is false: a pull only adds.  Whether it also brings back an
\* older snapshot the prune here evicted is PBS's affair, so it may or may not.
Pull ==
    /\ pc = "idle"
    /\ \E older \in SUBSET ((primary \ local) \ Missing) :
        local' = local \cup Missing \cup older
    /\ pc' = "pulled"
    /\ UNCHANGED <<primary, archived, latest, flagged, seen, todo>>

\* A sync that fails has copied a part, and set -e ends the chain.
PullFails ==
    /\ pc = "idle"
    /\ \E part \in SUBSET (primary \ local) : local' = local \cup part
    /\ UNCHANGED <<primary, archived, latest, flagged, pc, seen, todo>>

ListPrimary ==
    /\ pc = "pulled"
    /\ seen' = [held |-> primary, protected |-> archived]
    /\ pc' = "listed"
    /\ UNCHANGED <<primary, archived, latest, local, flagged, todo>>

\* Faults for the mutation runs: a copy the primary lost read as unprotected;
\* protection carried over, never lifted.
PlanMirrorLostIsPlain(listing, here, protectedHere) ==
    {s \in here : (s \in listing.protected) # (s \in protectedHere)}

PlanMirrorOneWay(listing, here, protectedHere) ==
    {s \in here \cap listing.held : s \in listing.protected \ protectedHere}

\* plan_mirror: a copy the listing does not hold is left alone.
PlanMirror(listing, here, protectedHere) ==
    {s \in here \cap listing.held :
        (s \in listing.protected) # (s \in protectedHere)}

ListLocal ==
    /\ pc = "listed"
    /\ todo' = PlanMirror(seen, local, flagged)
    /\ pc' = "setting"
    /\ UNCHANGED <<primary, archived, latest, local, flagged, seen>>

\* mirror() goes through them in a fixed order; any order is allowed here.
SetProtected(s) ==
    /\ pc = "setting"
    /\ s \in todo \cap local
    /\ flagged' = IF s \in seen.protected THEN flagged \cup {s}
                                          ELSE flagged \ {s}
    /\ todo' = todo \ {s}
    /\ UNCHANGED <<primary, archived, latest, local, pc, seen>>

\* Fault: prune without waiting for the last flag.
MirrorDoneEarly ==
    /\ pc = "setting"
    /\ pc' = "mirrored"
    /\ UNCHANGED <<primary, archived, latest, local, flagged, seen, todo>>

MirrorDone ==
    /\ pc = "setting"
    /\ todo = {}
    /\ pc' = "mirrored"
    /\ UNCHANGED <<primary, archived, latest, local, flagged, seen, todo>>

\* The chain is over, and with it everything it remembered.
ChainEnds ==
    /\ pc' = "idle"
    /\ seen' = NoListing
    /\ todo' = {}

\* Fault: the mirror's exit status ignored, so that the prune runs after all.
ChainCarriesOn ==
    /\ pc \in {"pulled", "listed", "setting"}
    /\ pc' = "mirrored"
    /\ todo' = {}
    /\ UNCHANGED <<primary, archived, latest, local, flagged, seen>>

\* Fault: a failed chain left where it was, never to start again.
ChainStopsMidway ==
    /\ pc # "idle"
    /\ pc' = "failed"
    /\ UNCHANGED <<primary, archived, latest, local, flagged, seen, todo>>

\* Reading a store or setting a flag failed, or the host went down: the rest
\* of the chain does not run, and flags already set stay set.
ChainStops ==
    /\ pc # "idle"
    /\ ChainEnds
    /\ UNCHANGED <<primary, archived, latest, local, flagged>>

Prune ==
    /\ pc = "mirrored"
    /\ \E kept \in SUBSET (local \ flagged) :
        /\ KeepsLast(local \ flagged, kept)
        /\ local' = flagged \cup kept
    /\ ChainEnds
    /\ UNCHANGED <<primary, archived, latest, flagged>>

\* A prune that fails has removed a part of what it would have removed.
PruneFails ==
    /\ pc = "mirrored"
    /\ \E kept \in SUBSET (local \ flagged) :
        /\ KeepsLast(local \ flagged, kept)
        /\ \E part \in SUBSET ((local \ flagged) \ kept) : local' = local \ part
    /\ ChainEnds
    /\ UNCHANGED <<primary, archived, latest, flagged>>

-----------------------------------------------------------------------------
(* Someone at PBS #2, acting on what assess and plan_mirror report: copies *)
(* the primary no longer holds, protected here or not.                     *)

UnprotectHere(s) ==
    /\ s \in flagged \ primary
    /\ flagged' = flagged \ {s}
    /\ UNCHANGED <<primary, archived, latest, local, pc, seen, todo>>

ForgetHere(s) ==
    /\ s \in (local \ flagged) \ primary
    /\ local' = local \ {s}
    /\ UNCHANGED <<primary, archived, latest, flagged, pc, seen, todo>>

-----------------------------------------------------------------------------
PrimaryStep ==
    \/ \E g \in Groups : Backup(g)
    \/ \E s \in Snapshot : Protect(s) \/ Unprotect(s) \/ ForgetPrimary(s)

ChainStep ==
    \/ Pull
    \/ PullFails
    \/ ListPrimary
    \/ ListLocal
    \/ \E s \in Snapshot : SetProtected(s)
    \/ MirrorDone
    \/ Prune
    \/ PruneFails
    \/ ChainStops

OperatorStep == \E s \in Snapshot : UnprotectHere(s) \/ ForgetHere(s)

Next == PrimaryStep \/ ChainStep \/ OperatorStep

Spec == Init /\ [][Next]_vars

\* The timer starts a chain every day, and each of its steps, tried on enough
\* days, succeeds on some: a primary that is never reachable, or a flag that
\* can never be set, is an outage the notifications are for.  No chain lasts
\* for ever: where the next step cannot succeed -- a flag to set on a copy
\* forgotten since -- the call fails and the chain ends.
Fairness ==
    /\ WF_vars(Pull)
    /\ WF_vars(ChainStops)
    /\ SF_vars(ListPrimary)
    /\ SF_vars(ListLocal)
    /\ \A s \in Snapshot : SF_vars(SetProtected(s))
    /\ SF_vars(MirrorDone)
    /\ SF_vars(Prune)

FairSpec == Spec /\ Fairness
-----------------------------------------------------------------------------
(* Properties.                                                             *)

\* By the time the prune runs, every copy the mirror's listing held has the
\* flag the listing gave it, unless the primary has dropped the snapshot since
\* (someone here may then have lifted the flag).  plan_mirror, and the loop of
\* mirror() that sets one flag after another.
MirroredFlagsMatch ==
    pc = "mirrored" =>
        \A s \in local \cap seen.held \cap primary :
            (s \in flagged) <=> (s \in seen.protected)

\* Whatever leaves this store while a chain runs, it is not a snapshot that was
\* protected on the primary when the chain listed it and is still there: the
\* order of the chain in default.nix, and mirror() finishing before the prune.
PruneSparesArchived ==
    [][\A s \in local \ local' : s \notin seen.protected \cap primary]_vars

\* A copy protected here that the listing of the primary does not hold stays,
\* and stays protected, until someone at this store lifts the flag: the None
\* branch of plan_mirror, and a keep-last that spares protected snapshots.
LeftoverLeftAlone ==
    [][\A s \in flagged \ seen.held :
        s \in local' /\ (s \in flagged' \/ UnprotectHere(s))]_vars

\* Once the primary's flag for a snapshot both stores hold stops changing, this
\* store's copy comes to carry it for good.  A chain that fails half-way leaves
\* some flags set; the next one works from what it finds.
FlagsConverge ==
    \A s \in Snapshot :
        /\ <>[](s \in archived /\ s \in local) => <>[](s \in flagged)
        /\ <>[](s \in primary \ archived /\ s \in local) => <>[](s \notin flagged)

\* The store keeps its promise: what it must not lose is what the chain under
\* way read as protected and the primary still holds.
Contract == INSTANCE RetentionContract WITH
    source <- primary,
    demand <- seen.protected \cap primary,
    current <- pc \in {"listed", "setting", "mirrored"},
    held <- local

KeepsContract == Contract!Spec
=============================================================================
