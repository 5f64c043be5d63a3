-------------------------- MODULE PbsOffsiteProofs --------------------------
(***************************************************************************)
(* What PBS #2's chain keeps, for any groups, any number of backups and    *)
(* any keep-last.  The inductive invariant says what the mirror's listing  *)
(* and its list of changes mean at each stage of the chain.                *)
(*                                                                         *)
(* Then what the check of the copies finds on its schedule, for any hours  *)
(* and limits that fit each other.  The two share no state.                *)
(***************************************************************************)
EXTENDS PbsOffsite, PbsOffsiteFreshness, FiniteSetTheorems, NaturalsInduction,
        WellFoundedInduction, TLAPS

\* A listing, like the primary, holds only snapshots already taken: a backup
\* taken later cannot be mistaken for one the mirror has seen.
TimesTaken ==
    \A s \in primary \cup seen.held : s.time <= latest[s.group]

\* What the mirror remembers, stage by stage.
ListingFits ==
    /\ seen.protected \subseteq seen.held
    /\ pc \in {"idle", "pulled"} => seen = NoListing
    /\ todo \subseteq seen.held
    /\ pc # "setting" => todo = {}

\* A flag not on the list of changes is already right.
FlagsSet ==
    pc \in {"setting", "mirrored"} =>
        \A s \in ((local \cap seen.held) \cap primary) \ todo :
            (s \in flagged) <=> (s \in seen.protected)

IInv == TypeOK /\ TimesTaken /\ ListingFits /\ FlagsSet

-----------------------------------------------------------------------------
\* Every initial state satisfies the inductive invariant.
LEMMA InitIInv == Init => IInv
BY PbsOffsiteAssumption DEF Init, IInv, TypeOK, TimesTaken, ListingFits, FlagsSet, Snapshot,
       Listing, NoListing, Stages

\* A backup moves only the primary, by one snapshot newer than all before it.
LEMMA BackupEffect ==
    ASSUME IInv, NEW g \in Groups, Backup(g)
    PROVE  /\ latest' \in [Groups -> 0 .. MaxTime]
           /\ \A h \in Groups : latest[h] <= latest'[h]
           /\ primary' \subseteq primary \cup {[group |-> g, time |-> latest'[g]]}
           /\ [group |-> g, time |-> latest'[g]] \in Snapshot
           /\ latest'[g] = latest[g] + 1
           /\ archived \subseteq primary'
<1> DEFINE new == [group |-> g, time |-> latest[g] + 1]
           unprotected == Of(primary \ archived, g) \cup {new}
<1>1. latest \in [Groups -> 0 .. MaxTime] /\ MaxTime \in Nat
  BY PbsOffsiteAssumption DEF IInv, TypeOK
<1>2. /\ latest' \in [Groups -> 0 .. MaxTime]
      /\ latest'[g] = latest[g] + 1
      /\ \A h \in Groups : latest[h] <= latest'[h]
  BY <1>1 DEF Backup
<1>3. new \in Snapshot /\ latest'[g] = latest[g] + 1
  BY <1>1, <1>2 DEF Snapshot
<1>4. PICK kept \in SUBSET unprotected : primary' = (primary \ unprotected) \cup kept
  BY DEF Backup
<1>5. new \notin primary
  <2>1. ASSUME new \in primary PROVE new.time <= latest[new.group]
    BY <2>1 DEF IInv, TimesTaken
  <2>2. QED BY <2>1, <1>1
<1>6. archived \subseteq primary'
  BY <1>4, <1>5 DEF IInv, TypeOK, Of
<1>7. primary' \subseteq primary \cup {new}
  BY <1>4 DEF Of
<1>8. QED BY <1>2, <1>3, <1>6, <1>7

\* What happens on the primary keeps the inductive invariant.
LEMMA PrimaryStepIInv == IInv /\ PrimaryStep => IInv'
<1> SUFFICES ASSUME IInv, PrimaryStep PROVE IInv'
  OBVIOUS
<1> USE DEF IInv
<1>1. ASSUME NEW g \in Groups, Backup(g) PROVE IInv'
  <2> DEFINE new == [group |-> g, time |-> latest'[g]]
  <2>1. /\ latest' \in [Groups -> 0 .. MaxTime]
        /\ \A h \in Groups : latest[h] <= latest'[h]
        /\ primary' \subseteq primary \cup {new}
        /\ new \in Snapshot
        /\ latest'[g] = latest[g] + 1
        /\ archived \subseteq primary'
    BY <1>1, BackupEffect
  <2>2. UNCHANGED <<archived, local, flagged, pc, seen, todo>>
    BY <1>1 DEF Backup
  <2>3. TypeOK'
    BY <2>1, <2>2 DEF TypeOK
  <2>4. TimesTaken'
    <3> SUFFICES ASSUME NEW s \in primary' \cup seen'.held
                 PROVE  s.time <= latest'[s.group]
      BY DEF TimesTaken
    <3>1. CASE s = new
      BY <3>1, <2>3 DEF TypeOK
    <3>2. CASE s # new
      <4>1. s \in primary \cup seen.held
        BY <3>2, <2>1, <2>2
      <4>2. s \in Snapshot
        BY <4>1 DEF TypeOK, Listing
      <4>3. s.group \in Groups /\ s.time \in Nat
        BY <4>2, PbsOffsiteAssumption DEF Snapshot
      <4>4. s.time <= latest[s.group] /\ latest[s.group] <= latest'[s.group]
        BY <4>1, <4>3, <2>1 DEF TimesTaken
      <4>5. latest[s.group] \in Nat /\ latest'[s.group] \in Nat
        BY <4>3, <2>1, PbsOffsiteAssumption DEF TypeOK
      <4>6. QED BY <4>3, <4>4, <4>5
    <3>3. QED BY <3>1, <3>2
  <2>5. ListingFits'
    BY <2>2 DEF ListingFits
  <2>6. FlagsSet'
    <3>1. new \notin seen.held
      <4>1. ASSUME new \in seen.held PROVE new.time <= latest[new.group]
        BY <4>1 DEF TimesTaken
      <4>2. latest[g] \in Nat
        BY PbsOffsiteAssumption DEF TypeOK
      <4>3. QED BY <4>1, <4>2, <2>1
    <3>2. QED BY <3>1, <2>1, <2>2 DEF FlagsSet
  <2>7. QED BY <2>3, <2>4, <2>5, <2>6
<1>2. ASSUME NEW s \in Snapshot, Protect(s) PROVE IInv'
  BY <1>2 DEF Protect, TypeOK, TimesTaken, ListingFits, FlagsSet
<1>3. ASSUME NEW s \in Snapshot, Unprotect(s) PROVE IInv'
  BY <1>3 DEF Unprotect, TypeOK, TimesTaken, ListingFits, FlagsSet
<1>4. ASSUME NEW s \in Snapshot, ForgetPrimary(s) PROVE IInv'
  BY <1>4 DEF ForgetPrimary, TypeOK, TimesTaken, ListingFits, FlagsSet
<1>5. QED BY <1>1, <1>2, <1>3, <1>4 DEF PrimaryStep

\* What the chain does keeps the inductive invariant.
LEMMA ChainStepIInv == IInv /\ ChainStep => IInv'
<1> SUFFICES ASSUME IInv, ChainStep PROVE IInv'
  OBVIOUS
<1> USE DEF IInv
<1>1. CASE Pull
  BY <1>1 DEF Pull, Missing, TypeOK, TimesTaken, ListingFits, FlagsSet, Stages
<1>2. CASE PullFails
  BY <1>2 DEF PullFails, TypeOK, TimesTaken, ListingFits, FlagsSet
<1>3. CASE ListPrimary
  BY <1>3 DEF ListPrimary, TypeOK, TimesTaken, ListingFits, FlagsSet, Stages,
              Listing
<1>4. CASE ListLocal
  BY <1>4 DEF ListLocal, PlanMirror, TypeOK, TimesTaken, ListingFits, FlagsSet,
              Stages, Listing
<1>5. ASSUME NEW s \in Snapshot, SetProtected(s) PROVE IInv'
  <2>1. CASE s \in seen.protected
    BY <1>5, <2>1 DEF SetProtected, TypeOK, TimesTaken, ListingFits, FlagsSet
  <2>2. CASE s \notin seen.protected
    BY <1>5, <2>2 DEF SetProtected, TypeOK, TimesTaken, ListingFits, FlagsSet
  <2>3. QED BY <2>1, <2>2
<1>6. CASE MirrorDone
  BY <1>6 DEF MirrorDone, TypeOK, TimesTaken, ListingFits, FlagsSet, Stages
<1>7. CASE Prune
  BY <1>7 DEF Prune, ChainEnds, TypeOK, TimesTaken, ListingFits, FlagsSet,
              Stages, Listing, NoListing
<1>8. CASE PruneFails
  BY <1>8 DEF PruneFails, ChainEnds, TypeOK, TimesTaken, ListingFits, FlagsSet,
              Stages, Listing, NoListing
<1>9. CASE ChainStops
  BY <1>9 DEF ChainStops, ChainEnds, TypeOK, TimesTaken, ListingFits, FlagsSet,
              Stages, Listing, NoListing
<1>10. QED BY <1>1, <1>2, <1>3, <1>4, <1>5, <1>6, <1>7, <1>8, <1>9
           DEF ChainStep

\* What someone does at this store keeps the inductive invariant.
LEMMA OperatorStepIInv == IInv /\ OperatorStep => IInv'
<1> SUFFICES ASSUME IInv, NEW s \in Snapshot, UnprotectHere(s) \/ ForgetHere(s)
             PROVE  IInv'
  BY DEF OperatorStep
<1>1. CASE UnprotectHere(s)
  BY <1>1 DEF UnprotectHere, IInv, TypeOK, TimesTaken, ListingFits, FlagsSet
<1>2. CASE ForgetHere(s)
  BY <1>2 DEF ForgetHere, IInv, TypeOK, TimesTaken, ListingFits, FlagsSet
<1>3. QED BY <1>1, <1>2

\* The inductive invariant is preserved by every step.
LEMMA NextIInv == IInv /\ [Next]_vars => IInv'
<1> SUFFICES ASSUME IInv, [Next]_vars PROVE IInv'
  OBVIOUS
<1>1. CASE UNCHANGED vars
  BY <1>1 DEF vars, IInv, TypeOK, TimesTaken, ListingFits, FlagsSet
<1>2. QED
  BY <1>1, PrimaryStepIInv, ChainStepIInv, OperatorStepIInv DEF Next

\* In every reachable state the mirror's memory means what it should.
THEOREM InductiveInvariant == Spec => []IInv
BY InitIInv, NextIInv, PTL DEF Spec

-----------------------------------------------------------------------------
\* Type correctness of the chain and of both stores.
THEOREM TypeCorrect == Spec => []TypeOK
<1>1. IInv => TypeOK
  BY DEF IInv
<1>2. QED BY <1>1, InductiveInvariant, PTL

\* When the prune runs, the flags here are the ones the mirror's listing gave.
THEOREM FlagsMatchAtPrune == Spec => []MirroredFlagsMatch
<1>1. IInv => MirroredFlagsMatch
  BY DEF IInv, ListingFits, FlagsSet, MirroredFlagsMatch
<1>2. QED BY <1>1, InductiveInvariant, PTL
-----------------------------------------------------------------------------
\* A copy leaves this store in three ways only: by a prune, which follows a
\* mirror and removes nothing flagged, or by hand, when the primary lost it.
LEMMA WhatRemovesCopies ==
    ASSUME IInv, [Next]_vars, NEW s \in local \ local'
    PROVE  \/ (Prune \/ PruneFails) /\ s \notin flagged
           \/ s \notin primary /\ s \notin flagged
<1>1. CASE PrimaryStep
  BY <1>1 DEF PrimaryStep, Backup, Protect, Unprotect, ForgetPrimary
<1>2. CASE ChainStep
  <2>1. ASSUME Pull \/ PullFails \/ ListPrimary \/ ListLocal \/ MirrorDone \/ ChainStops
        PROVE  FALSE
    BY <2>1 DEF Pull, PullFails, ListPrimary, ListLocal, MirrorDone, ChainStops
  <2>2. ASSUME NEW t \in Snapshot, SetProtected(t) PROVE FALSE
    BY <2>2 DEF SetProtected
  <2>3. CASE Prune
    BY <2>3 DEF Prune
  <2>4. CASE PruneFails
    BY <2>4 DEF PruneFails
  <2>5. QED BY <1>2, <2>1, <2>2, <2>3, <2>4 DEF ChainStep
<1>3. CASE OperatorStep
  <2>1. PICK t \in Snapshot : UnprotectHere(t) \/ ForgetHere(t)
    BY <1>3 DEF OperatorStep
  <2>2. QED BY <2>1 DEF UnprotectHere, ForgetHere
<1>4. CASE UNCHANGED vars
  BY <1>4 DEF vars
<1>5. QED BY <1>1, <1>2, <1>3, <1>4 DEF Next

\* No step of a chain removes a snapshot its listing found protected on the
\* primary, while the primary still holds it.
THEOREM SparesArchived == Spec => PruneSparesArchived
<1>1. ASSUME IInv, [Next]_vars
      PROVE  [\A s \in local \ local' : s \notin seen.protected \cap primary]_vars
  <2> SUFFICES ASSUME NEW s \in local \ local', s \in seen.protected \cap primary
               PROVE  FALSE
    OBVIOUS
  <2>1. (Prune \/ PruneFails) /\ s \notin flagged
    BY <1>1, WhatRemovesCopies
  <2>2. pc = "mirrored"
    BY <2>1 DEF Prune, PruneFails
  <2>3. s \in flagged
    BY <1>1, <2>2 DEF IInv, ListingFits, FlagsSet
  <2>4. QED BY <2>1, <2>3
<1>2. QED BY <1>1, InductiveInvariant, PTL DEF Spec, PruneSparesArchived

\* A copy protected here that the chain's listing of the primary lacks keeps
\* its flag until someone here lifts it.
THEOREM LeftoverKept == Spec => LeftoverLeftAlone
<1>1. ASSUME IInv, [Next]_vars
      PROVE  [\A s \in flagged \ seen.held :
                s \in local' /\ (s \in flagged' \/ UnprotectHere(s))]_vars
  <2> SUFFICES ASSUME NEW s \in flagged \ seen.held
               PROVE  s \in local' /\ (s \in flagged' \/ UnprotectHere(s))
    OBVIOUS
  <2>1. s \in local
    BY <1>1 DEF IInv, TypeOK
  <2>2. s \in local'
    BY <1>1, <2>1, WhatRemovesCopies
  <2>3. CASE PrimaryStep
    BY <2>2, <2>3 DEF PrimaryStep, Backup, Protect, Unprotect, ForgetPrimary
  <2>4. CASE ChainStep
    <3>1. ASSUME NEW t \in Snapshot, SetProtected(t) PROVE s \in flagged'
      BY <1>1, <3>1 DEF SetProtected, IInv, ListingFits
    <3>2. QED
      BY <2>2, <2>4, <3>1 DEF ChainStep, Pull, PullFails, ListPrimary, ListLocal,
         MirrorDone, ChainStops, Prune, PruneFails
  <2>5. CASE OperatorStep
    <3>1. PICK t \in Snapshot : UnprotectHere(t) \/ ForgetHere(t)
      BY <2>5 DEF OperatorStep
    <3>2. QED BY <2>2, <3>1 DEF UnprotectHere, ForgetHere
  <2>6. CASE UNCHANGED vars
    BY <2>2, <2>6 DEF vars
  <2>7. QED BY <1>1, <2>3, <2>4, <2>5, <2>6 DEF Next
<1>2. QED BY <1>1, InductiveInvariant, PTL DEF Spec, LeftoverLeftAlone

-----------------------------------------------------------------------------
(* The chain implements the contract.                                      *)

\* Whatever keep-last lets go is outlived by what it keeps.
LEMMA KeepsLastOutlives ==
    ASSUME NEW S \in SUBSET Snapshot, NEW kept, KeepsLast(S, kept),
           NEW s \in S \ kept, NEW here, kept \subseteq here
    PROVE  Contract!Outlived(s, here)
<1>1. /\ Of(kept, s.group) \subseteq here
      /\ Cardinality(Of(kept, s.group)) = Keep
      /\ \A k \in Of(kept, s.group) : k.group = s.group /\ k.time > s.time
  BY DEF KeepsLast, Of
<1>2. Of(kept, s.group) \in SUBSET {r \in here : /\ r.group = s.group
                                               /\ r.time > s.time}
  BY <1>1
<1>3. Contract!Cardinality(Of(kept, s.group)) = Keep
  BY <1>1 DEF Cardinality, Contract!Cardinality
<1>4. QED BY <1>2, <1>3 DEF Contract!Outlived

\* The initial states of the chain are initial states of the contract.
LEMMA ContractInit == Init => Contract!Init
BY DEF Init, Contract!Init, NoListing

\* A prune is an eviction the contract allows, whole or cut short.
LEMMA PruneEvicts == IInv /\ (Prune \/ PruneFails) => Contract!Evict
<1> SUFFICES ASSUME IInv, Prune \/ PruneFails PROVE Contract!Evict
  OBVIOUS
<1>1. PICK kept \in SUBSET (local \ flagged) :
        /\ KeepsLast(local \ flagged, kept)
        /\ \E part \in SUBSET ((local \ flagged) \ kept) : local' = local \ part
  <2>1. CASE PruneFails
    BY <2>1 DEF PruneFails
  <2>2. CASE Prune
    <3>1. PICK kept \in SUBSET (local \ flagged) :
            KeepsLast(local \ flagged, kept) /\ local' = flagged \cup kept
      BY <2>2 DEF Prune
    <3>2. local' = local \ ((local \ flagged) \ kept)
      BY <3>1 DEF IInv, TypeOK
    <3>3. QED BY <3>1, <3>2
  <2>3. QED BY <2>1, <2>2
<1>2. PICK part \in SUBSET ((local \ flagged) \ kept) : local' = local \ part
  BY <1>1
<1>3. pc = "mirrored" /\ ChainEnds /\ UNCHANGED primary
  BY DEF Prune, PruneFails
<1>4. part \in SUBSET (local \ (seen.protected \cap primary))
  BY <1>2, <1>3 DEF IInv, ListingFits, FlagsSet
<1>5. ASSUME NEW s \in part PROVE Contract!Outlived(s, local \ part)
  <2>1. local \ flagged \in SUBSET Snapshot /\ kept \subseteq local \ part
    BY <1>1, <1>2 DEF IInv, TypeOK
  <2>2. s \in (local \ flagged) \ kept
    BY <1>2
  <2>3. QED BY <1>1, <2>1, <2>2, KeepsLastOutlives
<1>6. pc' = "idle" /\ seen'.protected = {}
  BY <1>3 DEF ChainEnds, NoListing
<1>7. /\ pc \in {"listed", "setting", "mirrored"}
      /\ (pc \in {"listed", "setting", "mirrored"})' = FALSE
      /\ (seen.protected \cap primary)' = {}
      /\ UNCHANGED primary
  BY <1>3, <1>6
<1>8. QED BY <1>2, <1>4, <1>5, <1>7 DEF Contract!Evict

\* Every step of the chain, the primary or the operator is a step the contract
\* allows, or changes nothing it speaks of.
LEMMA ContractNext == IInv /\ IInv' /\ [Next]_vars => [Contract!Next]_(Contract!vars)
<1> SUFFICES ASSUME IInv, IInv', [Next]_vars
             PROVE  Contract!Next \/ UNCHANGED Contract!vars
  OBVIOUS
<1> USE DEF Contract!Next, Contract!vars
<1>1. CASE PrimaryStep
  <2>1. UNCHANGED <<local, pc, seen>> /\ primary' \in SUBSET Snapshot
    BY <1>1 DEF PrimaryStep, Backup, Protect, Unprotect, ForgetPrimary, IInv, TypeOK
  <2>2. seen.protected \cap primary' = (seen.protected \cap primary) \cap primary'
    <3>1. ASSUME NEW s \in seen.protected \cap primary' PROVE s \in primary
      <4>1. ASSUME NEW g \in Groups, Backup(g) PROVE s \in primary
        <5> DEFINE new == [group |-> g, time |-> latest'[g]]
        <5>1. primary' \subseteq primary \cup {new} /\ latest'[g] = latest[g] + 1
          BY <4>1, BackupEffect
        <5>2. s \in seen.held /\ latest[g] \in Nat
          BY PbsOffsiteAssumption DEF IInv, ListingFits, TypeOK
        <5>3. s # new
          BY <5>1, <5>2 DEF IInv, TimesTaken
        <5>4. QED BY <5>1, <5>3
      <4>2. QED
        BY <1>1, <4>1 DEF PrimaryStep, Protect, Unprotect, ForgetPrimary
    <3>2. QED BY <3>1
  <2>3. Contract!SourceChanges
    BY <2>1, <2>2 DEF Contract!SourceChanges
  <2>4. QED BY <2>3
<1>2. CASE ChainStep
  <2>1. CASE Pull \/ PullFails
    <3>1. \E arriving \in SUBSET primary : local' = local \cup arriving
      <4>1. CASE Pull
        <5>1. PICK older \in SUBSET ((primary \ local) \ Missing) :
                local' = local \cup Missing \cup older
          BY <4>1 DEF Pull
        <5>2. Missing \cup older \in SUBSET primary
          BY DEF Missing
        <5>3. QED BY <5>1, <5>2
      <4>2. CASE PullFails
        BY <4>2 DEF PullFails
      <4>3. QED BY <2>1, <4>1, <4>2
    <3>2. seen = NoListing /\ seen' = NoListing /\ UNCHANGED primary
          /\ pc' \notin {"listed", "setting", "mirrored"}
      BY <2>1 DEF Pull, PullFails, IInv, ListingFits
    <3>3. Contract!Receive
      BY <3>1, <3>2 DEF Contract!Receive, NoListing
    <3>4. QED BY <3>3
  <2>2. CASE ListPrimary
    BY <2>2 DEF ListPrimary, Contract!ReadMarks, IInv, TypeOK
  <2>3. CASE ListLocal \/ MirrorDone
    BY <2>3 DEF ListLocal, MirrorDone
  <2>4. ASSUME NEW s \in Snapshot, SetProtected(s) PROVE UNCHANGED Contract!vars
    BY <2>4 DEF SetProtected
  <2>5. CASE Prune \/ PruneFails
    BY <2>5, PruneEvicts
  <2>6. CASE ChainStops
    BY <2>6 DEF ChainStops, ChainEnds, NoListing, Contract!Forget
  <2>7. QED BY <1>2, <2>1, <2>2, <2>3, <2>4, <2>5, <2>6 DEF ChainStep
<1>3. CASE OperatorStep
  <2>1. PICK s \in Snapshot : UnprotectHere(s) \/ ForgetHere(s)
    BY <1>3 DEF OperatorStep
  <2>2. CASE UnprotectHere(s)
    BY <2>2 DEF UnprotectHere
  <2>3. CASE ForgetHere(s)
    BY <2>3 DEF ForgetHere, Contract!Discard
  <2>4. QED BY <2>1, <2>2, <2>3
<1>4. CASE UNCHANGED vars
  BY <1>4 DEF vars
<1>5. QED BY <1>1, <1>2, <1>3, <1>4 DEF Next

\* PBS #2 keeps the retention contract: no copy is evicted before the primary's
\* marks were read, none that is marked, and none without Keep newer ones left.
THEOREM ImplementsContract == Spec => KeepsContract
BY ContractInit, ContractNext, InductiveInvariant, PTL
   DEF Spec, KeepsContract, Contract!Spec

-----------------------------------------------------------------------------
(* The check of PBS #2, assess and freshness of pbs_offsite.py.            *)

\* Today's backup is not due yet at the check, and a copy pulled on the day after
\* a Sunday's verify not overdue at the check of the next Sunday, whose verify may
\* still be under way.
QuietLimits == SyncLimit > 18 /\ VerifyLimit > 150

\* Yesterday's backup is due at the check, and a copy two Sundays have passed over
\* overdue two days after the second.
DeservedLimits == SyncLimit <= 31 /\ VerifyLimit <= 222

Times(held) == {c.time : c \in held}

\* The days whose pull is over.
PullDays == IF phase \in {"backup", "sync"} THEN day ELSE day + 1

\* The primary's snapshots are those of days before, and today's.
TakenDaily ==
    \A t \in taken : \E d \in 0 .. day :
        t = 24 * d + season /\ (phase = "backup" => d < day)

\* What the last pull found is here.
CopiedInTime ==
    missed < 2 => \A t \in taken : t < 24 * (PullDays - missed) => t \in Times(copies)

\* What has no result came with a pull.
ArrivesAtNoon ==
    \A c \in copies : c.verified = "none" => \E a \in 0 .. day : c.arrived = 24 * a + 12

\* A verify starts on a Sunday after the pull, and is over by Monday's check.
VerifyUnderWay ==
    verifying # {} =>
        \/ phase \in {"verify", "check"} /\ IsSunday(day)
        \/ phase \in {"backup", "sync", "verify"} /\ day > 0 /\ IsSunday(day - 1)

\* The verify of Sunday d has yet to come, or is under way and reads c.
ToVerify(c, d) ==
    \/ d = day /\ (phase \in {"backup", "sync"} \/ (phase = "verify" /\ verifying = {}))
    \/ d \in {day - 1, day} /\ c.time \in verifying

\* With every Sunday's verify run, none has passed over a copy that was here.
NonePassedOver ==
    ~ skipped => \A c \in copies : c.verified = "none" =>
        \A d \in 0 .. day : IsSunday(d) /\ c.arrived < 24 * d + 14 => ToVerify(c, d)

\* What the last check read is as it was.
AnswerStands ==
    JustChecked /\ "unreadable" \notin problems =>
        problems = Assess(taken, copies, CheckedAt)

FreshnessIInv ==
    /\ FreshnessTypeOK
    /\ TakenDaily
    /\ CopiedInTime
    /\ ArrivesAtNoon
    /\ VerifyUnderWay
    /\ NonePassedOver
    /\ AnswerStands

\* What the types say of the times.
LEMMA FreshnessTypes ==
    ASSUME FreshnessTypeOK
    PROVE  /\ day \in Nat /\ day <= MaxDay /\ MaxDay \in Nat
           /\ season \in Nat /\ season <= 11
           /\ Time = 0 .. 24 * (MaxDay + 1)
           /\ \A t \in taken : t \in Nat /\ t \in Time
           /\ \A c \in copies : /\ c \in Copy
                                /\ c.time \in Time /\ c.time \in Nat
                                /\ c.arrived \in Time /\ c.arrived \in Nat
                                /\ c.verified \in {"none", "ok", "failed"}
           /\ missed \in 0 .. 2 /\ missed \in Nat
<1>1. day \in Nat /\ day <= MaxDay /\ MaxDay \in Nat /\ season \in Nat /\ season <= 11
  BY FreshnessAssumption DEF FreshnessTypeOK
<1>2. Time = 0 .. 24 * (MaxDay + 1) /\ Time \subseteq Nat
  BY <1>1 DEF Time
<1>3. \A c \in Copy : /\ c.time \in Time /\ c.arrived \in Time
                      /\ c.verified \in {"none", "ok", "failed"}
  BY DEF Copy
<1>4. copies \subseteq Copy /\ taken \subseteq Time /\ missed \in 0 .. 2
  BY DEF FreshnessTypeOK
<1>5. QED BY <1>1, <1>2, <1>3, <1>4

LEMMA FreshnessInitIInv == ASSUME FreshnessInit PROVE FreshnessIInv
<1>1. FreshnessTypeOK
  <2>1. live \in BOOLEAN /\ skipped \in BOOLEAN
    BY Zenon DEF FreshnessInit
  <2>2. /\ day \in 0 .. MaxDay /\ missed \in 0 .. 2 /\ outages \in 0 .. MaxOutages
        /\ season \in BackupHours /\ phase \in Phases
        /\ taken \subseteq Time /\ copies \subseteq Copy
        /\ verifying \subseteq Time /\ problems \subseteq Problem
    BY FreshnessAssumption DEF FreshnessInit, Phases
  <2>3. QED BY <2>1, <2>2 DEF FreshnessTypeOK
<1>2. TakenDaily /\ CopiedInTime /\ ArrivesAtNoon /\ VerifyUnderWay /\ NonePassedOver
  BY DEF FreshnessInit, TakenDaily, CopiedInTime, ArrivesAtNoon, VerifyUnderWay, NonePassedOver
<1>3. AnswerStands
  BY DEF FreshnessInit, AnswerStands, JustChecked
<1>4. QED BY <1>1, <1>2, <1>3 DEF FreshnessIInv

\* The day's backup, or the end of the group's.
LEMMA FreshnessBackup ==
    ASSUME FreshnessIInv, TakeBackup \/ Retire
    PROVE  FreshnessIInv'
<1>1. /\ phase = "backup" /\ phase' = "sync"
      /\ UNCHANGED <<season, day, copies, verifying, problems, missed, outages, skipped>>
  BY DEF TakeBackup, Retire
<1>2. /\ day \in Nat /\ day <= MaxDay /\ MaxDay \in Nat /\ season \in Nat /\ season <= 11
      /\ Time = 0 .. 24 * (MaxDay + 1)
      /\ \A t \in taken : t \in Nat
      /\ missed \in Nat
  BY FreshnessTypes DEF FreshnessIInv
<1>3. \A t \in taken' : t \in taken \/ t = 24 * day + season
  BY DEF TakeBackup, Retire, At
<1>4. FreshnessTypeOK'
  <2>1. live' \in BOOLEAN
    BY Zenon DEF TakeBackup, Retire, FreshnessIInv, FreshnessTypeOK
  <2>2. 24 * day + season \in Time
    BY <1>2
  <2>3. taken' \subseteq Time
    BY <1>3, <2>2 DEF FreshnessIInv, FreshnessTypeOK
  <2>4. phase' \in Phases
    BY <1>1 DEF Phases
  <2>5. QED BY <1>1, <2>1, <2>3, <2>4 DEF FreshnessIInv, FreshnessTypeOK
<1>5. TakenDaily'
  <2> SUFFICES ASSUME NEW t \in taken' PROVE \E d \in 0 .. day : t = 24 * d + season
    BY <1>1 DEF TakenDaily
  <2>1. day \in 0 .. day
    BY <1>2
  <2>2. QED BY <1>3, <2>1 DEF FreshnessIInv, TakenDaily
<1>6. CopiedInTime'
  <2> SUFFICES ASSUME missed < 2, NEW t \in taken', t < 24 * (day - missed)
               PROVE  t \in Times(copies)
    BY <1>1 DEF CopiedInTime, PullDays, Times
  <2>1. t \in taken
    BY <1>2, <1>3
  <2>2. QED BY <1>1, <2>1 DEF FreshnessIInv, CopiedInTime, PullDays
<1>7. ArrivesAtNoon' /\ VerifyUnderWay' /\ NonePassedOver'
  BY <1>1 DEF FreshnessIInv, ArrivesAtNoon, VerifyUnderWay, NonePassedOver, ToVerify,
              IsSunday
<1>8. AnswerStands'
  BY <1>1 DEF AnswerStands, JustChecked
<1>9. QED BY <1>4, <1>5, <1>6, <1>7, <1>8 DEF FreshnessIInv

\* No two days running are Sundays.
LEMMA OneSunday ==
    ASSUME NEW d \in Nat, IsSunday(d), d > 0
    PROVE  ~ IsSunday(d - 1)
BY FreshnessAssumption DEF IsSunday

LEMMA FreshnessPull == ASSUME FreshnessIInv, PullCopies PROVE FreshnessIInv'
<1>1. /\ phase = "sync" /\ phase' = "verify" /\ missed' = 0
      /\ UNCHANGED <<season, day, live, taken, verifying, problems, outages, skipped>>
  BY DEF PullCopies
<1>2. /\ day \in Nat /\ day <= MaxDay /\ MaxDay \in Nat
      /\ Time = 0 .. 24 * (MaxDay + 1)
      /\ \A t \in taken : t \in Time
      /\ \A c \in copies : c.time \in Time
  BY FreshnessTypes DEF FreshnessIInv
<1>3. /\ \A c \in copies' : \/ c \in copies
                            \/ \E t \in taken \cup Times(copies) : c = Pulled(t)
      /\ \A t \in taken \cup Times(copies) : t \in Times(copies')
  <2>1. /\ \A c \in copies' : \/ c \in copies
                              \/ \E e \in copies : c = Pulled(e.time)
                              \/ \E t \in taken : c = Pulled(t)
        /\ \A c \in copies : c \in copies' \/ Pulled(c.time) \in copies'
        /\ \A t \in taken : t \in Times(copies) \/ Pulled(t) \in copies'
    BY DEF PullCopies, Resynced, Newest, Times
  <2>2. \A t : Pulled(t).time = t
    BY DEF Pulled
  <2>3. QED BY <2>1, <2>2 DEF Times
<1>4. \A t \in taken \cup Times(copies) :
        /\ Pulled(t) \in Copy
        /\ Pulled(t).arrived = 24 * day + 12
  <2>1. 24 * day + 12 \in Time
    BY <1>2
  <2>2. \A t \in taken \cup Times(copies) : t \in Time
    BY <1>2 DEF Times
  <2>3. QED BY <2>1, <2>2 DEF Pulled, At, Copy
<1>5. FreshnessTypeOK'
  <2>1. copies' \subseteq Copy
    BY <1>3, <1>4 DEF FreshnessIInv, FreshnessTypeOK
  <2>2. phase' \in Phases /\ missed' \in 0 .. 2
    BY <1>1 DEF Phases
  <2>3. QED BY <1>1, <2>1, <2>2 DEF FreshnessIInv, FreshnessTypeOK
<1>6. TakenDaily'
  BY <1>1 DEF FreshnessIInv, TakenDaily
<1>7. CopiedInTime'
  BY <1>1, <1>3 DEF CopiedInTime
<1>8. ArrivesAtNoon'
  <2> SUFFICES ASSUME NEW c \in copies', c.verified = "none"
               PROVE  \E a \in 0 .. day : c.arrived = 24 * a + 12
    BY <1>1 DEF ArrivesAtNoon
  <2>1. day \in 0 .. day
    BY <1>2
  <2>2. QED BY <1>3, <1>4, <2>1 DEF FreshnessIInv, ArrivesAtNoon
<1>9. VerifyUnderWay'
  BY <1>1 DEF FreshnessIInv, VerifyUnderWay, IsSunday
<1>10. NonePassedOver'
  <2> SUFFICES ASSUME ~ skipped, NEW c \in copies', c.verified = "none", NEW d \in 0 .. day,
                      IsSunday(d), c.arrived < 24 * d + 14
               PROVE  ToVerify(c, d)'
    BY <1>1 DEF NonePassedOver, IsSunday
  <2>1. CASE d = day
    <3>1. verifying = {}
      BY <1>1, <1>2, <2>1, OneSunday DEF FreshnessIInv, VerifyUnderWay
    <3>2. QED BY <1>1, <2>1, <3>1 DEF ToVerify
  <2>2. CASE d # day
    <3>1. d < day /\ d \in Nat
      BY <1>2, <2>2
    <3>2. c \in copies
      <4>1. ASSUME NEW t \in taken \cup Times(copies), c = Pulled(t) PROVE FALSE
        BY <1>2, <1>4, <3>1, <4>1
      <4>2. QED BY <1>3, <4>1
    <3>3. ToVerify(c, d)
      BY <3>2 DEF FreshnessIInv, NonePassedOver
    <3>4. QED BY <1>1, <2>2, <3>3 DEF ToVerify
  <2>3. QED BY <2>1, <2>2
<1>11. AnswerStands'
  BY <1>1 DEF AnswerStands, JustChecked
<1>12. QED BY <1>5, <1>6, <1>7, <1>8, <1>9, <1>10, <1>11 DEF FreshnessIInv

\* One more day without a pull.
LEMMA OneMoreMissed ==
    ASSUME NEW m \in 0 .. 2
    PROVE  Min({m + 1, 2}) = IF m = 0 THEN 1 ELSE 2
<1>1. PICK S, x : S = {m + 1, 2} /\ x = IF m = 0 THEN 1 ELSE 2
  OBVIOUS
<1>2. x \in S /\ \A y \in S : x <= y
  BY <1>1
<1>3. \A z \in S : (\A y \in S : z <= y) => z = x
  BY <1>1, <1>2
<1>4. Min(S) = CHOOSE z \in S : \A y \in S : z <= y
  BY DEF Min
<1>5. QED BY <1>1, <1>2, <1>3, <1>4

LEMMA FreshnessPullMissed ==
    ASSUME FreshnessIInv, PullMissed
    PROVE  FreshnessIInv'
<1>1. /\ phase = "sync" /\ phase' = "verify"
      /\ outages < MaxOutages /\ outages' = outages + 1
      /\ missed' = Min({missed + 1, 2})
      /\ UNCHANGED <<season, day, live, taken, copies, verifying, problems, skipped>>
  BY DEF PullMissed
<1>2. /\ day \in Nat /\ missed \in 0 .. 2 /\ MaxOutages \in Nat
      /\ \A t \in taken : t \in Nat
  BY FreshnessTypes, FreshnessAssumption DEF FreshnessIInv
<1>3. missed' = IF missed = 0 THEN 1 ELSE 2
  BY <1>1, <1>2, OneMoreMissed
<1>4. FreshnessTypeOK'
  BY <1>1, <1>2, <1>3 DEF FreshnessIInv, FreshnessTypeOK, Phases
<1>5. TakenDaily' /\ ArrivesAtNoon' /\ VerifyUnderWay'
  BY <1>1 DEF FreshnessIInv, TakenDaily, ArrivesAtNoon, VerifyUnderWay, IsSunday
<1>6. CopiedInTime'
  <2> SUFFICES ASSUME missed' < 2, NEW t \in taken, t < 24 * ((day + 1) - missed')
               PROVE  t \in Times(copies)
    BY <1>1 DEF CopiedInTime, PullDays, Times
  <2>1. missed = 0 /\ t < 24 * (day - missed)
    BY <1>2, <1>3
  <2>2. QED BY <1>1, <2>1 DEF FreshnessIInv, CopiedInTime, PullDays
<1>7. NonePassedOver'
  <2> SUFFICES ASSUME ~ skipped, NEW c \in copies, c.verified = "none", NEW d \in 0 .. day,
                      IsSunday(d), c.arrived < 24 * d + 14
               PROVE  ToVerify(c, d)'
    BY <1>1 DEF NonePassedOver, IsSunday
  <2>1. CASE d = day
    <3>1. verifying = {}
      BY <1>1, <1>2, <2>1, OneSunday DEF FreshnessIInv, VerifyUnderWay
    <3>2. QED BY <1>1, <2>1, <3>1 DEF ToVerify
  <2>2. CASE d # day
    <3>1. ToVerify(c, d)
      BY DEF FreshnessIInv, NonePassedOver
    <3>2. QED BY <1>1, <2>2, <3>1 DEF ToVerify
  <2>3. QED BY <2>1, <2>2
<1>8. AnswerStands'
  BY <1>1 DEF AnswerStands, JustChecked
<1>9. QED BY <1>4, <1>5, <1>6, <1>7, <1>8 DEF FreshnessIInv

\* What a verify's steps leave alone.
LEMMA FreshnessVerify ==
    ASSUME FreshnessIInv,
           VerifyStarts \/ VerifySkipped \/ NoResultYet
    PROVE  FreshnessIInv'
<1>1. /\ phase = "verify" /\ phase' \in {"verify", "check"}
      /\ UNCHANGED <<season, day, live, taken, copies, problems, missed, outages>>
  BY DEF VerifyStarts, VerifySkipped, NoResultYet
<1>2. \A c \in copies : c.time \in Time
  BY FreshnessTypes DEF FreshnessIInv
<1>3. FreshnessTypeOK'
  <2>1. skipped' \in BOOLEAN
    BY Zenon DEF VerifyStarts, VerifySkipped, NoResultYet, FreshnessIInv,
           FreshnessTypeOK
  <2>2. verifying' \subseteq Time
    <3>1. verifying' = verifying \/ \A t \in verifying' : \E c \in copies : t = c.time
      BY DEF VerifyStarts, VerifySkipped, NoResultYet
    <3>2. QED BY <1>2, <3>1 DEF FreshnessIInv, FreshnessTypeOK
  <2>3. phase' \in Phases
    BY <1>1 DEF Phases
  <2>4. QED BY <1>1, <2>1, <2>2, <2>3 DEF FreshnessIInv, FreshnessTypeOK
<1>4. TakenDaily' /\ CopiedInTime' /\ ArrivesAtNoon'
  BY <1>1 DEF FreshnessIInv, TakenDaily, CopiedInTime, PullDays, ArrivesAtNoon, Times
<1>5. VerifyUnderWay'
  BY <1>1 DEF VerifyStarts, VerifySkipped, NoResultYet, VerifyUnderWay,
              IsSunday
<1>6. NonePassedOver'
  <2> SUFFICES ASSUME ~ skipped', NEW c \in copies, c.verified = "none", NEW d \in 0 .. day,
                      IsSunday(d), c.arrived < 24 * d + 14
               PROVE  ToVerify(c, d)'
    BY <1>1 DEF NonePassedOver, IsSunday
  <2>1. ~ VerifySkipped /\ ~ skipped
    <3>1. VerifySkipped => skipped'
      BY Zenon DEF VerifySkipped
    <3>2. VerifyStarts \/ NoResultYet => skipped' = skipped
      BY SMT DEF VerifyStarts, NoResultYet
    <3>3. ~ skipped'
      OBVIOUS
    <3>4. ~ VerifySkipped
      BY <3>1, <3>3
    <3>5. skipped' = skipped
      BY <3>2, <3>4
    <3>6. QED BY <3>3, <3>4, <3>5
  <2>2. ToVerify(c, d)
    BY <2>1 DEF FreshnessIInv, NonePassedOver
  <2>3. CASE VerifyStarts
    <3>1. d = day /\ c.time \in verifying'
      BY <2>2, <2>3 DEF VerifyStarts, ToVerify
    <3>2. QED BY <1>1, <3>1 DEF ToVerify
  <2>4. CASE NoResultYet
    <3>1. verifying' = verifying
      BY <2>4 DEF NoResultYet
    <3>2. ~ (d = day /\ verifying = {})
      BY <2>4 DEF NoResultYet
    <3>3. QED BY <1>1, <2>2, <3>1, <3>2 DEF ToVerify
  <2>5. QED BY <2>1, <2>3, <2>4
<1>7. AnswerStands'
  BY <1>1 DEF AnswerStands, JustChecked
<1>8. QED BY <1>3, <1>4, <1>5, <1>6, <1>7 DEF FreshnessIInv

LEMMA FreshnessVerifyEnds ==
    ASSUME FreshnessIInv, VerifyEnds
    PROVE  FreshnessIInv'
<1>1. /\ phase = "verify" /\ phase' = "check" /\ verifying # {} /\ verifying' = {}
      /\ UNCHANGED <<season, day, live, taken, problems, missed, outages, skipped>>
  BY DEF VerifyEnds
<1>2. /\ day \in Nat /\ day <= MaxDay /\ MaxDay \in Nat
      /\ Time = 0 .. 24 * (MaxDay + 1)
      /\ \A c \in copies : c \in Copy /\ c.time \in Time
  BY FreshnessTypes DEF FreshnessIInv
<1>3. PICK damaged : copies' =
        {IF c.time \in verifying
         THEN [time |-> c.time, arrived |-> At(14),
               verified |-> IF c.time \in damaged THEN "failed" ELSE "ok"]
         ELSE c : c \in copies}
  BY DEF VerifyEnds
<1>4. /\ \A c \in copies' : \/ c \in copies /\ c.time \notin verifying
                            \/ c \in Copy /\ c.verified # "none"
      /\ \A t \in Times(copies) : t \in Times(copies')
  <2>1. At(14) \in Time
    BY <1>2 DEF At
  <2>2. \A c \in copies :
          LET r == [time |-> c.time, arrived |-> At(14),
                    verified |-> IF c.time \in damaged THEN "failed" ELSE "ok"]
          IN r \in Copy /\ r.verified # "none" /\ r.time = c.time
    BY <1>2, <2>1 DEF Copy
  <2>3. QED BY <1>3, <2>2 DEF Times
<1>5. FreshnessTypeOK'
  <2>1. phase' \in Phases /\ copies' \subseteq Copy
    BY <1>1, <1>2, <1>4 DEF Phases
  <2>2. QED BY <1>1, <2>1 DEF FreshnessIInv, FreshnessTypeOK
<1>6. TakenDaily' /\ VerifyUnderWay'
  BY <1>1 DEF FreshnessIInv, TakenDaily, VerifyUnderWay
<1>7. CopiedInTime'
  BY <1>1, <1>4 DEF FreshnessIInv, CopiedInTime, PullDays
<1>8. ArrivesAtNoon'
  BY <1>1, <1>4 DEF FreshnessIInv, ArrivesAtNoon
<1>9. NonePassedOver'
  <2> SUFFICES ASSUME ~ skipped, NEW c \in copies', c.verified = "none", NEW d \in 0 .. day,
                      IsSunday(d), c.arrived < 24 * d + 14
               PROVE  FALSE
    BY <1>1 DEF NonePassedOver, IsSunday
  <2>1. c \in copies /\ c.time \notin verifying
    BY <1>4
  <2>2. ToVerify(c, d)
    BY <2>1 DEF FreshnessIInv, NonePassedOver
  <2>3. QED BY <1>1, <2>1, <2>2 DEF ToVerify
<1>10. AnswerStands'
  BY <1>1 DEF AnswerStands, JustChecked
<1>11. QED BY <1>5, <1>6, <1>7, <1>8, <1>9, <1>10 DEF FreshnessIInv

\* The check, whether or not it could read both stores.
LEMMA FreshnessCheck ==
    ASSUME FreshnessIInv, Check \/ CheckCannotRead
    PROVE  FreshnessIInv'
<1>1. /\ phase = "check" /\ phase' = "backup" /\ day < MaxDay /\ day' = day + 1
      /\ UNCHANGED <<season, live, taken, copies, verifying, missed, outages, skipped>>
      /\ problems' \in {Assess(taken, copies, At(18)), {"unreadable"}}
  BY DEF Check, CheckCannotRead, NextDay
<1>2. /\ day \in Nat /\ MaxDay \in Nat
      /\ \A d \in 0 .. day : d \in Nat /\ d \in 0 .. day + 1
  BY FreshnessTypes DEF FreshnessIInv
<1>3. FreshnessTypeOK'
  <2>1. problems' \subseteq Problem
    BY <1>1 DEF Assess, Problem
  <2>2. phase' \in Phases /\ day' \in 0 .. MaxDay
    BY <1>1, <1>2 DEF Phases
  <2>3. QED BY <1>1, <2>1, <2>2 DEF FreshnessIInv, FreshnessTypeOK
<1>4. TakenDaily'
  <2> SUFFICES ASSUME NEW t \in taken
               PROVE  \E d \in 0 .. day + 1 : t = 24 * d + season /\ d < day + 1
    BY <1>1 DEF TakenDaily
  <2>1. PICK d \in 0 .. day : t = 24 * d + season
    BY DEF FreshnessIInv, TakenDaily
  <2>2. d \in 0 .. day + 1 /\ d < day + 1
    BY <1>2
  <2>3. QED BY <2>1, <2>2
<1>5. CopiedInTime'
  BY <1>1 DEF FreshnessIInv, CopiedInTime, PullDays, Times
<1>6. ArrivesAtNoon'
  BY <1>1, <1>2 DEF FreshnessIInv, ArrivesAtNoon
<1>7. VerifyUnderWay'
  <2>1. verifying # {} => IsSunday(day)
    BY <1>1 DEF FreshnessIInv, VerifyUnderWay
  <2>2. day' > 0 /\ day' - 1 = day
    BY <1>1, <1>2
  <2>3. QED BY <1>1, <2>1, <2>2 DEF VerifyUnderWay, IsSunday
<1>8. NonePassedOver'
  <2> SUFFICES ASSUME ~ skipped, NEW c \in copies, c.verified = "none", NEW d \in 0 .. day + 1,
                      IsSunday(d), c.arrived < 24 * d + 14
               PROVE  ToVerify(c, d)'
    BY <1>1 DEF NonePassedOver, IsSunday
  <2>1. CASE d = day + 1
    BY <1>1, <2>1 DEF ToVerify
  <2>2. CASE d # day + 1
    <3>1. d \in 0 .. day
      BY <1>2, <2>2
    <3>2. d \in {day - 1, day} /\ c.time \in verifying
      BY <1>1, <3>1 DEF FreshnessIInv, NonePassedOver, ToVerify
    <3>3. IsSunday(day)
      BY <1>1, <3>2 DEF FreshnessIInv, VerifyUnderWay
    <3>4. d = day
      BY <1>2, <3>1, <3>2, <3>3, OneSunday
    <3>5. d = day' - 1
      BY <1>1, <1>2, <3>4
    <3>6. QED BY <1>1, <3>2, <3>5 DEF ToVerify
  <2>3. QED BY <2>1, <2>2
<1>9. AnswerStands'
  <2>1. CheckedAt' = At(18)
    BY <1>1, <1>2 DEF CheckedAt, At
  <2>2. \/ problems' = Assess(taken', copies', CheckedAt')
        \/ "unreadable" \in problems'
    BY <1>1, <2>1
  <2>3. QED BY <2>2 DEF AnswerStands
<1>10. QED BY <1>3, <1>4, <1>5, <1>6, <1>7, <1>8, <1>9 DEF FreshnessIInv

LEMMA FreshnessStutter ==
    ASSUME FreshnessIInv, UNCHANGED freshnessVars
    PROVE  FreshnessIInv'
<1>1. UNCHANGED <<season, day, phase, live, taken, copies, verifying, problems, missed,
                  outages, skipped>>
  BY DEF freshnessVars
<1>2. FreshnessTypeOK' /\ TakenDaily' /\ CopiedInTime' /\ ArrivesAtNoon'
  BY <1>1 DEF FreshnessIInv, FreshnessTypeOK, TakenDaily, CopiedInTime, PullDays, Times, ArrivesAtNoon
<1>3. VerifyUnderWay' /\ NonePassedOver'
  BY <1>1 DEF FreshnessIInv, VerifyUnderWay, NonePassedOver, ToVerify, IsSunday
<1>4. AnswerStands'
  BY <1>1 DEF FreshnessIInv, AnswerStands, JustChecked, CheckedAt
<1>5. QED BY <1>2, <1>3, <1>4 DEF FreshnessIInv

\* PBS #2's invariant holds of every behaviour.
THEOREM FreshnessInductive == FreshnessSpec => []FreshnessIInv
<1>1. FreshnessInit => FreshnessIInv
  BY FreshnessInitIInv
<1>2. FreshnessIInv /\ [FreshnessNext]_freshnessVars => FreshnessIInv'
  BY FreshnessBackup, FreshnessPull, FreshnessPullMissed, FreshnessVerify, FreshnessVerifyEnds,
     FreshnessCheck, FreshnessStutter DEF FreshnessNext
<1>3. QED BY <1>1, <1>2, PTL DEF FreshnessSpec

\* The variables of PBS #2's check keep their types.
THEOREM FreshnessTypeCorrect == FreshnessSpec => []FreshnessTypeOK
<1>1. FreshnessIInv => FreshnessTypeOK
  BY DEF FreshnessIInv
<1>2. QED BY <1>1, FreshnessInductive, PTL

-----------------------------------------------------------------------------
\* The newest of some snapshots.
LEMMA NewestIs ==
    ASSUME NEW T, T # {}, NEW limit \in Nat, T \subseteq 0 .. limit
    PROVE  Max(T) \in T /\ \A t \in T : t <= Max(T)
<1> DEFINE back == {limit - t : t \in T}
<1>1. PICK s \in back : \A y \in back : ~ (<<y, s>> \in OpToRel(<, Nat))
  <2>1. back # {} /\ back \subseteq Nat
    <3>1. \A t \in T : limit - t \in Nat
      OBVIOUS
    <3>2. PICK t \in T : TRUE
      OBVIOUS
    <3>3. limit - t \in back
      OBVIOUS
    <3>4. QED BY <3>1, <3>3
  <2> HIDE DEF back
  <2>2. QED BY <2>1, NatLessThanWellFounded, WFMin
<1>2. PICK x \in T : s = limit - x
  OBVIOUS
<1>3. \A y \in T : y <= x
  <2> SUFFICES ASSUME NEW y \in T PROVE y <= x
    OBVIOUS
  <2>1. limit - y \in back /\ limit - y \in Nat /\ s \in Nat
    BY <1>2
  <2>2. ~ (limit - y < s)
    BY <1>1, <2>1 DEF OpToRel
  <2>3. QED BY <1>2, <2>2
<1>4. Max(T) = CHOOSE z \in T : \A y \in T : z >= y
  BY DEF Max
<1>5. QED BY <1>3, <1>4

\* Any seven days have their Sunday.
LEMMA SundayWithin ==
    ASSUME NEW k \in Nat, k >= 7
    PROVE  \E d \in (k - 7) .. (k - 1) : IsSunday(d)
<1>1. Sunday \in 0 .. 6
  BY FreshnessAssumption
<1>2. \E j \in 0 .. 6 : (k - 7 + j) % 7 = Sunday
  BY <1>1
<1>3. PICK j \in 0 .. 6 : (k - 7 + j) % 7 = Sunday
  BY <1>2
<1>4. k - 7 + j \in (k - 7) .. (k - 1)
  OBVIOUS
<1>5. QED BY <1>3, <1>4 DEF IsSunday

\* Two Sundays are a week apart.
LEMMA WeekApart ==
    ASSUME NEW d \in Nat, NEW e \in Nat, d < e,
           IsSunday(d), IsSunday(e)
    PROVE  d + 7 <= e
BY FreshnessAssumption DEF IsSunday

\* Fewer than two, when any two are the same.
LEMMA FewerThanTwo ==
    ASSUME NEW S, \A x, y \in S : x = y
    PROVE  Cardinality(S) < 2
<1>1. Cardinality(S) = Cardinality(S)
  BY DEF Cardinality, Cardinality
<1>2. CASE S = {}
  BY <1>1, <1>2, FS_EmptySet
<1>3. CASE S # {}
  <2>1. PICK x \in S : S = {x}
    BY <1>3
  <2>2. Cardinality({x}) = 1
    BY FS_Singleton
  <2>3. QED BY <1>1, <2>1, <2>2
<1>4. QED BY <1>2, <1>3

\* With limits that leave the schedule its time, the check of PBS #2 finds nothing
\* but damage while pulls and verifies keep to it, however many days and outages.
THEOREM FreshnessQuiet ==
    ASSUME QuietLimits
    PROVE  FreshnessSpec => []QuietOnSchedule
<1>1. ASSUME FreshnessIInv PROVE QuietOnSchedule
  <2> SUFFICES ASSUME JustChecked, missed < 2, ~ skipped, "unreadable" \notin problems
               PROVE  problems \subseteq {"failed"}
    BY DEF QuietOnSchedule
  <2>1. /\ day \in Nat /\ day > 0 /\ phase = "backup" /\ MaxDay \in Nat
        /\ \A t \in taken : t \in Nat /\ t \in 0 .. 24 * (MaxDay + 1)
        /\ missed \in Nat
        /\ SyncLimit \in Nat /\ VerifyLimit \in Nat
        /\ CheckedAt = 24 * (day - 1) + 18
    BY <1>1, FreshnessTypes, FreshnessAssumption DEF FreshnessIInv, JustChecked, CheckedAt
  <2>2. problems = Assess(taken, copies, CheckedAt)
    BY <1>1 DEF FreshnessIInv, AnswerStands
  <2>3. ~ NotCopied(taken, copies, CheckedAt)
    <3> DEFINE due == {t \in taken : t <= CheckedAt - SyncLimit}
    <3> SUFFICES ASSUME due # {} PROVE Max(due) \in Times(copies)
      BY DEF NotCopied, Times
    <3>1. Max(due) \in due
      <4>1. due \subseteq 0 .. 24 * (MaxDay + 1) /\ 24 * (MaxDay + 1) \in Nat
        BY <2>1
      <4> HIDE DEF due
      <4>2. QED BY <4>1, NewestIs
    <3>2. PICK m : m = Max(due)
      OBVIOUS
    <3>3. m \in taken /\ m <= CheckedAt - SyncLimit
      BY <3>1, <3>2
    <3>4. m < 24 * (day - missed)
      BY <2>1, <3>3 DEF QuietLimits
    <3>5. PullDays = day
      BY <2>1 DEF PullDays
    <3>6. m \in Times(copies)
      BY <1>1, <3>3, <3>4, <3>5 DEF FreshnessIInv, CopiedInTime
    <3>7. QED BY <3>2, <3>6
  <2>4. ASSUME NEW c \in copies PROVE ~ Unverified(c, CheckedAt)
    <3> SUFFICES ASSUME c.verified = "none", c.arrived <= CheckedAt - VerifyLimit
                 PROVE  FALSE
      BY DEF Unverified
    <3>1. PICK a \in 0 .. day : c.arrived = 24 * a + 12
      BY <1>1 DEF FreshnessIInv, ArrivesAtNoon
    <3>2. a \in Nat /\ a <= day - 8
      BY <2>1, <3>1 DEF QuietLimits
    <3>3. PICK d \in (day - 8) .. (day - 2) : IsSunday(d)
      <4>1. day - 1 \in Nat /\ day - 1 >= 7
        BY <2>1, <3>2
      <4>2. (day - 1) - 7 = day - 8 /\ (day - 1) - 1 = day - 2
        BY <2>1
      <4>3. QED BY <4>1, <4>2, SundayWithin
    <3>4. d \in 0 .. day /\ c.arrived < 24 * d + 14 /\ d # day /\ d # day - 1
      BY <2>1, <3>1, <3>2, <3>3
    <3>5. ToVerify(c, d)
      BY <1>1, <3>3, <3>4 DEF FreshnessIInv, NonePassedOver
    <3>6. QED BY <3>4, <3>5 DEF ToVerify
  <2>5. QED BY <2>2, <2>3, <2>4 DEF Assess
<1>2. FreshnessIInv => QuietOnSchedule
  BY <1>1
<1>3. QED BY <1>2, FreshnessInductive, PTL

\* With limits the schedule's lapses outlast, a pass of the check of PBS #2 means
\* what PassIsDeserved says of it, however many days and outages.
THEOREM FreshnessDeserved ==
    ASSUME DeservedLimits
    PROVE  FreshnessSpec => []PassIsDeserved
<1>1. ASSUME FreshnessIInv PROVE PassIsDeserved
  <2> SUFFICES ASSUME JustChecked, problems = {}
               PROVE  /\ ~ (missed = 2 /\ \E t \in taken :
                                /\ (t \div 24) = day - 2
                                /\ \A c \in copies : c.time < t)
                      /\ \A c \in copies :
                          \/ c.verified = "ok"
                          \/ Cardinality({d \in 0 .. day :
                                /\ IsSunday(d)
                                /\ c.arrived < 24 * d + 14
                                /\ 24 * d + 14 <= CheckedAt - 48}) < 2
    BY DEF PassIsDeserved
  <2>1. /\ day \in Nat /\ day > 0 /\ MaxDay \in Nat
        /\ season \in Nat /\ season <= 11
        /\ \A t \in taken : t \in Nat /\ t \in 0 .. 24 * (MaxDay + 1)
        /\ \A c \in copies : c.time \in Nat /\ c.verified \in {"none", "ok", "failed"}
        /\ SyncLimit \in Nat /\ VerifyLimit \in Nat
        /\ CheckedAt = 24 * (day - 1) + 18
    BY <1>1, FreshnessTypes, FreshnessAssumption DEF FreshnessIInv, JustChecked, CheckedAt
  <2>2. Assess(taken, copies, CheckedAt) = {}
    BY <1>1 DEF FreshnessIInv, AnswerStands
  <2>3. /\ ~ NotCopied(taken, copies, CheckedAt)
        /\ \A c \in copies : c.verified # "failed" /\ ~ Unverified(c, CheckedAt)
    BY <2>2 DEF Assess, Problem
  <2>4. ASSUME NEW t \in taken, (t \div 24) = day - 2, \A c \in copies : c.time < t
        PROVE  FALSE
    <3> DEFINE due == {s \in taken : s <= CheckedAt - SyncLimit}
    <3>1. PICK d \in 0 .. day : t = 24 * d + season
      BY <1>1 DEF FreshnessIInv, TakenDaily
    <3>2. d = day - 2
      BY <2>1, <2>4, <3>1
    <3>3. t \in due
      BY <2>1, <3>1, <3>2 DEF DeservedLimits
    <3>4. due \subseteq 0 .. 24 * (MaxDay + 1) /\ 24 * (MaxDay + 1) \in Nat
      BY <2>1
    <3>5. Max(due) \in Times(copies)
      BY <2>3, <3>3 DEF NotCopied, Times
    <3>6. PICK c \in copies : c.time = Max(due)
      BY <3>5 DEF Times
    <3>7. t <= c.time
      <4> HIDE DEF due
      <4>1. QED BY <3>3, <3>4, <3>6, NewestIs
    <3>8. QED BY <2>1, <2>4, <3>7
  <2>5. ASSUME NEW c \in copies, c.verified # "ok"
        PROVE  Cardinality({d \in 0 .. day : /\ IsSunday(d)
                                             /\ c.arrived < 24 * d + 14
                                             /\ 24 * d + 14 <= CheckedAt - 48}) < 2
    <3> DEFINE passed == {d \in 0 .. day : /\ IsSunday(d)
                                           /\ c.arrived < 24 * d + 14
                                           /\ 24 * d + 14 <= CheckedAt - 48}
    <3>1. c.verified = "none" /\ ~ (c.arrived <= CheckedAt - VerifyLimit)
      BY <2>1, <2>3, <2>5 DEF Unverified
    <3>2. PICK a \in 0 .. day : c.arrived = 24 * a + 12
      BY <1>1, <3>1 DEF FreshnessIInv, ArrivesAtNoon
    <3>3. ASSUME NEW d \in passed, NEW e \in passed, d < e PROVE FALSE
      <4>1. d \in Nat /\ e \in Nat /\ a \in Nat
        BY <2>1, <3>2
      <4>2. d + 7 <= e
        BY <3>3, <4>1, WeekApart
      <4>3. a <= d /\ e <= day - 3
        BY <2>1, <3>2, <3>3, <4>1
      <4>4. a <= day - 10
        BY <2>1, <4>1, <4>2, <4>3
      <4>5. QED BY <2>1, <3>1, <3>2, <4>1, <4>4 DEF DeservedLimits
    <3>4. \A d, e \in passed : d = e
      <4> SUFFICES ASSUME NEW d \in passed, NEW e \in passed, d # e PROVE FALSE
        OBVIOUS
      <4>1. d \in Nat /\ e \in Nat
        BY <2>1
      <4>2. d < e \/ e < d
        BY <4>1
      <4> HIDE DEF passed
      <4>3. QED BY <3>3, <4>2
    <3> HIDE DEF passed
    <3>5. Cardinality(passed) < 2
      BY <3>4, FewerThanTwo
    <3>6. QED BY <3>5 DEF passed
  <2>6. QED BY <2>4, <2>5
<1>2. FreshnessIInv => PassIsDeserved
  BY <1>1
<1>3. QED BY <1>2, FreshnessInductive, PTL
=============================================================================
