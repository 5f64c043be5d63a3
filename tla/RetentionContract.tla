------------------------- MODULE RetentionContract -------------------------
(***************************************************************************)
(* What the offsite store promises, without saying how it keeps it.        *)
(*                                                                         *)
(* Another store, the source, holds snapshots of its own and marks some of *)
(* them as not to be lost.  This store learns of the marks only now and    *)
(* then.  A copy leaves this store in one of two ways: retention evicts it *)
(* -- only once the marks have been read since the last copies arrived,    *)
(* never a marked snapshot the source still holds, and only with enough    *)
(* newer copies of the same group left -- or someone discards it by hand,  *)
(* which is done only to what the source no longer holds.                  *)
(***************************************************************************)
EXTENDS Naturals, FiniteSets

CONSTANTS Snapshot,   \* records with at least the fields group and time
          Keep        \* how many newer copies an eviction leaves behind

VARIABLES source,     \* what the other store holds
          demand,     \* the marked snapshots, as last read, it still holds
          current,    \* whether the marks were read since copies last arrived
          held        \* the copies here

vars == <<source, demand, current, held>>

TypeOK ==
    /\ source \in SUBSET Snapshot
    /\ demand \in SUBSET Snapshot
    /\ current \in BOOLEAN
    /\ held \in SUBSET Snapshot

Init ==
    /\ source = {}
    /\ demand = {}
    /\ current = FALSE
    /\ held = {}

-----------------------------------------------------------------------------
\* The source gains and loses snapshots; a lost one is no longer demanded.
SourceChanges ==
    /\ source' \in SUBSET Snapshot
    /\ demand' = demand \cap source'
    /\ UNCHANGED <<current, held>>

\* Copies arrive.  What was read of the marks before is out of date.
Receive ==
    /\ \E arriving \in SUBSET source : held' = held \cup arriving
    /\ demand' = {}
    /\ current' = FALSE
    /\ UNCHANGED source

\* The marks are read.
ReadMarks ==
    /\ demand' \in SUBSET source
    /\ current' = TRUE
    /\ UNCHANGED <<source, held>>

\* What was read is given up.
Forget ==
    /\ demand' = {}
    /\ current' = FALSE
    /\ UNCHANGED <<source, held>>

\* snapshot is outlived in kept: Keep newer ones of its group are there.
Outlived(snapshot, kept) ==
    \E newer \in SUBSET {s \in kept : /\ s.group = snapshot.group
                                      /\ s.time > snapshot.time} :
        Cardinality(newer) = Keep

Evict ==
    /\ current
    /\ \E evicted \in SUBSET (held \ demand) :
        /\ \A s \in evicted : Outlived(s, held \ evicted)
        /\ held' = held \ evicted
    /\ demand' = {}
    /\ current' = FALSE
    /\ UNCHANGED source

Discard ==
    /\ \E s \in held \ source : held' = held \ {s}
    /\ UNCHANGED <<source, demand, current>>

Next ==
    \/ SourceChanges
    \/ Receive
    \/ ReadMarks
    \/ Forget
    \/ Evict
    \/ Discard

Spec == Init /\ [][Next]_vars
=============================================================================
