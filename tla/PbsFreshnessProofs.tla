------------------------- MODULE PbsFreshnessProofs -------------------------
(***************************************************************************)
(* What the check of pbs_freshness.py makes of its schedule, for any       *)
(* guests and any hours.  The reports need nothing but what a check reads; *)
(* the failures need hours that fit each other, which LimitFits says; and  *)
(* the types need that no check comes after the last day's.                *)
(***************************************************************************)
EXTENDS PbsFreshness, TLAPS

\* A guest reached no later than an hour into yesterday's run is past the limit,
\* in whole hours, at today's check.
LimitFits == 2 * LimitHours + RunAt + 2 <= CheckAt + 46

IInv ==
    /\ TypeOK
    /\ phase = "check" => day <= MaxDay

-----------------------------------------------------------------------------
\* A guest's group is one of the datastore's, whichever name is used for it.
LEMMA GroupOfGuest ==
    ASSUME NEW v \in Vmid
    PROVE  GroupOf(v) = OwnGroup(v) /\ OwnGroup(v) \in Group
BY DEF GroupOf, GroupName, OwnGroup, Group

\* The two lists of a check are of groups.
LEMMA ListsAreOfGroups ==
    /\ Problems(At(CheckAt)) \subseteq Group \X {"never", "old"}
    /\ Reports \subseteq Group \X {"excluded", "gone"}
<1>1. \A v \in Scope \cup Live : GroupOf(v) \in Group
  BY GroupOfGuest DEF Scope, Live
<1>2. QED BY <1>1 DEF Problems, Reports

\* Nothing but a check that could read everything leaves a verdict about guests.
LEMMA OnlyCheckChecks ==
    ASSUME [Next]_vars, Checking
    PROVE  Check
<1>1. ~CheckFails
  BY DEF CheckFails, Checking
<1>2. ~Run /\ ~UNCHANGED vars
  BY DEF Run, Checking, vars
<1>3. ~Change
  BY DEF Change, Checking
<1>4. QED
  BY <1>1, <1>2, <1>3 DEF Next, Destroy, Create, SetExcluded, SetJob, EmptyGroup

-----------------------------------------------------------------------------
\* Every initial state satisfies the inductive invariant.
LEMMA InitIInv == Init => IInv
BY PbsFreshnessAssumption DEF Init, IInv, TypeOK

\* The day's run leaves each group it reaches with a time of that day.
LEMMA RunTypes ==
    ASSUME IInv, Run
    PROVE  newest' \in [Group -> (0 .. 48 * (MaxDay + 1)) \cup {Absent}]
<1>0. PICK carried \in SUBSET Vmid : \E late \in [carried -> 0 .. RunLasts] :
        newest' = [g \in Group |->
            IF \E v \in carried : GroupName(v, live[v]) = g
            THEN At(RunAt + late[g[2]]) ELSE newest[g]]
  BY DEF Run, Live
<1>1. PICK late \in [carried -> 0 .. RunLasts] :
        newest' = [g \in Group |->
            IF \E v \in carried : GroupName(v, live[v]) = g
            THEN At(RunAt + late[g[2]]) ELSE newest[g]]
  BY <1>0
<1>2. SUFFICES ASSUME NEW g \in Group, NEW v \in carried, GroupName(v, live[v]) = g
               PROVE  At(RunAt + late[g[2]]) \in 0 .. 48 * (MaxDay + 1)
  BY <1>1 DEF IInv, TypeOK
<1>3. g[2] = v /\ late[v] \in 0 .. RunLasts
  BY <1>2 DEF GroupName
<1>4. day \in Nat /\ day <= MaxDay
  BY PbsFreshnessAssumption DEF IInv, TypeOK, Run
<1>5. QED BY <1>3, <1>4, PbsFreshnessAssumption DEF At

\* Every step keeps the invariant.
LEMMA NextIInv == IInv /\ [Next]_vars => IInv'
<1> SUFFICES ASSUME IInv, [Next]_vars PROVE IInv'
  OBVIOUS
<1> USE PbsFreshnessAssumption DEF IInv, TypeOK
<1>1. CASE \E v \in Vmid : Destroy(v) \/ \E type \in GuestType : Create(v, type)
  BY <1>1 DEF Change, Destroy, Create
<1>2. CASE \E S \in SUBSET Vmid : SetExcluded(S)
  BY <1>2 DEF Change, SetExcluded
<1>3. CASE \E state \in {"enabled", "disabled", "partial"} : SetJob(state)
  BY <1>3 DEF Change, SetJob
<1>4. CASE \E g \in Group : EmptyGroup(g)
  BY <1>4 DEF Change, EmptyGroup, estate
<1>5. CASE Run
  BY <1>5, RunTypes DEF Run
<1>6. CASE Check \/ CheckFails
  <2>1. CheckDone
    BY <1>6 DEF Check, CheckFails
  <2>2. /\ problems' \subseteq (Group \X {"never", "old"})
                        \cup ({Absent} \X {"unreadable", "push"})
        /\ reports' \subseteq Group \X {"excluded", "gone"}
    BY <1>6, ListsAreOfGroups DEF Check, CheckFails
  <2>3. QED BY <2>1, <2>2 DEF CheckDone
<1>7. CASE UNCHANGED vars
  BY <1>7 DEF vars
<1>8. QED
  BY <1>1, <1>2, <1>3, <1>4, <1>5, <1>6, <1>7 DEF Next

\* The invariant holds of every behaviour.
THEOREM InductiveInvariant == Spec => []IInv
BY InitIInv, NextIInv, PTL DEF Spec

\* The variables keep their types.
THEOREM TypeCorrect == Spec => []TypeOK
<1>1. IInv => TypeOK
  BY DEF IInv
<1>2. QED BY <1>1, InductiveInvariant, PTL

-----------------------------------------------------------------------------
\* No group fails a check but a live in-scope guest's own, and every other group
\* and guest is reported, whatever the guests, the scope and the hours.
THEOREM OthersReport == Spec => EverythingElseReports
<1> DEFINE Others ==
      /\ \A p \in problems' \ {<<Absent, "push">>} : \E v \in InScope : p[1] = OwnGroup(v)
      /\ \A g \in Group :
          (newest[g] # Absent \/ \E v \in Live : OwnGroup(v) = g)
              /\ (\A v \in InScope : OwnGroup(v) # g) =>
                  \E why \in {"excluded", "gone"} : <<g, why>> \in reports'
<1>1. ASSUME [Next]_vars, Checking PROVE Others
  <2>1. Check /\ InScope = Scope /\ Live \subseteq Vmid
    BY <1>1, OnlyCheckChecks DEF InScope, Scope, Live
  <2>2. ASSUME NEW p \in problems' \ {<<Absent, "push">>}
        PROVE  \E v \in InScope : p[1] = OwnGroup(v)
    <3>1. p \in Problems(At(CheckAt))
      BY <2>1, <2>2 DEF Check
    <3>2. PICK v \in Scope : p[1] = GroupOf(v)
      BY <3>1 DEF Problems
    <3>3. QED BY <2>1, <3>2, GroupOfGuest DEF Scope
  <2>3. ASSUME NEW g \in Group, \A v \in InScope : OwnGroup(v) # g,
               newest[g] # Absent \/ \E v \in Live : OwnGroup(v) = g
        PROVE  \E why \in {"excluded", "gone"} : <<g, why>> \in Reports
    <3>1. CASE \E v \in Live : OwnGroup(v) = g
      <4>1. PICK v \in Live : OwnGroup(v) = g
        BY <3>1
      <4>2. v \in Live \ Scope /\ GroupOf(v) = g
        BY <2>1, <2>3, <4>1, GroupOfGuest
      <4>3. QED BY <4>2 DEF Reports
    <3>2. CASE \A v \in Live : OwnGroup(v) # g
      <4>1. \A v \in Live : GroupOf(v) # g
        BY <2>1, <3>2, GroupOfGuest
      <4>2. QED BY <2>3, <3>2, <4>1 DEF Reports
    <3>3. QED BY <3>1, <3>2
  <2>4. QED BY <2>1, <2>2, <2>3 DEF Check
<1>2. QED BY <1>1, PTL DEF Spec, EverythingElseReports

\* With hours that fit each other, a guest that today's run missed fails the
\* morning's check, unless yesterday's reached it more than an hour in.
THEOREM MissedFails == ASSUME LimitFits PROVE Spec => NotLandedFails
<1> DEFINE Missed(v) ==
      LET own == OwnGroup(v)
          reachedLate == newest[own] + 48 > At(RunAt + 2)
      IN ~Held(own) \/ (newest[own] < At(0) /\ ~reachedLate) =>
          \E why \in {"never", "old"} : <<own, why>> \in problems'
<1>1. ASSUME IInv, [Next]_vars, Checking, NEW v \in InScope PROVE Missed(v)
  <2>1. /\ Problems(At(CheckAt)) \subseteq problems'
        /\ v \in Scope /\ GroupOf(v) = OwnGroup(v) /\ OwnGroup(v) \in Group
    BY <1>1, OnlyCheckChecks, GroupOfGuest DEF Check, InScope, Scope, Live
  <2>2. CASE ~Held(OwnGroup(v))
    BY <2>1, <2>2 DEF Problems
  <2>3. CASE Held(OwnGroup(v)) /\ ~(newest[OwnGroup(v)] + 48 > At(RunAt + 2))
    <3>1. newest[OwnGroup(v)] \in Nat /\ day \in Nat
      BY <1>1, <2>1, <2>3, PbsFreshnessAssumption DEF IInv, TypeOK, Held
    <3>2. (At(CheckAt) - newest[OwnGroup(v)]) \div 2 > LimitHours
      BY <2>3, <3>1, PbsFreshnessAssumption, LimitFits DEF At, LimitFits
    <3>3. QED BY <2>1, <2>3, <3>2 DEF Problems
  <2>4. QED BY <2>2, <2>3
<1>2. IInv /\ [Next]_vars => (Checking => \A v \in InScope : Missed(v))
  BY <1>1
<1>3. QED BY <1>2, InductiveInvariant, PTL DEF Spec, NotLandedFails
=============================================================================
