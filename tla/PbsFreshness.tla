---------------------------- MODULE PbsFreshness ----------------------------
(***************************************************************************)
(* pbs-freshness (ansible/files/pbs_freshness.py) on the PVE host: the     *)
(* vzdump job's scope, the live guests and the datastore's groups, read    *)
(* and compared once a day, while guests come, go, change type under a     *)
(* VMID and leave the job's scope.  Times are half-hours since midnight    *)
(* of day 0, host time, so that the age limit meets the schedule as        *)
(* deployed.  VmidReuse models what the check says of a reused VMID.       *)
(***************************************************************************)
EXTENDS Naturals, FiniteSets

CONSTANTS Vmid,
          Absent,      \* no such guest, no such group
          MaxDay,      \* bound: the days a behaviour lasts
          MaxChanges,  \* bound: changes to guests, scope and job
          RunAt,       \* when the vzdump job starts
          RunLasts,    \* how much later it may start on a guest
          CheckAt,     \* when the check runs
          LimitHours   \* the limit in hours, given on its command line

ASSUME PbsFreshnessAssumption ==
    /\ MaxDay \in Nat
    /\ MaxChanges \in Nat
    /\ RunAt \in Nat /\ RunLasts \in Nat /\ CheckAt \in Nat
    /\ RunAt + RunLasts <= CheckAt
    /\ CheckAt < 48
    /\ LimitHours \in Nat
    /\ Absent \notin Nat

VARIABLES live,      \* /etc/pve/.vmlist: each VMID's guest type, or Absent
          excluded,  \* jobs.cfg: the VMIDs the vzdump job leaves out
          job,       \* jobs.cfg: the job is enabled over all, or it is not
          newest,    \* each group's newest backup; 0 for none, or Absent
          day,
          phase,     \* whether the run or the check comes next
          problems,  \* what the last check failed on
          reports,   \* what it only reported
          changes    \* changes so far

vars == <<live, excluded, job, newest, day, phase, problems, reports, changes>>
estate == <<live, excluded, job>>

GuestType == {"qemu", "lxc"}

Group == {"vm", "ct"} \X Vmid

At(slot) == 48 * day + slot

\* group_name.
GroupName(v, type) == <<IF type = "lxc" THEN "ct" ELSE "vm", v>>

Live == {v \in Vmid : live[v] # Absent}

Held(g) == newest[g] # Absent /\ newest[g] # 0

TypeOK ==
    /\ live \in [Vmid -> GuestType \cup {Absent}]
    /\ excluded \subseteq Vmid
    /\ job \in {"enabled", "disabled", "partial"}
    /\ newest \in [Group -> (0 .. 48 * (MaxDay + 1)) \cup {Absent}]
    /\ day \in 0 .. MaxDay + 1
    /\ phase \in {"run", "check"}
    /\ problems \subseteq (Group \X {"never", "old"})
                    \cup ({Absent} \X {"unreadable", "push"})
    /\ reports \subseteq Group \X {"excluded", "gone"}
    /\ changes \in 0 .. MaxChanges

Init ==
    /\ live \in [Vmid -> GuestType \cup {Absent}]
    /\ excluded = {}
    /\ job = "enabled"
    /\ newest = [g \in Group |-> Absent]
    /\ day = 0
    /\ phase = "run"
    /\ problems = {}
    /\ reports = {}
    /\ changes = 0

-----------------------------------------------------------------------------
(* The estate.                                                             *)

Change ==
    /\ day <= MaxDay
    /\ changes < MaxChanges
    /\ changes' = changes + 1
    /\ UNCHANGED <<day, phase, problems, reports>>

Create(v, type) ==
    /\ Change
    /\ v \notin Live
    /\ live' = [live EXCEPT ![v] = type]
    /\ UNCHANGED <<excluded, job, newest>>

Destroy(v) ==
    /\ Change
    /\ v \in Live
    /\ live' = [live EXCEPT ![v] = Absent]
    /\ UNCHANGED <<excluded, job, newest>>

SetExcluded(S) ==
    /\ Change
    /\ excluded' = S
    /\ UNCHANGED <<live, job, newest>>

SetJob(state) ==
    /\ Change
    /\ job' = state
    /\ UNCHANGED <<live, excluded, newest>>

\* Every backup of a group forgotten; the group itself stays.
EmptyGroup(g) ==
    /\ Change
    /\ Held(g)
    /\ newest' = [newest EXCEPT ![g] = 0]
    /\ UNCHANGED estate

\* The day's run.  Its exit status says nothing of the guests it did not carry.
Run ==
    /\ phase = "run"
    /\ day <= MaxDay
    /\ \E carried \in SUBSET (IF job = "disabled" THEN {} ELSE Live \ excluded) :
        \E late \in [carried -> 0 .. RunLasts] :
            newest' = [g \in Group |->
                IF \E v \in carried : GroupName(v, live[v]) = g THEN At(RunAt + late[g[2]])
                                                     ELSE newest[g]]
    /\ phase' = "check"
    /\ UNCHANGED <<live, excluded, job, day, problems, reports, changes>>

-----------------------------------------------------------------------------
(* classify and main.                                                      *)

\* Fault: a group of another guest type under the same VMID taken for the guest's
\* own.
GroupOfAnyType(v) ==
    IF \E g \in Group : g[2] = v /\ Held(g)
    THEN CHOOSE g \in Group : /\ g[2] = v
                             /\ \A h \in Group : h[2] = v /\ Held(h) =>
                                    Held(g) /\ newest[h] <= newest[g]
    ELSE GroupName(v, live[v])

\* Where the check looks for a guest's backups.
GroupOf(v) == GroupName(v, live[v])

\* parse_excluded, with the live list: the guests the job's scope takes in.
Scope == Live \ excluded

\* Fault: a problem named after the guest, not after its group.
ProblemsByVmid(now) ==
    {<<v, "never">> : v \in {w \in Scope : ~Held(GroupOf(w))}}

\* A guest's age is in whole hours, rounded down.
Problems(now) ==
    {<<GroupOf(v), "never">> : v \in {w \in Scope : ~Held(GroupOf(w))}}
        \cup {<<GroupOf(v), "old">> : v \in {w \in Scope :
                /\ Held(GroupOf(w))
                /\ (now - newest[GroupOf(w)]) \div 2 > LimitHours}}

Reports ==
    {<<GroupOf(v), "excluded">> : v \in Live \ Scope}
        \cup {<<g, "gone">> : g \in {h \in Group :
                newest[h] # Absent /\ \A v \in Live : GroupOf(v) # h}}

CheckDone ==
    /\ phase = "check"
    /\ phase' = "run"
    /\ day' = day + 1
    /\ UNCHANGED <<live, excluded, job, newest, changes>>

\* A reuse notification that could not be sent fails the check as well.
Check ==
    /\ job = "enabled"
    /\ \E lost \in IF \E g \in Group : Held(g) THEN {{}, {<<Absent, "push">>}} ELSE {{}} :
        problems' = Problems(At(CheckAt)) \cup lost
    /\ reports' = Reports
    /\ CheckDone

\* No enabled `all 1` job, or something could not be read.
CheckFails ==
    /\ problems' = {<<Absent, "unreadable">>}
    /\ reports' = {}
    /\ CheckDone

Next ==
    \/ \E v \in Vmid : Destroy(v) \/ \E type \in GuestType : Create(v, type)
    \/ \E S \in SUBSET Vmid : SetExcluded(S)
    \/ \E state \in {"enabled", "disabled", "partial"} : SetJob(state)
    \/ \E g \in Group : EmptyGroup(g)
    \/ Run
    \/ Check
    \/ CheckFails

Spec == Init /\ [][Next]_vars

-----------------------------------------------------------------------------
(* Properties.  Each speaks of a step that is a check, so of the estate and *)
(* the groups as that check read them.                                     *)

Checking ==
    /\ phase = "check"
    /\ phase' = "run"
    /\ <<Absent, "unreadable">> \notin problems'

InScope == {v \in Vmid : live[v] # Absent /\ v \notin excluded}

OwnGroup(v) == IF live[v] = "lxc" THEN <<"ct", v>> ELSE <<"vm", v>>

\* A guest that today's run missed fails the morning's check, with or without
\* older backups, whatever else has the VMID.  The margin between the job and the
\* check, in whole hours, excuses only one that yesterday's run reached more than
\* an hour in; a guest that two runs missed has no excuse.
NotLandedFails ==
    [][Checking =>
        \A v \in InScope :
            LET own == OwnGroup(v)
                reachedLate == newest[own] + 48 > At(RunAt + 2)
            IN ~Held(own) \/ (newest[own] < At(0) /\ ~reachedLate) =>
                \E why \in {"never", "old"} : <<own, why>> \in problems']_vars

\* "Everything else is a report": no group fails the check but a live in-scope
\* guest's own, and every other group and guest is reported -- so that a check
\* never goes red for what no backup can mend, nor passes over it in silence.
EverythingElseReports ==
    [][Checking =>
        /\ \A p \in problems' \ {<<Absent, "push">>} : \E v \in InScope : p[1] = OwnGroup(v)
        /\ \A g \in Group :
            (newest[g] # Absent \/ \E v \in Live : OwnGroup(v) = g)
                /\ (\A v \in InScope : OwnGroup(v) # g) =>
                    \E why \in {"excluded", "gone"} : <<g, why>> \in reports']_vars
=============================================================================
