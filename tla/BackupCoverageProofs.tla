------------------------ MODULE BackupCoverageProofs ------------------------
(***************************************************************************)
(* What backup_coverage.py makes of the cluster's schedule, for any        *)
(* contents of the items, any floor, and any number of days, changes and   *)
(* runs by hand.                                                           *)
(***************************************************************************)
EXTENDS BackupCoverage, Integers, NaturalsInduction, TLAPS

\* A run reaches every item within half an hour.
RunsInTime == MaxLate <= 2

\* Snapshots of an item, with contents of its kind.
OfItsKind(s) ==
    /\ s \in Seq(Snapshot) /\ Len(s) <= 2
    /\ \A i \in DOMAIN s : s[i].taken > 0 /\ s[i].content \in Contents[kind]

Types ==
    /\ TypeOK
    /\ changes \in Nat /\ extra \in Nat
    /\ OfItsKind(series) /\ OfItsKind(listed)

\* The runs that take an item of the kind.
TakenBy(i) == i = 1 \/ (kind = "dump" /\ i \in {3, 5, 7})

\* A snapshot not taken by hand is a scheduled run's.
TakenOnSchedule ==
    \A j \in DOMAIN series : ~series[j].hand =>
        \E d \in 0 .. day, i \in 1 .. 8, late \in {0, MaxLate} :
            /\ TakenBy(i)
            /\ series[j].taken = 96 * d + Day[i].at + late
            /\ d = day => i < slot

\* What a check under way has listed.
ListedStands ==
    listed # <<>> => slot \in {2, 4, 6, 8} /\ series # <<>> /\ (NewestOnSchedule => listed = series)

\* Unless the newest was taken by hand, at most one snapshot is younger than the
\* last check.
BeforeIsHeld ==
    before.taken > 0 =>
        /\ series # <<>>
        /\ \/ Newest(series) = before
           \/ /\ slot \in {2, 4, 6, 8}
              /\ NewestOnSchedule => Len(series) = 2 /\ series[1] = before

IInv == Types /\ TakenOnSchedule /\ ListedStands /\ BeforeIsHeld

\* The day's runs and checks.
LEMMA TheDay ==
    /\ DOMAIN Day = 1 .. 8 /\ Len(Day) = 8
    /\ \A i \in 1 .. 8 : /\ Day[i].at \in Nat
                         /\ Day[i].what = "check" <=> i \in {2, 4, 6, 8}
                         /\ Day[i].what = "full" <=> i = 1
                         /\ Day[i].what = "dumps" <=> i \in {3, 5, 7}
    /\ Day[1].at = 4 /\ Day[2].at = 11 /\ Day[3].at = 28
    /\ Day[4].at = 35 /\ Day[5].at = 52 /\ Day[6].at = 59
    /\ Day[7].at = 76 /\ Day[8].at = 83
<1>1. /\ DOMAIN Day = 1 .. 8 /\ Len(Day) = 8
      /\ Day[1] = [what |-> "full",  at |-> 4]
      /\ Day[2] = [what |-> "check", at |-> 11]
      /\ Day[3] = [what |-> "dumps", at |-> 28]
      /\ Day[4] = [what |-> "check", at |-> 35]
      /\ Day[5] = [what |-> "dumps", at |-> 52]
      /\ Day[6] = [what |-> "check", at |-> 59]
      /\ Day[7] = [what |-> "dumps", at |-> 76]
      /\ Day[8] = [what |-> "check", at |-> 83]
  BY DEF Day
<1>2. QED BY <1>1

\* What the types say.
LEMMA Kinds ==
    ASSUME Types
    PROVE  /\ kind \in {"volume", "dump"}
           /\ day \in Nat /\ day <= MaxDay /\ MaxDay \in Nat
           /\ slot \in 1 .. 8 /\ slot \in Nat
           /\ created \in Nat /\ changes \in Nat /\ extra \in Nat
           /\ Now \in Nat /\ Now > 0
           /\ Contents[kind] \subseteq [main : Nat, side : Nat, whole : BOOLEAN, files : BOOLEAN]
           /\ \A c \in Contents[kind] : c \in UNION Range(Contents)
<1>1. /\ kind \in {"volume", "dump"} /\ day \in Nat /\ day <= MaxDay /\ MaxDay \in Nat
      /\ slot \in 1 .. 8
  <2>1. kind \in {"volume", "dump"} /\ day \in 0 .. MaxDay /\ slot \in DOMAIN Day
    BY DEF Types, TypeOK
  <2>2. MaxDay \in Nat
    BY BackupCoverageAssumption
  <2>3. QED BY <2>1, <2>2, TheDay
<1>2. Now \in Nat /\ Now > 0
  <2>1. Day[slot].at \in Nat /\ Day[slot].at > 0
    BY <1>1, TheDay
  <2>2. QED BY <1>1, <2>1 DEF Now
<1>3. kind \in DOMAIN Contents
      /\ Contents[kind] \subseteq [main : Nat, side : Nat, whole : BOOLEAN, files : BOOLEAN]
  BY <1>1, BackupCoverageAssumption
<1>4. \A c \in Contents[kind] : c \in UNION Range(Contents)
  BY <1>3 DEF Range
<1>5. created \in Nat /\ changes \in Nat /\ extra \in Nat
  BY DEF Types, TypeOK
<1>6. QED BY <1>1, <1>2, <1>3, <1>4, <1>5

\* An item's snapshots after one more.
LEMMA OneMoreTaken ==
    ASSUME Types, NEW at \in Nat, at > 0, NEW hand \in BOOLEAN, Taken(at, hand),
           kind' = kind
    PROVE  /\ OfItsKind(series)' /\ series' # <<>> /\ Len(series') \in {1, 2}
           /\ Newest(series').taken = at /\ Newest(series').hand = hand
           /\ series # <<>> => Len(series') = 2 /\ series'[1] = Newest(series)
           /\ \A j \in DOMAIN series' : \/ series'[j].taken = at /\ series'[j].hand = hand
                                        \/ \E i \in DOMAIN series : series'[j] = series[i]
<1>1. PICK content \in Contents[kind] :
        LET s == Append(series, [taken |-> at, hand |-> hand, content |-> content])
        IN series' = SubSeq(s, IF Len(s) > 2 THEN 2 ELSE 1, Len(s))
  BY DEF Taken
<1> DEFINE new == [taken |-> at, hand |-> hand, content |-> content]
           s == Append(series, new)
<1>2. new \in Snapshot /\ new.taken = at /\ new.hand = hand /\ new.content = content
  BY Kinds DEF Snapshot
<1> HIDE DEF new
<1>3. series \in Seq(Snapshot) /\ Len(series) \in {0, 1, 2}
      /\ DOMAIN series = 1 .. Len(series)
  <2>1. series \in Seq(Snapshot) /\ Len(series) <= 2
    BY DEF Types, OfItsKind
  <2>2. Len(series) \in Nat /\ DOMAIN series = 1 .. Len(series)
    BY <2>1
  <2>3. QED BY <2>1, <2>2
<1>4. s \in Seq(Snapshot) /\ Len(s) = Len(series) + 1
      /\ \A i \in 1 .. Len(s) : s[i] = IF i = Len(s) THEN new ELSE series[i]
  BY <1>2, <1>3
<1>5. series' = SubSeq(s, IF Len(s) > 2 THEN 2 ELSE 1, Len(s))
  BY <1>1 DEF new
<1> HIDE DEF s
<1>6. CASE Len(series) < 2
  <2>1. series' = SubSeq(s, 1, Len(s))
    BY <1>3, <1>4, <1>5, <1>6
  <2>2. Len(series') = Len(s) /\ series' \in Seq(Snapshot)
        /\ DOMAIN series' = 1 .. Len(s)
        /\ \A i \in 1 .. Len(s) : series'[i] = s[i]
    BY <1>3, <1>4, <2>1
  <2>3. OfItsKind(series)'
    BY <1>2, <1>3, <1>4, <1>6, <2>2 DEF Types, OfItsKind
  <2>4. series' # <<>> /\ Len(series') \in {1, 2} /\ Newest(series').taken = at
        /\ Newest(series').hand = hand
    BY <1>2, <1>3, <1>4, <1>6, <2>2 DEF Newest
  <2>5. series # <<>> => Len(series') = 2 /\ series'[1] = Newest(series)
    BY <1>3, <1>4, <1>6, <2>2 DEF Newest
  <2>6. \A j \in DOMAIN series' : \/ series'[j].taken = at /\ series'[j].hand = hand
                                  \/ \E i \in DOMAIN series : series'[j] = series[i]
    BY <1>2, <1>3, <1>4, <2>2
  <2>7. QED BY <2>3, <2>4, <2>5, <2>6
<1>7. CASE Len(series) = 2
  <2>1. series' = SubSeq(s, 2, 3) /\ Len(s) = 3
    BY <1>3, <1>4, <1>5, <1>7
  <2>2. Len(series') = 2 /\ series' \in Seq(Snapshot) /\ DOMAIN series' = 1 .. 2
        /\ series'[1] = series[2] /\ series'[2] = new
    <3>1. s \in Seq(Snapshot) /\ s[2] = series[2] /\ s[3] = new
      BY <1>3, <1>4, <1>7, <2>1
    <3>2. Len(series') = 2 /\ DOMAIN series' = 1 .. 2 /\ series' \in Seq(Snapshot)
      BY <2>1, <3>1
    <3>3. series'[1] = s[2] /\ series'[2] = s[3]
      BY <2>1, <3>1
    <3>4. QED BY <3>1, <3>2, <3>3
  <2>3. OfItsKind(series)'
    BY <1>2, <1>3, <1>7, <2>2 DEF Types, OfItsKind
  <2>4. Newest(series').taken = at /\ Newest(series').hand = hand /\ series'[1] = Newest(series)
    BY <1>2, <1>3, <1>7, <2>2 DEF Newest
  <2>5. \A j \in DOMAIN series' : \/ series'[j].taken = at /\ series'[j].hand = hand
                                  \/ \E i \in DOMAIN series : series'[j] = series[i]
    <3>1. \A j \in DOMAIN series' : j = 1 \/ j = 2
      BY <2>2
    <3>2. 2 \in DOMAIN series
      BY <1>3, <1>7
    <3>3. QED BY <1>2, <2>2, <3>1, <3>2
  <2>6. series' # <<>>
    <3>1. Len(<<>>) # 2
      OBVIOUS
    <3>2. QED BY <2>2, <3>1
  <2>7. QED BY <2>2, <2>3, <2>4, <2>5, <2>6
<1>8. QED BY <1>3, <1>6, <1>7


\* What stands for the newest of no snapshots.
LEMMA NoSnapshotIs ==
    NoSnapshot \in Snapshot /\ NoSnapshot.taken = 0
<1>1. (CHOOSE c \in Contents["volume"] : TRUE) \in UNION Range(Contents)
  <2>1. (CHOOSE c \in Contents["volume"] : TRUE) \in Contents["volume"]
    BY BackupCoverageAssumption
  <2>2. Contents["volume"] \in Range(Contents)
    BY BackupCoverageAssumption DEF Range
  <2>3. QED BY <2>1, <2>2
<1>2. QED BY <1>1 DEF NoSnapshot, Snapshot

LEMMA InitIInv == ASSUME Init PROVE IInv
<1>1. /\ series = <<>> /\ listed = <<>> /\ changes = 0 /\ extra = 0 /\ slot = 1 /\ day = 0
      /\ before = NoSnapshot
  BY DEF Init
<1>2. NoSnapshot \in Snapshot /\ NoSnapshot.taken = 0
  BY NoSnapshotIs
<1>3. OfItsKind(series) /\ OfItsKind(listed)
  BY <1>1 DEF OfItsKind
<1>4. TypeOK
  <2>1. /\ kind \in {"volume", "dump"} /\ declared \in {"absent", "covered"} /\ created = 0
        /\ problems = {} /\ reports = {}
    BY DEF Init
  <2>2. day \in 0 .. MaxDay /\ slot \in DOMAIN Day
    BY <1>1, TheDay, BackupCoverageAssumption
  <2>3. series \in Seq(Snapshot) /\ Len(series) <= 2 /\ listed \in Seq(Snapshot)
    BY <1>3 DEF OfItsKind
  <2>4. QED BY <1>1, <1>2, <2>1, <2>2, <2>3 DEF TypeOK
<1>5. QED BY <1>1, <1>2, <1>3, <1>4
          DEF IInv, Types, TakenOnSchedule, ListedStands, BeforeIsHeld

\* The next of the day, or the next day.
LEMMA NextSlot ==
    ASSUME Types, Advance
    PROVE  /\ day' \in 0 .. MaxDay /\ slot' \in DOMAIN Day
           /\ slot \in {2, 4, 6, 8} => slot' \in {1, 3, 5, 7}
           /\ slot \in {1, 3, 5, 7} => slot' \in {2, 4, 6, 8}
           /\ (day' = day /\ slot < slot') \/ day' = day + 1
<1>1. day \in 0 .. MaxDay /\ MaxDay \in Nat /\ slot \in 1 .. 8
  BY Kinds
<1>2. \/ slot < 8 /\ slot' = slot + 1 /\ day' = day
      \/ slot = 8 /\ slot' = 1 /\ day' = day + 1 /\ day < MaxDay
  BY <1>1, TheDay DEF Advance
<1>3. QED BY <1>1, <1>2, TheDay

\* A change to the item, made while no check is under way.
LEMMA CoverageDeclares ==
    ASSUME IInv,
           Replace \/ \E state \in {"absent", "excluded", "shared", "covered"} :
                           Declare(state)
    PROVE  IInv'
<1>1. /\ UNCHANGED <<kind, series, day, slot, listed, problems, reports, before, extra>>
      /\ changes' = changes + 1
      /\ declared' \in {"absent", "excluded", "shared", "covered"}
      /\ created' = created \/ created' = Now - 1
  BY DEF Replace, Declare, IInv, Types, TypeOK
<1>2. Types'
  <2>1. created \in Nat /\ Now \in Nat /\ Now > 0 /\ changes \in Nat
    BY Kinds DEF IInv
  <2>2. created' \in Nat /\ changes' \in Nat
    BY <1>1, <2>1
  <2>3. OfItsKind(series)' /\ OfItsKind(listed)'
    BY <1>1 DEF IInv, Types, OfItsKind
  <2>4. TypeOK'
    BY <1>1, <2>2 DEF IInv, Types, TypeOK
  <2>5. QED BY <1>1, <2>2, <2>3, <2>4 DEF IInv, Types
<1>3. TakenOnSchedule'
  <2>1. Day' = Day
    BY DEF Day
  <2>2. UNCHANGED <<kind, series, day, slot>>
    BY <1>1
  <2>3. QED BY <2>1, <2>2 DEF IInv, TakenOnSchedule, TakenBy
<1>4. ListedStands' /\ BeforeIsHeld'
  BY <1>1 DEF IInv, ListedStands, BeforeIsHeld, Newest, NewestOnSchedule
<1>5. QED BY <1>2, <1>3, <1>4 DEF IInv


\* A scheduled run, whether or not it takes the item.
LEMMA CoverageRuns ==
    ASSUME IInv, Run
    PROVE  IInv'
<1>1. /\ Day[slot].what # "check" /\ Advance
      /\ problems' = {} /\ reports' = {}
      /\ UNCHANGED <<kind, declared, created, listed, before, changes, extra>>
  BY DEF Run
<1>2. /\ slot \in {1, 3, 5, 7} /\ slot' \in {2, 4, 6, 8} /\ slot' \in DOMAIN Day
      /\ day \in Nat /\ day' \in 0 .. MaxDay
      /\ (day' = day /\ slot < slot') \/ day' = day + 1
      /\ listed = <<>>
  <2>1. slot \in 1 .. 8 /\ slot \in {1, 3, 5, 7}
    BY <1>1, Kinds, TheDay DEF IInv
  <2>2. listed = <<>>
    BY <2>1 DEF IInv, ListedStands
  <2>3. QED BY <1>1, <2>1, <2>2, Kinds, NextSlot DEF IInv
<1>3. \/ \E late \in {0, MaxLate} : /\ Taken(Now + late, FALSE)
                                    /\ Takes
      \/ series' = series
  BY DEF Run
<1>4. /\ OfItsKind(series)'
      /\ \/ series' = series
         \/ /\ series' # <<>>
            /\ series # <<>> => Len(series') = 2 /\ series'[1] = Newest(series)
      /\ \A j \in DOMAIN series' :
            \/ \E i \in DOMAIN series : series'[j] = series[i]
            \/ /\ TakenBy(slot)
               /\ \E late \in {0, MaxLate} :
                    series'[j].taken = 96 * day + Day[slot].at + late
  <2>1. CASE series' = series
    BY <1>1, <2>1 DEF IInv, Types, OfItsKind
  <2>2. CASE \E late \in {0, MaxLate} : Taken(Now + late, FALSE) /\ Takes
    <3>1. PICK late \in {0, MaxLate} : Taken(Now + late, FALSE) /\ Takes
      BY <2>2
    <3>2. late \in Nat /\ Now \in Nat /\ Now > 0
      BY Kinds, BackupCoverageAssumption DEF IInv
    <3>3. Now + late \in Nat /\ Now + late > 0 /\ FALSE \in BOOLEAN
      BY <3>2
    <3>4. /\ OfItsKind(series)' /\ series' # <<>>
          /\ series # <<>> => Len(series') = 2 /\ series'[1] = Newest(series)
          /\ \A j \in DOMAIN series' : \/ series'[j].taken = Now + late
                                       \/ \E i \in DOMAIN series : series'[j] = series[i]
      BY <1>1, <3>1, <3>3, OneMoreTaken DEF IInv
    <3>5. TakenBy(slot)
      <4>1. kind \in {"volume", "dump"}
        BY Kinds DEF IInv
      <4>2. kind = "dump" \/ slot = 1
        BY <1>2, <3>1, TheDay DEF Takes
      <4>3. QED BY <1>2, <4>2 DEF TakenBy
    <3>6. Now + late = 96 * day + Day[slot].at + late
      BY DEF Now
    <3>7. QED BY <3>4, <3>5, <3>6
  <2>3. QED BY <1>3, <2>1, <2>2
<1>5. Types'
  <2>1. OfItsKind(listed)'
    BY <1>1, <1>2 DEF OfItsKind
  <2>2. TypeOK'
    <3>1. series' \in Seq(Snapshot) /\ Len(series') <= 2
      BY <1>4 DEF OfItsKind, Snapshot, Range
    <3>2. /\ kind' \in {"volume", "dump"} /\ created' \in Nat
          /\ declared' \in {"absent", "excluded", "shared", "covered"}
          /\ listed' \in Seq(Snapshot) /\ before' \in Snapshot
      BY <1>1 DEF IInv, Types, TypeOK
    <3>3. slot' \in DOMAIN Day /\ day' \in 0 .. MaxDay
      BY <1>2
    <3>4. QED BY <1>1, <3>1, <3>2, <3>3 DEF TypeOK, Snapshot, Range, Day
  <2>3. changes' \in Nat /\ extra' \in Nat
    BY <1>1 DEF IInv, Types
  <2>4. QED BY <1>4, <2>1, <2>2, <2>3 DEF Types
<1>6. TakenOnSchedule'
  <2> SUFFICES ASSUME NEW j \in DOMAIN series', ~series'[j].hand
               PROVE  \E d \in 0 .. day', i \in 1 .. 8, late \in {0, MaxLate} :
                          /\ TakenBy(i)
                          /\ series'[j].taken = 96 * d + Day[i].at + late
                          /\ d = day' => i < slot'
    BY <1>1 DEF TakenOnSchedule, TakenBy, Day
  <2>1. \E d \in 0 .. day, i \in 1 .. 8, late \in {0, MaxLate} :
            /\ TakenBy(i)
            /\ series'[j].taken = 96 * d + Day[i].at + late
            /\ d = day => i <= slot
    <3>1. CASE \E i \in DOMAIN series : series'[j] = series[i]
      <4>1. slot \in Nat /\ \A i \in 1 .. 8 : i < slot => i <= slot
        BY <1>2
      <4>2. PICK k \in DOMAIN series : series'[j] = series[k]
        BY <3>1
      <4>3. PICK d \in 0 .. day, i \in 1 .. 8, late \in {0, MaxLate} :
                /\ TakenBy(i)
                /\ series[k].taken = 96 * d + Day[i].at + late
                /\ d = day => i < slot
        BY <4>2 DEF IInv, TakenOnSchedule
      <4>4. QED BY <4>1, <4>2, <4>3
    <3>2. CASE /\ TakenBy(slot)
               /\ \E late \in {0, MaxLate} :
                    series'[j].taken = 96 * day + Day[slot].at + late
      <4>1. day \in 0 .. day /\ slot \in 1 .. 8 /\ slot <= slot
        BY <1>2
      <4>2. QED BY <3>2, <4>1
    <3>3. QED BY <1>4, <3>1, <3>2
  <2>2. PICK d \in 0 .. day, i \in 1 .. 8, late \in {0, MaxLate} :
            /\ TakenBy(i)
            /\ series'[j].taken = 96 * d + Day[i].at + late
            /\ d = day => i <= slot
    BY <2>1
  <2>3. d \in 0 .. day' /\ (d = day' => i < slot')
    BY <1>2, <2>2
  <2>4. QED BY <2>2, <2>3
<1>7. ListedStands'
  BY <1>1, <1>2 DEF ListedStands
<1>8. BeforeIsHeld'
  <2> SUFFICES ASSUME before.taken > 0
               PROVE  /\ series' # <<>>
                      /\ \/ Newest(series') = before
                         \/ Len(series') = 2 /\ series'[1] = before
    BY <1>1, <1>2 DEF BeforeIsHeld, Newest
  <2>1. series # <<>> /\ Newest(series) = before
    BY <1>2 DEF IInv, BeforeIsHeld
  <2>2. QED BY <1>4, <2>1
<1>9. QED BY <1>5, <1>6, <1>7, <1>8 DEF IInv

\* A run by hand.
LEMMA CoverageRunsByHand ==
    ASSUME IInv, ExtraRun
    PROVE  IInv'
<1>1. /\ extra' = extra + 1 /\ Taken(Now, TRUE)
      /\ Day[slot].what = "check"
      /\ UNCHANGED <<kind, declared, created, day, slot, listed, problems, reports,
                     before, changes>>
  BY DEF ExtraRun
<1>2. extra' \in Nat /\ extra' # 0 /\ changes' \in Nat
  <2>1. extra \in Nat /\ changes \in Nat
    BY Kinds DEF IInv
  <2>2. QED BY <1>1, <2>1
<1>3. /\ OfItsKind(series)' /\ series' # <<>> /\ Len(series') \in {1, 2}
      /\ Newest(series').hand
      /\ \A j \in DOMAIN series' : \/ series'[j].hand
                                   \/ \E i \in DOMAIN series : series'[j] = series[i]
  <2>1. TRUE \in BOOLEAN
    BY Zenon
  <2>2. QED BY <1>1, <2>1, Kinds, OneMoreTaken DEF IInv
<1>4. Types'
  <2>1. OfItsKind(listed)'
    BY <1>1 DEF IInv, Types, OfItsKind
  <2>2. TypeOK'
    <3>1. series' \in Seq(Snapshot) /\ Len(series') <= 2
      BY <1>3 DEF OfItsKind, Snapshot, Range
    <3>2. QED BY <1>1, <3>1 DEF IInv, Types, TypeOK, Snapshot,
                  Range, Day
  <2>3. QED BY <1>2, <1>3, <2>1, <2>2 DEF Types
<1>5. BeforeIsHeld' /\ ListedStands'
  <2>1. slot \in {2, 4, 6, 8}
    BY <1>1, Kinds, TheDay DEF IInv
  <2>2. ~NewestOnSchedule'
    BY <1>3 DEF NewestOnSchedule
  <2>3. QED BY <1>1, <1>3, <2>1, <2>2 DEF IInv, ListedStands, BeforeIsHeld
<1>6. TakenOnSchedule'
  <2> SUFFICES ASSUME NEW j \in DOMAIN series', ~series'[j].hand
               PROVE  \E d \in 0 .. day, i \in 1 .. 8, late \in {0, MaxLate} :
                          /\ TakenBy(i)
                          /\ series'[j].taken = 96 * d + Day[i].at + late
                          /\ d = day => i < slot
    BY <1>1 DEF TakenOnSchedule, TakenBy, Day
  <2>1. PICK k \in DOMAIN series : series'[j] = series[k]
    BY <1>3
  <2>2. QED BY <2>1 DEF IInv, TakenOnSchedule
<1>7. QED BY <1>4, <1>5, <1>6 DEF IInv


\* Every verdict is of the kinds a check knows.
LEMMA VerdictIs ==
    ASSUME NEW s, NEW recounted, NEW latest, NEW readBack
    PROVE  LET verdict == Classify(s, recounted, latest, readBack)
           IN /\ verdict.fail \subseteq {"never", "old", "shared", "emptied", "empty", "shrank",
                                         "damaged", "unread"}
              /\ verdict.say \subseteq {"new", "excluded", "nothing", "sidecars", "gone"}
<1>1. /\ VolumeContents(s, recounted).fail \subseteq {"emptied", "shrank"}
      /\ VolumeContents(s, recounted).say \subseteq {"nothing", "sidecars"}
  BY DEF VolumeContents
<1>2. DumpContents(s, latest, readBack) \subseteq {"empty", "shrank", "unread", "damaged"}
  BY DEF DumpContents
<1>3. /\ Judge(s, recounted, latest, readBack).fail
            \subseteq {"never", "old", "emptied", "empty", "shrank", "damaged", "unread"}
      /\ Judge(s, recounted, latest, readBack).say \subseteq {"new", "nothing", "sidecars"}
  BY <1>1, <1>2 DEF Judge
<1>4. QED BY <1>3 DEF Classify

LEMMA CoverageLists ==
    ASSUME IInv, CheckLists
    PROVE  IInv'
<1>1. /\ Day[slot].what = "check" /\ series # <<>> /\ listed' = series
      /\ UNCHANGED <<kind, declared, created, series, day, slot, problems, reports, before,
                     changes, extra>>
  BY DEF CheckLists
<1>2. slot \in {2, 4, 6, 8}
  BY <1>1, Kinds, TheDay DEF IInv
<1>3. Types'
  <2>1. OfItsKind(series)' /\ OfItsKind(listed)'
    BY <1>1 DEF IInv, Types, OfItsKind
  <2>2. TypeOK'
    BY <1>1 DEF IInv, Types, TypeOK, Snapshot,
                Range, Day
  <2>3. QED BY <1>1, <2>1, <2>2 DEF IInv, Types
<1>4. TakenOnSchedule'
  <2>1. Day' = Day
    BY DEF Day
  <2>2. UNCHANGED <<kind, series, day, slot>>
    BY <1>1
  <2>3. QED BY <2>1, <2>2 DEF IInv, TakenOnSchedule, TakenBy
<1>5. ListedStands' /\ BeforeIsHeld'
  BY <1>1, <1>2 DEF IInv, ListedStands, BeforeIsHeld, Newest, NewestOnSchedule
<1>6. QED BY <1>3, <1>4, <1>5 DEF IInv

\* The end of a check, whether or not it could read everything.
LEMMA CoverageChecks ==
    ASSUME IInv,
           CheckFails \/ \E recounted, readBack \in BOOLEAN :
                             Check(recounted, readBack)
    PROVE  IInv'
<1>1. /\ Day[slot].what = "check" /\ CheckEnds
      /\ problems' \subseteq {"never", "old", "shared", "emptied", "empty", "shrank",
                              "damaged", "unread", "unreadable"}
      /\ reports' \subseteq {"new", "excluded", "nothing", "sidecars", "gone"}
  <2>1. CASE CheckFails
    BY <2>1 DEF CheckFails
  <2>2. CASE \E recounted, readBack \in BOOLEAN : Check(recounted, readBack)
    <3>1. PICK recounted, readBack \in BOOLEAN : Check(recounted, readBack)
      BY <2>2
    <3>2. PICK latest : /\ problems' = Classify(listed, recounted, latest, readBack).fail
                        /\ reports' = Classify(listed, recounted, latest, readBack).say
                        /\ Day[slot].what = "check" /\ CheckEnds
      BY <3>1 DEF Check
    <3>3. QED BY <3>2, VerdictIs
  <2>3. QED BY <2>1, <2>2
<1>2. /\ listed' = <<>> /\ Advance
      /\ before' = IF series = <<>> THEN NoSnapshot ELSE Newest(series)
      /\ UNCHANGED <<kind, declared, created, series, changes, extra>>
  BY <1>1 DEF CheckEnds
<1>3. /\ slot \in {2, 4, 6, 8} /\ slot' \in {1, 3, 5, 7} /\ slot' \in DOMAIN Day
      /\ day \in Nat /\ day' \in 0 .. MaxDay
      /\ (day' = day /\ slot < slot') \/ day' = day + 1
  <2>1. slot \in {2, 4, 6, 8}
    BY <1>1, Kinds, TheDay DEF IInv
  <2>2. QED BY <1>2, <2>1, Kinds, NextSlot DEF IInv
<1>4. /\ before' \in Snapshot
      /\ before'.taken > 0 => series # <<>> /\ before' = Newest(series)
  <2>1. CASE series = <<>>
    BY <1>2, <2>1, NoSnapshotIs
  <2>2. CASE series # <<>>
    <3>1. series \in Seq(Snapshot)
      BY DEF IInv, Types, OfItsKind
    <3>2. Newest(series) \in Snapshot
      <4>1. Len(series) \in 1 .. Len(series)
        BY <2>2, <3>1
      <4>2. QED BY <3>1, <4>1 DEF Newest
    <3>3. QED BY <1>2, <2>2, <3>2
  <2>3. QED BY <2>1, <2>2
<1>5. Types'
  <2>1. OfItsKind(series)'
    BY <1>2 DEF IInv, Types, OfItsKind, Snapshot, Range
  <2>2. OfItsKind(listed)'
    BY <1>2 DEF OfItsKind
  <2>3. TypeOK'
    <3>1. /\ kind' \in {"volume", "dump"} /\ created' \in Nat
          /\ declared' \in {"absent", "excluded", "shared", "covered"}
          /\ series' \in Seq(Snapshot) /\ Len(series') <= 2
      BY <1>2 DEF IInv, Types, TypeOK
    <3>2. listed' \in Seq(Snapshot)
      BY <1>2
    <3>3. QED BY <1>1, <1>3, <1>4, <3>1, <3>2
              DEF TypeOK, Snapshot, Range, Day
  <2>4. changes' \in Nat /\ extra' \in Nat
    BY <1>2 DEF IInv, Types
  <2>5. QED BY <2>1, <2>2, <2>3, <2>4 DEF Types
<1>6. TakenOnSchedule'
  <2> SUFFICES ASSUME NEW j \in DOMAIN series, ~series[j].hand
               PROVE  \E d \in 0 .. day', i \in 1 .. 8, late \in {0, MaxLate} :
                          /\ TakenBy(i)
                          /\ series[j].taken = 96 * d + Day[i].at + late
                          /\ d = day' => i < slot'
    BY <1>2 DEF TakenOnSchedule, TakenBy, Day
  <2>1. PICK d \in 0 .. day, i \in 1 .. 8, late \in {0, MaxLate} :
            /\ TakenBy(i)
            /\ series[j].taken = 96 * d + Day[i].at + late
            /\ d = day => i < slot
    BY DEF IInv, TakenOnSchedule
  <2>2. d \in 0 .. day' /\ (d = day' => i < slot')
    BY <1>3, <2>1
  <2>3. QED BY <2>1, <2>2
<1>7. ListedStands'
  BY <1>2 DEF ListedStands
<1>8. BeforeIsHeld'
  BY <1>2, <1>4 DEF BeforeIsHeld, Newest
<1>9. QED BY <1>5, <1>6, <1>7, <1>8 DEF IInv

\* The check's invariant holds of every behaviour.
THEOREM InductiveInvariant == Spec => []IInv
<1>1. Init => IInv
  BY InitIInv
<1>2. IInv /\ [Next]_vars => IInv'
  <2> SUFFICES ASSUME IInv, [Next]_vars PROVE IInv'
    OBVIOUS
  <2>1. CASE UNCHANGED vars
    <3>1. UNCHANGED <<kind, declared, created, series, day, slot, listed, problems, reports,
                      before, changes, extra>>
      BY <2>1 DEF vars
    <3>2. Types'
      <4>1. OfItsKind(series)' /\ OfItsKind(listed)'
        BY <3>1 DEF IInv, Types, OfItsKind, Snapshot, Range
      <4>2. TypeOK'
        BY <3>1 DEF IInv, Types, TypeOK, Snapshot,
                    Range, Day
      <4>3. QED BY <3>1, <4>1, <4>2 DEF IInv, Types
    <3>3. TakenOnSchedule'
      <4>1. Day' = Day
        BY DEF Day
      <4>2. UNCHANGED <<kind, series, day, slot>>
        BY <3>1
      <4>3. QED BY <4>1, <4>2 DEF IInv, TakenOnSchedule, TakenBy
    <3>4. ListedStands' /\ BeforeIsHeld'
      BY <3>1 DEF IInv, ListedStands, BeforeIsHeld, Newest, NewestOnSchedule
    <3>5. QED BY <3>2, <3>3, <3>4 DEF IInv
  <2>2. QED
    BY <2>1, CoverageDeclares, CoverageRuns, CoverageRunsByHand, CoverageLists, CoverageChecks
    DEF Next
<1>3. QED BY <1>1, <1>2, PTL DEF Spec

\* The coverage check's variables keep their types.
THEOREM TypeCorrect == Spec => []TypeOK
<1>1. IInv => TypeOK
  BY DEF IInv, Types
<1>2. QED BY <1>1, InductiveInvariant, PTL


-----------------------------------------------------------------------------
\* When a run was due, at a check.
LEMMA DueIs ==
    ASSUME Types, slot \in {2, 4, 6, 8}
    PROVE  \A i \in 1 .. 8 :
             Due(i) <=> i < slot /\ TakenBy(i) /\ ~ (kind = "volume" /\ slot = 2)
<1>1. kind \in {"volume", "dump"}
  BY Kinds
<1> SUFFICES ASSUME NEW i \in 1 .. 8
             PROVE  Due(i) <=> i < slot /\ TakenBy(i) /\ ~ (kind = "volume" /\ slot = 2)
  OBVIOUS
<1>2. Day[i].what = "full" <=> i = 1
  BY TheDay
<1>3. Day[i].what = "dumps" <=> i \in {3, 5, 7}
  BY TheDay
<1>4. CASE kind = "volume"
  <2>1. Due(i) <=> i = 1 /\ Day[i].at + 8 <= Day[slot].at
    BY <1>2, <1>4 DEF Due, Hours
  <2>2. i = 1 => (Day[i].at + 8 <= Day[slot].at <=> slot # 2)
    BY TheDay
  <2>3. QED BY <1>4, <2>1, <2>2 DEF TakenBy
<1>5. CASE kind = "dump"
  <2>1. Due(i) <=> /\ i \in {1, 3, 5, 7}
                   /\ Day[i].at + 0 <= Day[slot].at
    BY <1>2, <1>3, <1>5 DEF Due
  <2>2. i \in {1, 3, 5, 7} => (Day[i].at + 0 <= Day[slot].at <=> i < slot)
    BY TheDay
  <2>3. QED BY <1>5, <2>1, <2>2 DEF TakenBy
<1>6. QED BY <1>1, <1>4, <1>5

LEMMA LastDueIs ==
    ASSUME Types, slot \in {2, 4, 6, 8}
    PROVE  LastDue =
             IF kind = "dump" THEN 96 * day + Day[slot - 1].at
             ELSE IF slot # 2 THEN 96 * day + 4
             ELSE IF day = 0 THEN 0 ELSE 96 * (day - 1) + 4
<1>1. kind \in {"volume", "dump"} /\ DOMAIN Day = 1 .. 8
      /\ Day[1].at = 4
  BY Kinds, TheDay
<1>2. CASE kind = "volume" /\ slot = 2
  <2>1. \A i \in 1 .. 8 : ~ Due(i)
    BY <1>2, DueIs
  <2>2. QED BY <1>1, <1>2, <2>1 DEF LastDue
<1>3. CASE ~ (kind = "volume" /\ slot = 2)
  <2> DEFINE last == CHOOSE i \in DOMAIN Day :
                        Due(i) /\ \A j \in DOMAIN Day : Due(j) => j <= i
  <2>1. PICK m : m = IF kind = "volume" THEN 1 ELSE slot - 1
    OBVIOUS
  <2>2. m \in 1 .. 8 /\ m < slot /\ TakenBy(m)
    BY <1>1, <2>1 DEF TakenBy
  <2>3. Due(m)
    BY <1>3, <2>2, DueIs
  <2>4. \A j \in 1 .. 8 : Due(j) => j <= m
    <3> SUFFICES ASSUME NEW j \in 1 .. 8, Due(j) PROVE j <= m
      OBVIOUS
    <3>1. j < slot /\ TakenBy(j)
      BY <1>3, DueIs
    <3>2. QED BY <1>1, <2>1, <3>1 DEF TakenBy
  <2>5. last = m
    <3>1. \A i \in 1 .. 8 : (Due(i) /\ \A j \in 1 .. 8 : Due(j) => j <= i) => i = m
      BY <2>2, <2>3, <2>4
    <3>2. QED BY <1>1, <2>2, <2>3, <2>4, <3>1
  <2>6. LastDue = 96 * day + Day[last].at
    BY <1>1, <2>2, <2>3 DEF LastDue
  <2> HIDE DEF last
  <2>7. QED BY <1>1, <1>3, <2>1, <2>5, <2>6
<1>4. QED BY <1>1, <1>2, <1>3

\* The checks' times, and those of the runs before them.
LEMMA CheckTimes ==
    ASSUME slot \in {2, 4, 6, 8}
    PROVE  \/ slot = 2 /\ Day[slot].at = 11 /\ Day[slot - 1].at = 4
           \/ slot = 4 /\ Day[slot].at = 35 /\ Day[slot - 1].at = 28
           \/ slot = 6 /\ Day[slot].at = 59 /\ Day[slot - 1].at = 52
           \/ slot = 8 /\ Day[slot].at = 83 /\ Day[slot - 1].at = 76
<1>1. 2 - 1 = 1 /\ 4 - 1 = 3 /\ 6 - 1 = 5 /\ 8 - 1 = 7
  OBVIOUS
<1>2. CASE slot = 2
  BY <1>1, <1>2, TheDay
<1>3. CASE slot = 4
  BY <1>1, <1>3, TheDay
<1>4. CASE slot = 6
  BY <1>1, <1>4, TheDay
<1>5. CASE slot = 8
  BY <1>1, <1>5, TheDay
<1>6. QED BY <1>2, <1>3, <1>4, <1>5

\* The newest of an item's snapshots is one of them.
LEMMA NewestHeld ==
    ASSUME Types, NEW s, OfItsKind(s), s # <<>>
    PROVE  /\ Len(s) \in {1, 2} /\ Len(s) \in DOMAIN s /\ Newest(s) = s[Len(s)]
           /\ Newest(s) \in Snapshot /\ Newest(s).taken \in Nat
<1>1. s \in Seq(Snapshot) /\ Len(s) <= 2
  BY DEF OfItsKind
<1>2. Len(s) \in Nat /\ Len(s) # 0
  BY <1>1
<1>3. Len(s) \in {1, 2} /\ Len(s) \in DOMAIN s
  <2>1. DOMAIN s = 1 .. Len(s)
    BY <1>1
  <2>2. QED BY <1>1, <1>2, <2>1
<1>4. s[Len(s)] \in Snapshot
  BY <1>1, <1>3
<1>5. QED BY <1>3, <1>4 DEF Newest, Snapshot

\* What a check makes of an item in scope.
LEMMA CheckJudges ==
    ASSUME NEW recounted \in BOOLEAN, NEW readBack \in BOOLEAN,
           Check(recounted, readBack), declared = "covered"
    PROVE  /\ Day[slot].what = "check"
           /\ listed # <<>> \/ series = <<>>
           /\ \E latest :
                /\ series # <<>> => latest = Newest(series)
                /\ problems' = Judge(listed, recounted, latest, readBack).fail
                /\ reports' = Judge(listed, recounted, latest, readBack).say
<1>1. \A latest : Classify(listed, recounted, latest, readBack)
                    = Judge(listed, recounted, latest, readBack)
  BY DEF Classify
<1>2. QED BY <1>1 DEF Check

\* With runs within half an hour, and unless the newest backup was made by hand or by a
\* retry, the check after a missed run fails, for whatever the items hold, however many
\* days, changes and earlier runs by hand: the limits of 26 and 7 hours against the
\* schedule.
THEOREM CoverageMissed ==
    ASSUME RunsInTime
    PROVE  Spec => MissedRunShows
<1>1. ASSUME IInv, NEW recounted \in BOOLEAN, NEW readBack \in BOOLEAN,
             Check(recounted, readBack), NewestOnSchedule, Passes
      PROVE  Covered
  <2>0. declared = "covered" /\ problems' = {} /\ reports' # {"new"}
    BY <1>1 DEF Passes
  <2> SUFFICES series # <<>> /\ Newest(series).taken >= LastDue
    BY DEF Covered
  <2>1. PICK latest : /\ problems' = Judge(listed, recounted, latest, readBack).fail
                      /\ reports' = Judge(listed, recounted, latest, readBack).say
    BY <1>1, <2>0, CheckJudges
  <2>2. listed # <<>>
    BY <2>0, <2>1 DEF Judge
  <2>3. slot \in {2, 4, 6, 8} /\ series # <<>> /\ listed = series /\ ~Newest(series).hand
    BY <1>1, <2>2 DEF IInv, ListedStands, NewestOnSchedule
  <2>4. ~ (Now - Newest(series).taken >
              (IF kind = "volume" THEN VolumeLimit ELSE DumpLimit))
    BY <2>0, <2>1, <2>3 DEF Judge
  <2>5. VolumeLimit = 104 /\ DumpLimit = 28
    BY DEF VolumeLimit, DumpLimit, Hours
  <2>6. /\ kind \in {"volume", "dump"} /\ day \in Nat
        /\ Newest(series) = series[Len(series)] /\ Len(series) \in DOMAIN series
        /\ Newest(series).taken \in Nat
    BY <1>1, <2>3, Kinds, NewestHeld DEF IInv, Types
  <2>7. PICK d \in 0 .. day, i \in 1 .. 8, late \in {0, MaxLate} :
            /\ TakenBy(i)
            /\ Newest(series).taken = 96 * d + Day[i].at + late
            /\ d = day => i < slot
    <3>1. \A j \in DOMAIN series : ~series[j].hand =>
            \E d \in 0 .. day, i \in 1 .. 8, late \in {0, MaxLate} :
                /\ TakenBy(i)
                /\ series[j].taken = 96 * d + Day[i].at + late
                /\ d = day => i < slot
      BY <1>1 DEF IInv, TakenOnSchedule
    <3>2. QED BY <2>3, <2>6, <3>1
  <2>8. late \in 0 .. 2 /\ d \in Nat /\ d <= day
    BY <2>6, <2>7, BackupCoverageAssumption DEF RunsInTime
  <2>9. PICK a, t : /\ a = Day[slot].at /\ a \in Nat
                    /\ t = Newest(series).taken /\ t \in Nat
                    /\ 96 * day + a - t <= IF kind = "volume" THEN 104 ELSE 28
    <3>1. PICK a, t : a = Day[slot].at /\ t = Newest(series).taken
      OBVIOUS
    <3>2. a \in Nat /\ t \in Nat
      BY <2>3, <2>6, <3>1, CheckTimes
    <3>3. Now = 96 * day + a
      BY <3>1 DEF Now
    <3>4. CASE kind = "volume"
      <4>1. ~ (96 * day + a - t > 104)
        BY <2>4, <2>5, <2>6, <3>1, <3>2, <3>3, <3>4
      <4>2. 96 * day + a - t <= 104
        BY <2>6, <3>2, <4>1
      <4>3. QED BY <3>1, <3>2, <3>4, <4>2
    <3>5. CASE kind = "dump"
      <4>1. ~ (96 * day + a - t > 28)
        BY <2>4, <2>5, <2>6, <3>1, <3>2, <3>3, <3>5
      <4>2. 96 * day + a - t <= 28
        BY <2>6, <3>2, <4>1
      <4>3. QED BY <3>1, <3>2, <3>5, <4>2
    <3>6. QED BY <2>6, <3>4, <3>5
  <2>10. CASE kind = "volume"
    <3>1. i = 1 /\ Day[i].at = 4
      BY <2>7, <2>10, TheDay DEF TakenBy
    <3>2. LastDue = IF slot # 2 THEN 96 * day + 4
                    ELSE IF day = 0 THEN 0 ELSE 96 * (day - 1) + 4
      BY <1>1, <2>3, <2>10, LastDueIs DEF IInv
    <3>3. t = 96 * d + 4 + late /\ 96 * day + a - t <= 104
      BY <2>7, <2>9, <2>10, <3>1
    <3>4. CASE slot = 2
      <4>0. a = 11
        BY <2>9, <3>4, TheDay
      <4>1. day - d <= 1
        BY <2>6, <2>8, <3>3, <4>0
      <4>2. QED BY <2>3, <2>6, <2>7, <2>8, <3>1, <3>2, <3>4, <4>1
    <3>5. CASE slot # 2
      <4>1. a >= 35 /\ a \in Nat
        BY <2>3, <2>9, <3>5, CheckTimes
      <4>2. d = day
        BY <2>6, <2>8, <3>3, <4>1
      <4>3. QED BY <2>3, <2>6, <2>7, <2>8, <3>1, <3>2, <3>5, <4>2
    <3>6. QED BY <3>4, <3>5
  <2>11. CASE kind = "dump"
    <3>1. /\ i \in {1, 3, 5, 7}
          /\ LastDue = 96 * day + Day[slot - 1].at
      BY <1>1, <2>3, <2>7, <2>11, LastDueIs DEF TakenBy, IInv
    <3>2. PICK b, c : b = Day[i].at /\ c = Day[slot - 1].at
      OBVIOUS
    <3>3. t = 96 * d + b + late /\ 96 * day + a - t <= 28
      BY <2>7, <2>9, <2>11, <3>2
    <3>4. /\ a \in Nat /\ b \in Nat /\ c \in Nat /\ a = c + 7 /\ b <= 76
          /\ c = 4 \/ c >= 28
          /\ i < slot => b <= c
          /\ b < c => b + 24 <= c
      <4>1. \/ (a = 11 /\ c = 4 /\ slot = 2)
            \/ (a = 35 /\ c = 28 /\ slot = 4)
            \/ (a = 59 /\ c = 52 /\ slot = 6)
            \/ (a = 83 /\ c = 76 /\ slot = 8)
        BY <2>3, <2>9, <3>2, CheckTimes
      <4>2. \/ (b = 4 /\ i = 1)
            \/ (b = 28 /\ i = 3)
            \/ (b = 52 /\ i = 5)
            \/ (b = 76 /\ i = 7)
        BY <3>1, <3>2, TheDay
      <4>3. QED BY <4>1, <4>2
    <3>5. t >= 96 * day + c
      <4>1. CASE d = day
        BY <2>6, <2>7, <2>8, <3>3, <3>4, <4>1
      <4>2. CASE d # day
        BY <2>6, <2>8, <3>3, <3>4, <4>2
      <4>3. QED BY <4>1, <4>2
    <3>6. QED BY <2>3, <2>9, <3>1, <3>2, <3>5
  <2>12. QED BY <2>6, <2>10, <2>11
<1>2. IInv /\ [Next]_vars =>
        [\A recounted, readBack \in BOOLEAN :
            Passes /\ NewestOnSchedule /\ Check(recounted, readBack) => Covered]_vars
  BY <1>1
<1>3. QED BY <1>2, InductiveInvariant, PTL DEF Spec, MissedRunShows


\* What a snapshot holds.
LEMMA ContentIs ==
    ASSUME Types, NEW s, OfItsKind(s), NEW i \in DOMAIN s
    PROVE  /\ s[i].content.main \in Nat /\ s[i].content.side \in Nat
           /\ Total(s[i]) \in Nat /\ Total(s[i]) >= s[i].content.main
           /\ kind = "dump" => Total(s[i]) = s[i].content.main
<1>1. s[i].content \in Contents[kind]
  BY DEF OfItsKind
<1>2. s[i].content \in [main : Nat, side : Nat, whole : BOOLEAN, files : BOOLEAN]
  BY <1>1, Kinds
<1>3. s[i].content.main \in Nat /\ s[i].content.side \in Nat
  BY <1>2
<1>4. kind = "dump" => s[i].content.side = 0
  BY <1>1, BackupCoverageAssumption
<1>5. Total(s[i]) = s[i].content.main + s[i].content.side
  BY DEF Total
<1>6. QED BY <1>3, <1>4, <1>5

\* A volume's snapshot that holds bytes holds files.
LEMMA HasFiles ==
    ASSUME Types, kind = "volume", NEW s, OfItsKind(s), NEW i \in DOMAIN s, Total(s[i]) > 0
    PROVE  s[i].content.files
<1>1. s[i].content \in Contents["volume"]
  BY DEF OfItsKind
<1>2. s[i].content.files \/ s[i].content.main + s[i].content.side = 0
  BY <1>1, BackupCoverageAssumption
<1>3. Total(s[i]) = s[i].content.main + s[i].content.side
  BY DEF Total
<1>4. QED BY <1>2, <1>3

\* What an item held at one check and has lost half of by the next, the next fails on,
\* unless its newest backup was made by hand or by a retry, for any contents, floor,
\* lateness and changes to its declaration.
THEOREM CoverageLoss == Spec => LossShows
<1>1. ASSUME IInv, NEW recounted \in BOOLEAN, NEW readBack \in BOOLEAN,
             Check(recounted, readBack), NewestOnSchedule, Lost
      PROVE  problems' # {}
  <2>0. /\ declared = "covered" /\ before.taken > 0 /\ before.content.main >= Floor
        /\ 2 * Newest(series).content.main < before.content.main
        /\ 2 * Total(Newest(series)) < Total(before)
    BY <1>1 DEF Lost
  <2>1. PICK latest : problems' = Judge(listed, recounted, latest, readBack).fail
    BY <1>1, <2>0, CheckJudges
  <2>2. /\ series # <<>> /\ OfItsKind(series)
        /\ \/ Newest(series) = before
           \/ Len(series) = 2 /\ series[1] = before
    BY <1>1, <2>0 DEF IInv, Types, BeforeIsHeld
  <2>3. listed = series
    BY <1>1, <2>0, <2>2, CheckJudges DEF IInv, ListedStands
  <2>4. /\ Len(series) \in {1, 2} /\ Len(series) \in DOMAIN series
        /\ Newest(series) = series[Len(series)]
    BY <1>1, <2>2, NewestHeld DEF IInv
  <2>5. Newest(series) # before
    <3> SUFFICES ASSUME Newest(series) = before PROVE FALSE
      OBVIOUS
    <3>1. series[Len(series)].content.main \in Nat
      BY <1>1, <2>2, <2>4, ContentIs DEF IInv
    <3>2. 2 * series[Len(series)].content.main < series[Len(series)].content.main
      BY <2>0, <2>4
    <3>3. QED BY <3>1, <3>2
  <2>6. Len(series) = 2 /\ series[1] = before /\ Newest(series) = series[2]
    BY <2>2, <2>4, <2>5
  <2>7. /\ 1 \in DOMAIN series /\ 2 \in DOMAIN series
        /\ series[1].content.main >= Floor
        /\ 2 * series[2].content.main < series[1].content.main
        /\ 2 * Total(series[2]) < Total(series[1])
    <3>1. DOMAIN series = 1 .. Len(series)
      BY <2>2 DEF OfItsKind
    <3>2. QED BY <2>0, <2>6, <3>1
  <2>8. /\ \A i \in {1, 2} : /\ series[i].content.main \in Nat
                             /\ Total(series[i]) \in Nat
                             /\ Total(series[i]) >= series[i].content.main
        /\ Floor \in Nat
    BY <1>1, <2>2, <2>7, ContentIs, BackupCoverageAssumption DEF IInv
  <2>9. /\ Total(series[1]) > 0
        /\ Halved(Total(series[1]), Total(series[2]))
        /\ Halved(series[1].content.main, series[2].content.main)
    <3>1. PICK x, y, p, q : /\ x = Total(series[1]) /\ y = Total(series[2])
                            /\ p = series[1].content.main /\ q = series[2].content.main
      OBVIOUS
    <3>2. /\ x \in Nat /\ y \in Nat /\ p \in Nat /\ q \in Nat /\ Floor \in Nat
          /\ x >= p /\ p >= Floor /\ 2 * q < p /\ 2 * y < x
      BY <2>7, <2>8, <3>1
    <3>3. x > 0 /\ Halved(x, y) /\ Halved(p, q)
      BY <3>2 DEF Halved
    <3>4. QED BY <3>1, <3>3
  <2>10. Shrank(series)
    BY <2>6, <2>9 DEF Shrank
  <2>11. kind = "volume" => VolumeContents(series, recounted).fail # {}
    <3>1. kind = "volume" => series[1].content.files
      BY <1>1, <2>2, <2>7, <2>9, HasFiles DEF IInv
    <3>2. QED BY <2>6, <2>9, <2>10, <3>1 DEF VolumeContents
  <2>12. DumpContents(series, latest, readBack) # {}
    BY <2>10 DEF DumpContents
  <2>13. kind \in {"volume", "dump"}
    BY <1>1, Kinds DEF IInv
  <2>14. QED BY <2>1, <2>2, <2>3, <2>11, <2>12, <2>13 DEF Judge
<1>2. IInv /\ [Next]_vars =>
        [\A recounted, readBack \in BOOLEAN :
            Lost /\ NewestOnSchedule /\ Check(recounted, readBack) => problems' # {}]_vars
  BY <1>1
<1>3. QED BY <1>2, InductiveInvariant, PTL DEF Spec, LossShows

\* The last run due is within the limits of the check.
LEMMA DueInTime ==
    ASSUME Types, slot \in {2, 4, 6, 8},
           NEW taken \in Nat, taken >= LastDue
    PROVE  ~ (Now - taken >
                (IF kind = "volume" THEN VolumeLimit ELSE DumpLimit))
<1>1. kind \in {"volume", "dump"} /\ day \in Nat
  BY Kinds
<1>2. PICK a, c : /\ a = Day[slot].at /\ c = Day[slot - 1].at
                  /\ \/ slot = 2 /\ a = 11 /\ c = 4
                     \/ slot # 2 /\ a \in Nat /\ a <= 83 /\ c = a - 7
  BY CheckTimes
<1>3. a \in Nat /\ c \in Nat /\ a = c + 7 /\ a <= 83
  BY <1>2, CheckTimes
<1>4. Now = 96 * day + a
  BY <1>2 DEF Now
<1>5. CASE kind = "volume"
  <2>1. VolumeLimit = 104
    BY DEF VolumeLimit, Hours
  <2>2. LastDue = IF slot # 2 THEN 96 * day + 4
                  ELSE IF day = 0 THEN 0 ELSE 96 * (day - 1) + 4
    BY <1>5, LastDueIs
  <2>3. CASE slot = 2
    <3>1. a = 11
      BY <1>2, <2>3
    <3>2. CASE day = 0
      BY <1>1, <1>4, <1>5, <2>1, <3>1, <3>2
    <3>3. CASE day # 0
      <4>1. taken >= 96 * (day - 1) + 4
        BY <2>2, <2>3, <3>3
      <4>2. 96 * day + a - taken <= 104
        BY <1>1, <3>1, <4>1
      <4>3. QED BY <1>1, <1>3, <1>4, <1>5, <2>1, <4>2
    <3>4. QED BY <3>2, <3>3
  <2>4. CASE slot # 2
    <3>1. taken >= 96 * day + 4
      BY <2>2, <2>4
    <3>2. 96 * day + a - taken <= 104
      BY <1>1, <1>3, <3>1
    <3>3. QED BY <1>1, <1>3, <1>4, <1>5, <2>1, <3>2
  <2>5. QED BY <2>3, <2>4
<1>6. CASE kind = "dump"
  <2>1. DumpLimit = 28
    BY DEF DumpLimit, Hours
  <2>2. taken >= 96 * day + c
    BY <1>2, <1>6, LastDueIs
  <2>3. 96 * day + a - taken <= 28
    BY <1>1, <1>3, <2>2
  <2>4. QED BY <1>1, <1>3, <1>4, <1>6, <2>1, <2>3
<1>7. QED BY <1>1, <1>5, <1>6

\* An item that is well fails no check that could read it, for any contents, lateness,
\* runs by hand and changes.
THEOREM CoverageQuiet == Spec => HealthyIsQuiet
<1>1. ASSUME IInv, Check(TRUE, TRUE), declared = "covered",
             Healthy(listed), Healthy(series),
             kind = "dump" => Total(Newest(listed)) = Total(Newest(series))
      PROVE  problems' = {}
  <2>1. PICK latest : /\ problems' = Judge(listed, TRUE, latest, TRUE).fail
                      /\ series # <<>> => latest = Newest(series)
    BY <1>1, CheckJudges
  <2>2. /\ listed # <<>> /\ series # <<>> /\ OfItsKind(listed)
        /\ Newest(listed).taken >= LastDue
        /\ Newest(listed).content.main > 0
        /\ \A i \in DOMAIN listed : listed[i].content.whole
        /\ Len(listed) = 2 => \/ Total(listed[1]) < Floor
                              \/ 2 * Newest(listed).content.main >= listed[1].content.main
    BY <1>1 DEF IInv, Types, Healthy
  <2>3. /\ slot \in {2, 4, 6, 8} /\ kind \in {"volume", "dump"}
        /\ Newest(listed) = listed[Len(listed)] /\ Len(listed) \in DOMAIN listed
        /\ Len(listed) \in {1, 2} /\ Newest(listed).taken \in Nat
    BY <1>1, <2>2, Kinds, NewestHeld DEF IInv, ListedStands
  <2>4. ~ (Now - Newest(listed).taken >
              (IF kind = "volume" THEN VolumeLimit ELSE DumpLimit))
    BY <1>1, <2>2, <2>3, DueInTime DEF IInv
  <2>5. PICK n : /\ n = listed[Len(listed)].content.main
                 /\ n \in Nat /\ n > 0
                 /\ Total(listed[Len(listed)]) \in Nat
                 /\ Total(listed[Len(listed)]) >= n
                 /\ kind = "dump" => Total(listed[Len(listed)]) = n
    BY <1>1, <2>2, <2>3, ContentIs DEF IInv
  <2>6. Total(Newest(listed)) # 0
    BY <2>3, <2>5
  <2>7. Shrank(listed) =>
          /\ kind = "volume"
          /\ ~ Halved(listed[1].content.main, listed[2].content.main)
    <3> SUFFICES ASSUME Shrank(listed)
                 PROVE  /\ kind = "volume"
                        /\ ~ Halved(listed[1].content.main, listed[2].content.main)
      OBVIOUS
    <3>1. /\ Len(listed) = 2 /\ Total(listed[1]) >= Floor
          /\ 2 * Total(listed[2]) < Total(listed[1])
      BY DEF Shrank, Halved
    <3>2. 1 \in DOMAIN listed /\ 2 \in DOMAIN listed
      <4>1. DOMAIN listed = 1 .. Len(listed)
        BY <2>2 DEF OfItsKind
      <4>2. QED BY <3>1, <4>1
    <3>3. PICK x, p : /\ x = Total(listed[1]) /\ p = listed[1].content.main
                      /\ x \in Nat /\ p \in Nat /\ (kind = "dump" => x = p) /\ Floor \in Nat
      BY <1>1, <2>2, <3>2, ContentIs, BackupCoverageAssumption DEF IInv
    <3>4. 2 * n >= p
      BY <2>2, <2>3, <2>5, <3>1, <3>3
    <3>5. kind # "dump"
      BY <2>5, <3>1, <3>3, <3>4
    <3>6. ~ Halved(p, n)
      BY <2>5, <3>3, <3>4 DEF Halved
    <3>7. QED BY <2>3, <2>5, <3>1, <3>3, <3>5, <3>6
  <2>8. kind = "volume" => VolumeContents(listed, TRUE).fail = {}
    <3>1. kind = "volume" => Newest(listed).content.files
      BY <1>1, <2>2, <2>3, <2>5, HasFiles DEF IInv
    <3>2. QED BY <2>7, <3>1 DEF VolumeContents
  <2>9. kind = "dump" => DumpContents(listed, latest, TRUE) = {}
    <3> SUFFICES ASSUME kind = "dump" PROVE DumpContents(listed, latest, TRUE) = {}
      OBVIOUS
    <3>1. Total(latest) = Total(Newest(listed))
      BY <1>1, <2>1, <2>2
    <3>2. latest.content.whole
      <4>1. Len(series) \in DOMAIN series
        BY <1>1, <2>2, Kinds, NewestHeld DEF IInv
      <4>2. QED BY <1>1, <2>1, <2>2, <4>1 DEF Healthy, Newest
    <3>3. ~ Shrank(listed)
      BY <2>7
    <3>4. QED BY <2>6, <3>1, <3>2, <3>3 DEF DumpContents
  <2>10. QED BY <2>1, <2>2, <2>3, <2>4, <2>8, <2>9 DEF Judge
<1>2. IInv /\ [Next]_vars =>
        [(/\ declared = "covered"
          /\ Healthy(listed)
          /\ Healthy(series)
          /\ Check(TRUE, TRUE)
          /\ kind = "dump" => Total(Newest(listed)) = Total(Newest(series))) => problems' = {}
        ]_vars
  BY <1>1
<1>3. QED BY <1>2, InductiveInvariant, PTL DEF Spec, HealthyIsQuiet
=============================================================================
