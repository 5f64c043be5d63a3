-------------------------- MODULE VmidReuseProofs ---------------------------
(***************************************************************************)
(* What the reuse alerts promise, for any machines, keep-last, rungs and   *)
(* failing reads.  Unless a protection was lifted since, a run that        *)
(* removes the oldest unprotected backup finds the group as the last check *)
(* saw it; and a promise counts down as the group does.                    *)
(***************************************************************************)
EXTENDS VmidReuse, FiniteSetTheorems, FunctionTheorems, TLAPS

\* Keep-last holds, or somebody has lifted a protection since.
KeepLastHolds == ~lifted => Cardinality(Unprotected(group)) <= Keep

\* Once a full group has been checked, whoever has only its oldest left has been
\* told about, unless a read failed or a protection was lifted.
LastOneIsTold ==
    phase = "backup" /\ ~lifted /\ Cardinality(Unprotected(group)) = Keep =>
        \A i \in Unprotected(group) :
            /\ \A j \in Unprotected(group) : i <= j
            /\ HeldBy(group, group[i].machine) = {i}
            => group[i].machine \in told \cup blind

\* A promise stands for a full group, and counts what is left of the machine's,
\* exactly if they are the oldest.
PromiseCounts ==
    left.earlier # Unknown =>
        /\ Cardinality(Unprotected(group)) = Keep
        /\ left.runs <= Cardinality(HeldBy(group, left.earlier))
        /\ left.together => /\ left.runs = Cardinality(HeldBy(group, left.earlier))
                            /\ Together(group, left.earlier)

IInv == TypeOK /\ KeepLastHolds /\ LastOneIsTold /\ PromiseCounts

-----------------------------------------------------------------------------
(* Positions.                                                              *)

LEMMA LeastOf ==
    ASSUME NEW T \in SUBSET Nat, T # {}
    PROVE  \E x \in T : \A y \in T : x <= y
<1>1. PICK x \in T : \A y \in T : ~ (<<y, x>> \in OpToRel(<, Nat))
  BY NatLessThanWellFounded, WFMin
<1>2. \A y \in T : ~ (y < x)
  BY <1>1 DEF OpToRel
<1>3. QED BY <1>2

\* Positions of a group, and sets of them.
LEMMA PositionsAre ==
    ASSUME NEW g \in Seq(Backups)
    PROVE  /\ DOMAIN g = 1 .. Len(g) /\ Len(g) \in Nat /\ IsFiniteSet(DOMAIN g)
           /\ DOMAIN g \in SUBSET Nat
           /\ Unprotected(g) \in SUBSET DOMAIN g /\ IsFiniteSet(Unprotected(g))
           /\ Cardinality(Unprotected(g)) \in Nat
           /\ \A i \in DOMAIN g : g[i] \in Backups /\ g[i].machine \in Machine
                                   /\ g[i].protected \in BOOLEAN
<1>1. DOMAIN g = 1 .. Len(g) /\ Len(g) \in Nat
  OBVIOUS
<1>2. IsFiniteSet(DOMAIN g)
  BY <1>1, FS_Interval
<1>3. Unprotected(g) \in SUBSET DOMAIN g
  BY DEF Unprotected
<1>4. IsFiniteSet(Unprotected(g)) /\ Cardinality(Unprotected(g)) \in Nat
  BY <1>2, <1>3, FS_Subset, FS_CardinalityType
<1>5. \A i \in DOMAIN g : g[i] \in Backups
  BY <1>1
<1>6. QED BY <1>1, <1>2, <1>3, <1>4, <1>5 DEF Backups

\* A subset of finitely many is no larger, and smaller if it lacks one.
LEMMA Smaller ==
    ASSUME NEW S, IsFiniteSet(S), NEW T \in SUBSET S
    PROVE  /\ IsFiniteSet(T) /\ Cardinality(T) \in Nat /\ Cardinality(S) \in Nat
           /\ Cardinality(T) <= Cardinality(S)
           /\ T # S => Cardinality(T) < Cardinality(S)
           /\ T # {} => Cardinality(T) > 0
<1>1. IsFiniteSet(T) /\ Cardinality(T) <= Cardinality(S)
      /\ (Cardinality(S) = Cardinality(T) => S = T)
  BY FS_Subset
<1>2. Cardinality(T) \in Nat /\ Cardinality(S) \in Nat
  BY <1>1, FS_CardinalityType
<1>3. T # {} => Cardinality(T) # 0
  BY <1>1, FS_EmptySet
<1>4. QED BY <1>1, <1>2, <1>3

\* The ranks of some positions number them in order.
LEMMA RanksNumber ==
    ASSUME NEW kept \in SUBSET Nat, IsFiniteSet(kept)
    PROVE  /\ [i \in kept |-> Rank(kept, i)] \in Bijection(kept, 1 .. Cardinality(kept))
           /\ \A i, j \in kept : i < j => Rank(kept, i) < Rank(kept, j)
           /\ Cardinality(kept) \in Nat
<1> DEFINE upto(i) == {j \in kept : j <= i}
           f == [i \in kept |-> Rank(kept, i)]
<1>1. Cardinality(kept) \in Nat
  BY FS_CardinalityType
<1>2. \A i \in kept : Rank(kept, i) \in 1 .. Cardinality(kept)
  <2> SUFFICES ASSUME NEW i \in kept PROVE Rank(kept, i) \in 1 .. Cardinality(kept)
    OBVIOUS
  <2>1. upto(i) \in SUBSET kept /\ i \in upto(i)
    OBVIOUS
  <2>2. Cardinality(upto(i)) <= Cardinality(kept) /\ Cardinality(upto(i)) > 0
        /\ Cardinality(upto(i)) \in Nat
    <3> HIDE DEF upto
    <3> QED BY <2>1, Smaller
  <2>3. QED BY <1>1, <2>2 DEF Rank
<1>3. \A i, j \in kept : i < j => Rank(kept, i) < Rank(kept, j)
  <2> SUFFICES ASSUME NEW i \in kept, NEW j \in kept, i < j
               PROVE  Rank(kept, i) < Rank(kept, j)
    OBVIOUS
  <2>1. upto(j) \in SUBSET kept /\ upto(i) \in SUBSET upto(j)
        /\ j \in upto(j) /\ j \notin upto(i)
    <3>1. i \in Nat /\ j \in Nat /\ \A k \in kept : k \in Nat
      OBVIOUS
    <3>2. \A k \in kept : k <= i => k <= j
      BY <3>1
    <3>3. \A k : k \in upto(i) => k \in upto(j)
      BY <3>2
    <3>4. upto(j) \in SUBSET kept
      OBVIOUS
    <3>5. j <= j /\ ~(j <= i)
      BY <3>1
    <3>6. QED BY <3>3, <3>4, <3>5
  <2>2. IsFiniteSet(upto(j))
    <3> HIDE DEF upto
    <3> QED BY <2>1, Smaller
  <2>3. Cardinality(upto(i)) < Cardinality(upto(j))
    <3> HIDE DEF upto
    <3> QED BY <2>1, <2>2, Smaller
  <2>4. QED BY <2>3 DEF Rank
<1>4. f \in [kept -> 1 .. Cardinality(kept)]
  BY <1>2
<1>5. \A i, j \in kept : f[i] = f[j] => i = j
  <2> SUFFICES ASSUME NEW i \in kept, NEW j \in kept, i # j PROVE f[i] # f[j]
    OBVIOUS
  <2>1. i < j \/ j < i
    OBVIOUS
  <2>2. Rank(kept, i) \in Nat /\ Rank(kept, j) \in Nat
    BY <1>1, <1>2
  <2>3. QED BY <1>3, <2>1, <2>2
<1> HIDE DEF f
<1>6. f \in Injection(kept, 1 .. Cardinality(kept))
  BY <1>4, <1>5, Fun_IsInj
<1>7. IsFiniteSet(1 .. Cardinality(kept))
      /\ Cardinality(1 .. Cardinality(kept)) = Cardinality(kept)
  BY <1>1, FS_Interval
<1>8. f \in Surjection(kept, 1 .. Cardinality(kept))
  BY <1>6, <1>7, FS_Injection
<1>9. f \in Bijection(kept, 1 .. Cardinality(kept))
  BY <1>6, <1>8 DEF Bijection
<1>10. QED BY <1>1, <1>3, <1>9 DEF f

\* What is left of a group is the kept, in their order.
LEMMA OnlyIs ==
    ASSUME NEW g \in Seq(Backups), NEW kept \in SUBSET DOMAIN g
    PROVE  /\ Only(g, kept) \in Seq(Backups)
           /\ \E f \in Bijection(kept, DOMAIN Only(g, kept)) :
                /\ \A i \in kept : Only(g, kept)[f[i]] = g[i]
                /\ \A i, j \in kept : i < j => f[i] < f[j]
<1>1. kept \in SUBSET Nat /\ IsFiniteSet(kept)
  BY PositionsAre, FS_Subset
<1>2. /\ Cardinality(kept) \in Nat
      /\ [i \in kept |-> Rank(kept, i)] \in Bijection(kept, 1 .. Cardinality(kept))
      /\ \A i, j \in kept : i < j => Rank(kept, i) < Rank(kept, j)
  BY <1>1, RanksNumber
<1>3. PICK f \in Bijection(kept, 1 .. Cardinality(kept)) :
        \A i \in kept : f[i] = Rank(kept, i)
  BY <1>2
<1>4. /\ f \in [kept -> 1 .. Cardinality(kept)]
      /\ \A i, j \in kept : f[i] = f[j] => i = j
      /\ \A k \in 1 .. Cardinality(kept) : \E i \in kept : f[i] = k
  <2>1. PICK T : T = 1 .. Cardinality(kept)
    OBVIOUS
  <2>2. f \in Bijection(kept, T)
    BY <2>1
  <2>3. /\ f \in [kept -> T] /\ \A i, j \in kept : f[i] = f[j] => i = j
        /\ \A k \in T : \E i \in kept : f[i] = k
    BY <2>2, Fun_BijectionProperties
  <2>4. QED BY <2>1, <2>3
<1>5. DOMAIN Only(g, kept) = 1 .. Cardinality(kept)
  BY DEF Only
<1>6. \A i \in kept : Only(g, kept)[f[i]] = g[i]
  <2> SUFFICES ASSUME NEW i \in kept PROVE Only(g, kept)[f[i]] = g[i]
    OBVIOUS
  <2>1. (CHOOSE j \in kept : Rank(kept, j) = f[i]) = i
    BY <1>3, <1>4
  <2>2. QED BY <1>4, <2>1 DEF Only
<1>7. \A k \in 1 .. Cardinality(kept) : Only(g, kept)[k] \in Backups
  BY <1>4, <1>6, PositionsAre
<1>8. Only(g, kept) \in Seq(Backups)
  <2>1. PICK n \in Nat : n = Cardinality(kept)
    BY <1>2
  <2>2. Only(g, kept) \in [1 .. n -> Backups]
    BY <1>7, <2>1 DEF Only
  <2>3. QED BY <2>2
<1>9. QED BY <1>2, <1>3, <1>5, <1>6, <1>8

\* As many in the new numbering as in the old.
LEMMA Renumbered ==
    ASSUME NEW S, NEW T, IsFiniteSet(S), NEW f \in Bijection(S, T),
           NEW A \in SUBSET S, NEW B \in SUBSET T, \A i \in S : i \in A <=> f[i] \in B
    PROVE  IsFiniteSet(B) /\ Cardinality(B) = Cardinality(A)
<1>1. /\ f \in [S -> T] /\ \A i, j \in S : f[i] = f[j] => i = j
      /\ \A t \in T : \E i \in S : f[i] = t
  BY Fun_BijectionProperties
<1> DEFINE h == [i \in A |-> f[i]]
<1>2. h \in [A -> B] /\ (\A i, j \in A : h[i] = h[j] => i = j)
      /\ \A t \in B : \E i \in A : h[i] = t
  BY <1>1
<1> HIDE DEF h
<1>3. h \in Bijection(A, B)
  BY <1>2, Fun_IsBij
<1>4. IsFiniteSet(A)
  BY FS_Subset
<1>5. QED BY <1>3, <1>4, FS_Bijection DEF ExistsBijection

-----------------------------------------------------------------------------
(* keep-last.                                                              *)

\* A group with a backup more, unprotected as they arrive, at position n.
OneMoreIs(g, b, all, n) ==
    /\ all \in Seq(Backups) /\ n \in Nat /\ n \notin DOMAIN g
    /\ DOMAIN all = DOMAIN g \cup {n} /\ DOMAIN all = 1 .. n
    /\ all[n] = b /\ \A i \in DOMAIN g : all[i] = g[i]
    /\ Unprotected(all) = Unprotected(g) \cup {n}
    /\ Cardinality(Unprotected(all)) = Cardinality(Unprotected(g)) + 1
    /\ \A i \in DOMAIN g : i < n

LEMMA OneMore ==
    ASSUME NEW g \in Seq(Backups), NEW b \in Backups, ~b.protected
    PROVE  OneMoreIs(g, b, Append(g, b), Len(g) + 1)
<1>0. PICK all, n : all = Append(g, b) /\ n = Len(g) + 1
  OBVIOUS
<1>1. /\ all \in Seq(Backups) /\ n \in Nat /\ n \notin DOMAIN g
      /\ DOMAIN all = DOMAIN g \cup {n} /\ DOMAIN all = 1 .. n
      /\ all[n] = b /\ \A i \in DOMAIN g : all[i] = g[i]
      /\ \A i \in DOMAIN g : i < n
  BY <1>0
<1>2. Unprotected(all) = Unprotected(g) \cup {n}
  BY <1>1 DEF Unprotected
<1>3. n \notin Unprotected(g) /\ IsFiniteSet(Unprotected(g))
  BY <1>1, PositionsAre
<1>4. Cardinality(Unprotected(g) \cup {n}) = Cardinality(Unprotected(g)) + 1
  BY <1>3, FS_AddElement
<1>5. OneMoreIs(g, b, all, n)
  BY <1>1, <1>2, <1>4 DEF OneMoreIs
<1>6. QED BY <1>0, <1>5, Zenon

\* What keep-last keeps of a group with a backup more, and makes of it: every
\* protected one, in order; no more unprotected than it may; all, if there is room;
\* and all but the oldest unprotected, if there is just none.
KeptIs(g, all, kept, r) ==
    /\ \E f \in Bijection(kept, DOMAIN r) :
          /\ \A i \in kept : r[f[i]] = all[i]
          /\ \A i, j \in kept : i < j => f[i] < f[j]
    /\ DOMAIN g \ Unprotected(g) \subseteq kept
    /\ Cardinality(Unprotected(r)) <= Keep
    /\ Cardinality(Unprotected(g)) < Keep => kept = DOMAIN all
    /\ Cardinality(Unprotected(g)) = Keep =>
         /\ Cardinality(Unprotected(r)) = Keep
         /\ \E o \in Unprotected(g) :
               /\ \A j \in Unprotected(g) : o <= j
               /\ kept = DOMAIN all \ {o}

LEMMA Pruned ==
    ASSUME NEW g \in Seq(Backups), NEW b \in Backups, ~b.protected
    PROVE  \E kept \in SUBSET DOMAIN Append(g, b), r \in Seq(Backups) :
             /\ r = PruneKeepLast(Append(g, b))
             /\ KeptIs(g, Append(g, b), kept, r)
<1>1. PICK all, n : all = Append(g, b) /\ n = Len(g) + 1
  OBVIOUS
<1>2. /\ all \in Seq(Backups) /\ n \in Nat /\ n \notin DOMAIN g
      /\ DOMAIN all = DOMAIN g \cup {n} /\ DOMAIN all = 1 .. n
      /\ all[n] = b /\ \A i \in DOMAIN g : all[i] = g[i]
      /\ Unprotected(all) = Unprotected(g) \cup {n}
      /\ Cardinality(Unprotected(all)) = Cardinality(Unprotected(g)) + 1
      /\ \A i \in DOMAIN g : i < n
  <2>1. OneMoreIs(g, b, Append(g, b), Len(g) + 1)
    BY OneMore, Zenon
  <2>2. OneMoreIs(g, b, all, n)
    BY <1>1, <2>1, Zenon
  <2>3. QED BY <2>2 DEF OneMoreIs
<1>3. /\ IsFiniteSet(DOMAIN all) /\ DOMAIN all \in SUBSET Nat
      /\ Unprotected(all) \in SUBSET DOMAIN all /\ IsFiniteSet(Unprotected(all))
      /\ Cardinality(Unprotected(all)) \in Nat /\ Cardinality(Unprotected(g)) \in Nat
      /\ Keep \in Nat /\ Keep > 1
      /\ Unprotected(g) \in SUBSET DOMAIN g /\ DOMAIN g \in SUBSET Nat
      /\ IsFiniteSet(Unprotected(g))
  <2>1. all \in Seq(Backups)
    BY <1>2
  <2>2. /\ IsFiniteSet(DOMAIN all) /\ DOMAIN all \in SUBSET Nat
        /\ Unprotected(all) \in SUBSET DOMAIN all /\ IsFiniteSet(Unprotected(all))
        /\ Cardinality(Unprotected(all)) \in Nat
    BY <2>1, PositionsAre, Zenon
  <2>3. /\ Cardinality(Unprotected(g)) \in Nat /\ IsFiniteSet(Unprotected(g))
        /\ Unprotected(g) \in SUBSET DOMAIN g /\ DOMAIN g \in SUBSET Nat
    BY PositionsAre, Zenon
  <2>4. Keep \in Nat /\ Keep > 1
    BY VmidReuseAssumption
  <2>5. QED BY <2>2, <2>3, <2>4
<1> DEFINE since(i) == {j \in Unprotected(all) : i <= j}
           keeps == {i \in DOMAIN all :
                        all[i].protected \/ Cardinality(since(i)) <= Keep}
<1>4. PICK kept \in SUBSET DOMAIN all : kept = keeps
  OBVIOUS
<1>5. PruneKeepLast(all) = Only(all, kept)
  BY <1>4 DEF PruneKeepLast
<1>6. PICK r \in Seq(Backups) : r = Only(all, kept)
  BY <1>2, OnlyIs
<1>7. PICK f \in Bijection(kept, DOMAIN r) :
                  /\ \A i \in kept : r[f[i]] = all[i]
                  /\ \A i, j \in kept : i < j => f[i] < f[j]
  BY <1>2, <1>6, OnlyIs
<1>8. DOMAIN g \ Unprotected(g) \subseteq kept
  BY <1>2, <1>4 DEF Unprotected
<1>9. kept \cap Unprotected(all) = {i \in Unprotected(all) : Cardinality(since(i)) <= Keep}
  BY <1>3, <1>4 DEF Unprotected
<1>10. PICK old \in SUBSET Unprotected(all) : old = kept \cap Unprotected(all)
  OBVIOUS
<1>11. Cardinality(Unprotected(r)) = Cardinality(old) /\ Cardinality(old) \in Nat
  <2>1. f \in [kept -> DOMAIN r]
    BY <1>7, Fun_BijectionProperties
  <2>2. \A i \in kept : i \in old <=> f[i] \in Unprotected(r)
    BY <1>7, <1>10, <2>1 DEF Unprotected
  <2>3. IsFiniteSet(kept) /\ IsFiniteSet(old) /\ old \in SUBSET kept
    BY <1>3, <1>10, FS_Subset
  <2>4. Unprotected(r) \in SUBSET DOMAIN r
    BY DEF Unprotected
  <2>5. QED BY <1>7, <2>2, <2>3, <2>4, Renumbered, FS_CardinalityType
<1>12. Cardinality(old) <= Keep
  <2>1. CASE old = {}
    BY <1>3, <2>1, FS_EmptySet
  <2>2. CASE old # {}
    <3>1. PICK w \in old : \A j \in old : w <= j
      BY <1>3, <2>2, LeastOf
    <3>2. old \in SUBSET since(w) /\ since(w) \in SUBSET Unprotected(all)
      BY <3>1
    <3>3. Cardinality(since(w)) <= Keep
      BY <1>9, <1>10
    <3>4. Cardinality(old) <= Cardinality(since(w)) /\ Cardinality(since(w)) \in Nat
      <4> HIDE DEF since
      <4>1. IsFiniteSet(since(w))
        BY <1>3, <3>2, Smaller
      <4>2. QED BY <3>2, <4>1, Smaller
    <3>5. QED BY <1>3, <1>11, <3>3, <3>4
  <2>3. QED BY <2>1, <2>2
<1>13. Cardinality(Unprotected(g)) < Keep => kept = DOMAIN all
  <2> SUFFICES ASSUME Cardinality(Unprotected(g)) < Keep, NEW i \in DOMAIN all
               PROVE  Cardinality(since(i)) <= Keep
    BY <1>4
  <2>1. since(i) \in SUBSET Unprotected(all)
    OBVIOUS
  <2>2. Cardinality(since(i)) <= Cardinality(Unprotected(all)) /\ Cardinality(since(i)) \in Nat
    <3> HIDE DEF since
    <3> QED BY <1>3, <2>1, Smaller
  <2>3. QED BY <1>2, <1>3, <2>2
<1>14. ASSUME Cardinality(Unprotected(g)) = Keep
       PROVE  /\ Cardinality(Unprotected(r)) = Keep
              /\ \E o \in Unprotected(g) :
                        /\ \A j \in Unprotected(g) : o <= j
                        /\ kept = DOMAIN all \ {o}
  <2>1. Unprotected(g) # {}
    <3>1. Cardinality(Unprotected(g)) # 0
      BY <1>3, <1>14
    <3>2. QED BY <3>1, FS_EmptySet
  <2>2. PICK o \in Unprotected(g) : \A j \in Unprotected(g) : o <= j
    BY <1>3, <2>1, LeastOf
  <2>3. \A j \in Unprotected(all) : o <= j
    BY <1>2, <1>3, <2>2
  <2>4. since(o) = Unprotected(all)
    BY <2>3
  <2>5. o \notin kept
    BY <1>2, <1>3, <1>4, <1>14, <2>2, <2>4 DEF Unprotected
  <2>6. \A i \in DOMAIN all \ {o} : i \in kept
    <3> SUFFICES ASSUME NEW i \in Unprotected(all), i # o
                 PROVE  Cardinality(since(i)) <= Keep
      BY <1>4 DEF Unprotected
    <3>1. since(i) \in SUBSET Unprotected(all) /\ o \in Unprotected(all) /\ o \notin since(i)
      <4>1. o <= i /\ o \in Nat /\ i \in Nat
        BY <1>2, <1>3, <2>3
      <4>2. QED BY <1>2, <4>1
    <3>2. Cardinality(since(i)) < Cardinality(Unprotected(all)) /\ Cardinality(since(i)) \in Nat
      <4> HIDE DEF since
      <4> QED BY <1>3, <3>1, Smaller
    <3>3. QED BY <1>2, <1>3, <1>14, <3>2
  <2>7. kept = DOMAIN all \ {o}
    BY <1>2, <2>5, <2>6
  <2>8. old = Unprotected(all) \ {o}
    BY <1>3, <1>10, <2>7
  <2>9. Cardinality(old) = Cardinality(Unprotected(all)) - 1
    BY <1>2, <1>3, <2>2, <2>8, FS_RemoveElement
  <2>10. Cardinality(Unprotected(r)) = Keep
    BY <1>2, <1>3, <1>11, <1>14, <2>9
  <2>11. QED BY <2>2, <2>7, <2>10
<1> HIDE DEF since, keeps
<1>15. KeptIs(g, all, kept, r)
  BY <1>3, <1>7, <1>8, <1>11, <1>12, <1>13, <1>14 DEF KeptIs
<1>16. r = PruneKeepLast(all)
  BY <1>5, <1>6
<1>17. QED BY <1>1, <1>15, <1>16

\* What is kept of a group, in its order, is as much protected, unprotected and
\* anyone's as it was; and nothing comes between what nothing came between.
CarriedIs(g, kept, r) ==
    /\ Cardinality(Unprotected(r)) = Cardinality(Unprotected(g) \cap kept)
    /\ Cardinality(DOMAIN r \ Unprotected(r))
         = Cardinality((DOMAIN g \ Unprotected(g)) \cap kept)
    /\ \A m : Cardinality(HeldBy(r, m)) = Cardinality(HeldBy(g, m) \cap kept)
    /\ \A m : Together(g, m) => Together(r, m)

LEMMA Carried ==
    ASSUME NEW g \in Seq(Backups), NEW kept \in SUBSET DOMAIN g, NEW r \in Seq(Backups),
           \E f \in Bijection(kept, DOMAIN r) :
               /\ \A i \in kept : r[f[i]] = g[i]
               /\ \A i, j \in kept : i < j => f[i] < f[j]
    PROVE  CarriedIs(g, kept, r)
<1>0. PICK f \in Bijection(kept, DOMAIN r) :
               /\ \A i \in kept : r[f[i]] = g[i]
               /\ \A i, j \in kept : i < j => f[i] < f[j]
  OBVIOUS
<1>1. /\ f \in [kept -> DOMAIN r] /\ \A k \in DOMAIN r : \E i \in kept : f[i] = k
  BY Fun_BijectionProperties
<1>2. IsFiniteSet(kept)
  BY PositionsAre, FS_Subset
<1>3. \A i \in kept : i \in Unprotected(g) <=> f[i] \in Unprotected(r)
  BY <1>0, <1>1 DEF Unprotected
<1>4. Unprotected(g) \in SUBSET DOMAIN g /\ Unprotected(r) \in SUBSET DOMAIN r
      /\ DOMAIN g \in SUBSET Nat /\ DOMAIN r \in SUBSET Nat
  BY PositionsAre, Zenon
<1>5. Cardinality(Unprotected(r)) = Cardinality(Unprotected(g) \cap kept)
  <2>1. PICK A \in SUBSET kept, B \in SUBSET DOMAIN r :
          A = Unprotected(g) \cap kept /\ B = Unprotected(r)
    BY <1>4
  <2>2. \A i \in kept : i \in A <=> f[i] \in B
    BY <1>3, <2>1
  <2>3. Cardinality(B) = Cardinality(A)
    BY <1>2, <2>2, Renumbered
  <2>4. QED BY <2>1, <2>3
<1>6. Cardinality(DOMAIN r \ Unprotected(r))
        = Cardinality((DOMAIN g \ Unprotected(g)) \cap kept)
  <2>1. PICK A \in SUBSET kept, B \in SUBSET DOMAIN r :
          A = (DOMAIN g \ Unprotected(g)) \cap kept /\ B = DOMAIN r \ Unprotected(r)
    BY <1>4
  <2>2. \A i \in kept : i \in A <=> f[i] \in B
    BY <1>1, <1>3, <2>1
  <2>3. Cardinality(B) = Cardinality(A)
    BY <1>2, <2>2, Renumbered
  <2>4. QED BY <2>1, <2>3
<1>7. ASSUME NEW m PROVE Cardinality(HeldBy(r, m)) = Cardinality(HeldBy(g, m) \cap kept)
  <2>1. PICK A \in SUBSET kept, B \in SUBSET DOMAIN r :
          A = HeldBy(g, m) \cap kept /\ B = HeldBy(r, m)
    BY <1>4 DEF HeldBy
  <2>2. \A i \in kept : i \in A <=> f[i] \in B
    BY <1>0, <1>1, <1>3, <2>1 DEF HeldBy
  <2>3. Cardinality(B) = Cardinality(A)
    BY <1>2, <2>2, Renumbered
  <2>4. QED BY <2>1, <2>3
<1>8. ASSUME NEW m, Together(g, m) PROVE Together(r, m)
  <2> SUFFICES ASSUME NEW k \in Unprotected(r), NEW l \in Unprotected(r),
                      k < l, r[l].machine = m
               PROVE  r[k].machine = m
    BY DEF Together
  <2>1. PICK i \in kept : f[i] = k
    BY <1>1, <1>4
  <2>2. PICK j \in kept : f[j] = l
    BY <1>1, <1>4
  <2>3. i < j
    <3>1. k \in Nat /\ l \in Nat /\ i \in Nat /\ j \in Nat
      BY <1>4
    <3>2. ~(j < i)
      BY <1>0, <2>1, <2>2, <3>1
    <3>3. i # j
      BY <2>1, <2>2, <3>1
    <3>4. QED BY <3>1, <3>2, <3>3
  <2>4. i \in Unprotected(g) /\ j \in Unprotected(g) /\ g[j].machine = m
    BY <1>0, <1>3, <2>1, <2>2
  <2>5. g[i].machine = m
    BY <1>8, <2>3, <2>4 DEF Together
  <2>6. QED BY <1>0, <2>1, <2>5
<1>9. QED BY <1>5, <1>6, <1>7, <1>8 DEF CarriedIs

\* A backup run takes from the other machines at most the oldest unprotected
\* backup, and that only from a full group.
RunIs(g, w, r) ==
    /\ r \in Seq(Backups)
    /\ Cardinality(Unprotected(r)) <= Keep
    /\ Cardinality(DOMAIN r \ Unprotected(r)) = Cardinality(DOMAIN g \ Unprotected(g))
    /\ \A m : m # w /\ Together(g, m) => Together(r, m)
    /\ Cardinality(Unprotected(g)) < Keep =>
         \A m : m # w => Cardinality(HeldBy(r, m)) = Cardinality(HeldBy(g, m))
    /\ Cardinality(Unprotected(g)) = Keep =>
         /\ Cardinality(Unprotected(r)) = Keep
         /\ \E o \in Unprotected(g) :
               /\ \A j \in Unprotected(g) : o <= j
               /\ \A m : m # w => Cardinality(HeldBy(r, m)) = Cardinality(HeldBy(g, m) \ {o})

LEMMA AfterRun ==
    ASSUME NEW g \in Seq(Backups), NEW w \in Machine
    PROVE  RunIs(g, w, PruneKeepLast(Append(g, [machine |-> w, protected |-> FALSE])))
<1>1. PICK b \in Backups : b = [machine |-> w, protected |-> FALSE]
  <2>1. [machine |-> w, protected |-> FALSE] \in Backups
    BY Zenon DEF Backups
  <2>2. QED BY <2>1
<1>2. b.machine = w /\ ~b.protected
  BY <1>1
<1>3. PICK all, n : all = Append(g, b) /\ n = Len(g) + 1
  OBVIOUS
<1>4. OneMoreIs(g, b, all, n)
  BY <1>2, <1>3, OneMore, Zenon
<1>5. PICK kept \in SUBSET DOMAIN all, r \in Seq(Backups) :
        r = PruneKeepLast(all) /\ KeptIs(g, all, kept, r)
  BY <1>2, <1>3, Pruned, Zenon
<1>6. \E f \in Bijection(kept, DOMAIN r) :
          /\ \A i \in kept : r[f[i]] = all[i]
          /\ \A i, j \in kept : i < j => f[i] < f[j]
  BY <1>5, Zenon DEF KeptIs
<1>7. all \in Seq(Backups)
  BY <1>4, Zenon DEF OneMoreIs
<1>8. /\ Cardinality(DOMAIN r \ Unprotected(r))
           = Cardinality((DOMAIN all \ Unprotected(all)) \cap kept)
      /\ \A m : Cardinality(HeldBy(r, m)) = Cardinality(HeldBy(all, m) \cap kept)
      /\ \A m : Together(all, m) => Together(r, m)
  <2>1. CarriedIs(all, kept, r)
    BY <1>6, <1>7, Carried, Zenon
  <2>2. QED BY <2>1, Zenon DEF CarriedIs
<1>9. /\ DOMAIN g \in SUBSET Nat /\ n \in Nat /\ n \notin DOMAIN g
      /\ Unprotected(g) \in SUBSET DOMAIN g
      /\ DOMAIN all = DOMAIN g \cup {n} /\ Unprotected(all) = Unprotected(g) \cup {n}
      /\ all[n] = b /\ (\A i \in DOMAIN g : all[i] = g[i])
      /\ \A i \in DOMAIN g : i < n
  <2>1. DOMAIN g \in SUBSET Nat /\ Unprotected(g) \in SUBSET DOMAIN g
    BY PositionsAre, Zenon
  <2>2. QED BY <1>4, <2>1, Zenon DEF OneMoreIs
<1>10. (DOMAIN all \ Unprotected(all)) \cap kept = DOMAIN g \ Unprotected(g)
  <2>1. DOMAIN g \ Unprotected(g) \subseteq kept
    BY <1>5 DEF KeptIs
  <2>2. DOMAIN all \ Unprotected(all) = DOMAIN g \ Unprotected(g)
    BY <1>9
  <2>3. QED BY <2>1, <2>2
<1>11. \A m : m # w => HeldBy(all, m) = HeldBy(g, m)
  BY <1>2, <1>9 DEF HeldBy
<1>12. ASSUME NEW m, m # w, Together(g, m) PROVE Together(r, m)
  <2>1. ASSUME NEW i \in Unprotected(all), NEW j \in Unprotected(all),
               i < j, all[j].machine = m
        PROVE  all[i].machine = m
    <3>1. j \in Unprotected(g)
      BY <1>2, <1>9, <1>12, <2>1
    <3>2. i \in Unprotected(g)
      <4>1. j < n /\ j \in Nat /\ n \in Nat
        BY <1>9, <3>1
      <4>2. i # n
        BY <2>1, <4>1
      <4>3. QED BY <1>9, <4>2
    <3>3. all[i] = g[i] /\ all[j] = g[j]
      BY <1>9, <3>1, <3>2
    <3>4. g[i].machine = m
      BY <1>12, <2>1, <3>1, <3>2, <3>3 DEF Together
    <3>5. QED BY <3>3, <3>4
  <2>2. Together(all, m)
    BY <2>1 DEF Together
  <2>3. QED BY <1>8, <2>2
<1>13. ASSUME Cardinality(Unprotected(g)) < Keep, NEW m, m # w
       PROVE  Cardinality(HeldBy(r, m)) = Cardinality(HeldBy(g, m))
  <2>1. kept = DOMAIN all
    BY <1>5, <1>13 DEF KeptIs
  <2>2. HeldBy(all, m) \cap kept = HeldBy(g, m)
    BY <1>9, <1>11, <1>13, <2>1 DEF HeldBy
  <2>3. QED BY <1>8, <2>2
<1>14. ASSUME Cardinality(Unprotected(g)) = Keep
       PROVE  /\ Cardinality(Unprotected(r)) = Keep
              /\ \E o \in Unprotected(g) :
                   /\ \A j \in Unprotected(g) : o <= j
                   /\ \A m : m # w =>
                        Cardinality(HeldBy(r, m)) = Cardinality(HeldBy(g, m) \ {o})
  <2>1. Cardinality(Unprotected(r)) = Keep
    BY <1>5, <1>14 DEF KeptIs
  <2>2. PICK o \in Unprotected(g) :
               /\ \A j \in Unprotected(g) : o <= j
               /\ kept = DOMAIN all \ {o}
    BY <1>5, <1>14 DEF KeptIs
  <2>3. ASSUME NEW m, m # w
        PROVE  Cardinality(HeldBy(r, m)) = Cardinality(HeldBy(g, m) \ {o})
    <3>1. HeldBy(all, m) \cap kept = HeldBy(g, m) \ {o}
      BY <1>9, <1>11, <2>2, <2>3 DEF HeldBy
    <3>2. QED BY <1>8, <3>1
  <2>4. QED BY <2>1, <2>2, <2>3
<1>15. Cardinality(Unprotected(r)) <= Keep
  BY <1>5 DEF KeptIs
<1>16. Cardinality(DOMAIN r \ Unprotected(r)) = Cardinality(DOMAIN g \ Unprotected(g))
  BY <1>8, <1>10
<1>17. RunIs(g, w, r)
  BY <1>12, <1>13, <1>14, <1>15, <1>16 DEF RunIs
<1>18. QED BY <1>1, <1>3, <1>5, <1>17, Zenon

-----------------------------------------------------------------------------
(* The inductive invariant.                                                *)

LEMMA ConstantsAre ==
    /\ Unknown \notin Machine /\ Unknown \notin Nat
    /\ Keep \in Nat /\ Keep > 1 /\ 1 \in Rungs
    /\ MaxProtected \in Nat
  BY VmidReuseAssumption

LEMMA NothingIs ==
    /\ Nothing \in Outcome
    /\ NoPromise \in [earlier : Machine \cup {Unknown}, runs : Nat, together : BOOLEAN]
    /\ NoPromise.earlier = Unknown
<1>1. TRUE \in BOOLEAN
  BY Zenon
<1>2. QED BY <1>1 DEF Nothing, Outcome, NoPromise

LEMMA InitIInv == Init => IInv
<1> SUFFICES ASSUME Init PROVE IInv
  OBVIOUS
<1>1. group = <<>> /\ group \in Seq(Backups) /\ DOMAIN group = {}
  BY DEF Init
<1>2. Unprotected(group) = {} /\ DOMAIN group \ Unprotected(group) = {}
  BY <1>1 DEF Unprotected
<1>3. Cardinality(Unprotected(group)) = 0
      /\ Cardinality(DOMAIN group \ Unprotected(group)) = 0
  BY <1>2, FS_EmptySet
<1>4. TypeOK
  <2>1. lifted \in BOOLEAN
    BY Zenon DEF Init
  <2>2. QED BY <1>1, <1>3, <2>1, NothingIs, ConstantsAre DEF Init, TypeOK
<1>5. KeepLastHolds /\ LastOneIsTold /\ PromiseCounts
  BY <1>3, NothingIs, ConstantsAre DEF Init, KeepLastHolds, LastOneIsTold, PromiseCounts
<1>6. QED BY <1>4, <1>5 DEF IInv

LEMMA ReissueKeeps == ASSUME IInv, NEW m \in Machine, Reissue(m) PROVE IInv'
  BY DEF IInv, TypeOK, KeepLastHolds, LastOneIsTold, PromiseCounts, Reissue,
         Unprotected, HeldBy, Together

LEMMA StutterKeeps == ASSUME IInv, UNCHANGED vars PROVE IInv'
  BY DEF IInv, TypeOK, KeepLastHolds, LastOneIsTold, PromiseCounts, vars,
         Unprotected, HeldBy, Together

\* A check that leaves lifted as false has seen a group no fuller than keep-last.
LEMMA StillLiftedIs ==
    ASSUME IInv
    PROVE  /\ StillLifted \in BOOLEAN
           /\ ~StillLifted => Cardinality(Unprotected(group)) <= Keep
<1>1. StillLifted \in BOOLEAN
  BY Zenon DEF StillLifted
<1>2. CASE lifted
  <2>1. Cardinality(Unprotected(group)) \in Nat
    BY PositionsAre, Zenon DEF IInv, TypeOK
  <2>2. ~StillLifted => ~(Cardinality(Unprotected(group)) > Keep)
    BY <1>2, Zenon DEF StillLifted
  <2>3. QED BY <1>1, <2>1, <2>2, ConstantsAre
<1>3. CASE ~lifted
  BY <1>1, <1>3 DEF IInv, KeepLastHolds
<1>4. QED BY <1>2, <1>3

LEMMA CheckFailsKeeps == ASSUME IInv, CheckFails PROVE IInv'
<1>1. group' = group /\ left' = left /\ told' = Machine
  BY DEF CheckFails
<1>2. TypeOK'
  <2>1. lifted' \in BOOLEAN
    BY StillLiftedIs, Zenon DEF CheckFails
  <2>2. QED BY <2>1, NothingIs DEF IInv, TypeOK, CheckFails, Unprotected
<1>3. KeepLastHolds'
  <2>1. ~lifted' => Cardinality(Unprotected(group)) <= Keep
    BY StillLiftedIs, Zenon DEF CheckFails
  <2>2. QED BY <1>1, <2>1 DEF KeepLastHolds
<1>4. LastOneIsTold'
  <2>1. Unprotected(group) \in SUBSET DOMAIN group
        /\ \A i \in DOMAIN group : group[i].machine \in Machine
    BY PositionsAre, Zenon DEF IInv, TypeOK
  <2>2. QED BY <1>1, <2>1 DEF LastOneIsTold
<1>5. PromiseCounts'
  BY <1>1 DEF IInv, PromiseCounts, Unprotected, HeldBy, Together
<1>6. QED BY <1>2, <1>3, <1>4, <1>5 DEF IInv

LEMMA BackupKeeps == ASSUME IInv, Backup PROVE IInv'
<1>1. /\ group \in Seq(Backups) /\ machine \in Machine
      /\ IsFiniteSet(Unprotected(group)) /\ Cardinality(Unprotected(group)) \in Nat
      /\ Unprotected(group) \in SUBSET DOMAIN group /\ DOMAIN group \in SUBSET Nat
  BY PositionsAre, Zenon DEF IInv, TypeOK
<1>2. PICK g, r : g = group /\ r = group'
  OBVIOUS
<1>3. RunIs(g, machine, r)
  BY <1>1, <1>2, AfterRun, Zenon DEF Backup
<1>4. phase' = "check"
  BY DEF Backup
<1>5. Cardinality(Unprotected(group'))  <= Keep /\ Cardinality(Unprotected(group')) \in Nat
  <2>1. r \in Seq(Backups) /\ Cardinality(Unprotected(r)) <= Keep
    BY <1>3 DEF RunIs
  <2>2. Cardinality(Unprotected(r)) \in Nat
    BY <2>1, PositionsAre, Zenon
  <2>3. QED BY <1>2, <2>1, <2>2
<1>6. LastOneIsTold' /\ KeepLastHolds'
  BY <1>4, <1>5, ConstantsAre DEF LastOneIsTold, KeepLastHolds
<1>7. left' \in [earlier : Machine \cup {Unknown}, runs : Nat, together : BOOLEAN]
  <2>1. CASE left' = NoPromise
    BY <2>1, NothingIs
  <2>2. CASE left' # NoPromise
    <3>1. left' = [left EXCEPT !.runs = left.runs - 1] /\ left.runs # 0
      BY <2>2 DEF Backup
    <3>2. left \in [earlier : Machine \cup {Unknown}, runs : Nat, together : BOOLEAN]
      BY DEF IInv, TypeOK
    <3>3. QED BY <3>1, <3>2
  <2>3. QED BY <2>1, <2>2
<1>8. TypeOK'
  <2>1. group' \in Seq(Backups)
    BY <1>2, <1>3 DEF RunIs
  <2>2. Cardinality(DOMAIN group' \ Unprotected(group')) <= MaxProtected
    <3>1. Cardinality(DOMAIN r \ Unprotected(r)) = Cardinality(DOMAIN g \ Unprotected(g))
      BY <1>3 DEF RunIs
    <3>2. Cardinality(DOMAIN group \ Unprotected(group)) <= MaxProtected
      BY DEF IInv, TypeOK
    <3>3. QED BY <1>2, <3>1, <3>2
  <2>3. machine' \in Machine /\ said' \in Outcome /\ told' \subseteq Machine
        /\ blind' \subseteq Machine /\ lifted' \in BOOLEAN
    BY DEF IInv, TypeOK, Backup
  <2>4. QED BY <1>4, <1>7, <2>1, <2>2, <2>3 DEF TypeOK
<1>9. ASSUME left'.earlier # Unknown
      PROVE  /\ Cardinality(Unprotected(group')) = Keep
             /\ left'.runs <= Cardinality(HeldBy(group', left'.earlier))
             /\ left'.together => /\ left'.runs = Cardinality(HeldBy(group', left'.earlier))
                                  /\ Together(group', left'.earlier)
  <2>1. /\ left' = [left EXCEPT !.runs = left.runs - 1] /\ left.runs # 0
        /\ left.earlier # Unknown /\ left.earlier # machine
    BY <1>9, NothingIs DEF Backup
  <2>2. left \in [earlier : Machine \cup {Unknown}, runs : Nat, together : BOOLEAN]
    BY DEF IInv, TypeOK
  <2>3. PICK m, k : m = left.earlier /\ k = left.runs
    OBVIOUS
  <2>4. left'.earlier = m /\ left'.runs = k - 1 /\ left'.together = left.together
        /\ k \in Nat /\ k > 0 /\ m # machine
    BY <2>1, <2>2, <2>3
  <2>5. /\ Cardinality(Unprotected(g)) = Keep
        /\ k <= Cardinality(HeldBy(g, m))
        /\ left.together => k = Cardinality(HeldBy(g, m)) /\ Together(g, m)
    BY <1>2, <2>1, <2>3 DEF IInv, PromiseCounts
  <2>6. Cardinality(Unprotected(r)) = Keep
    BY <1>3, <2>5 DEF RunIs
  <2>7. PICK o \in Unprotected(g) :
               /\ \A j \in Unprotected(g) : o <= j
               /\ Cardinality(HeldBy(r, m)) = Cardinality(HeldBy(g, m) \ {o})
    BY <1>3, <2>4, <2>5 DEF RunIs
  <2>8. HeldBy(g, m) \in SUBSET Unprotected(g) /\ IsFiniteSet(HeldBy(g, m))
        /\ Cardinality(HeldBy(g, m)) \in Nat
    <3>1. HeldBy(g, m) \in SUBSET Unprotected(g) /\ IsFiniteSet(Unprotected(g))
      BY <1>1, <1>2 DEF HeldBy
    <3>2. QED BY <3>1, Smaller
  <2>9. CASE o \in HeldBy(g, m)
    <3>1. Cardinality(HeldBy(r, m)) = Cardinality(HeldBy(g, m)) - 1
      BY <2>7, <2>8, <2>9, FS_RemoveElement
    <3>2. Together(g, m) => Together(r, m)
      BY <1>3, <2>4 DEF RunIs
    <3>3. /\ k - 1 <= Cardinality(HeldBy(r, m))
          /\ left.together => k - 1 = Cardinality(HeldBy(r, m)) /\ Together(r, m)
      BY <2>4, <2>5, <2>8, <3>1, <3>2
    <3>4. QED BY <1>2, <2>4, <2>6, <3>3
  <2>10. CASE o \notin HeldBy(g, m)
    <3>1. HeldBy(g, m) \ {o} = HeldBy(g, m)
      BY <2>10
    <3>2. k - 1 <= Cardinality(HeldBy(r, m))
      BY <2>4, <2>5, <2>7, <2>8, <3>1
    <3>3. ~left.together
      <4> SUFFICES ASSUME left.together PROVE FALSE
        OBVIOUS
      <4>1. HeldBy(g, m) # {}
        <5>1. Cardinality(HeldBy(g, m)) # 0
          BY <2>4, <2>5
        <5>2. QED BY <5>1, FS_EmptySet
      <4>2. PICK j \in Unprotected(g) : g[j].machine = m
        BY <4>1 DEF HeldBy
      <4>3. o # j /\ o <= j /\ o \in Nat /\ j \in Nat
        BY <1>1, <1>2, <2>7, <2>10, <4>2 DEF HeldBy
      <4>4. g[o].machine = m
        BY <2>5, <4>2, <4>3 DEF Together
      <4>5. QED BY <2>10, <4>4 DEF HeldBy
    <3>4. QED BY <1>2, <2>4, <2>6, <3>2, <3>3
  <2>11. QED BY <2>9, <2>10
<1>10. PromiseCounts'
  BY <1>9 DEF PromiseCounts
<1>11. QED BY <1>6, <1>8, <1>10 DEF IInv

\* The eviction a backup run may not make silently.
LEMMA EvictionTold ==
    ASSUME IInv, Backup, ~lifted, NEW m \in Machine \ {machine},
           HeldBy(group, m) # {}, HeldBy(group', m) = {}
    PROVE  m \in told \cup blind
<1>1. /\ group \in Seq(Backups) /\ machine \in Machine
      /\ IsFiniteSet(Unprotected(group)) /\ Cardinality(Unprotected(group)) \in Nat
      /\ Unprotected(group) \in SUBSET DOMAIN group /\ DOMAIN group \in SUBSET Nat
  BY PositionsAre, Zenon DEF IInv, TypeOK
<1>2. PICK g, r : g = group /\ r = group'
  OBVIOUS
<1>3. RunIs(g, machine, r)
  BY <1>1, <1>2, AfterRun, Zenon DEF Backup
<1>4. Cardinality(HeldBy(r, m)) = 0
  BY <1>2, FS_EmptySet
<1>5. HeldBy(g, m) \in SUBSET Unprotected(g) /\ IsFiniteSet(HeldBy(g, m)) /\ HeldBy(g, m) # {}
      /\ Cardinality(HeldBy(g, m)) > 0 /\ Cardinality(HeldBy(g, m)) \in Nat
  <2>1. HeldBy(g, m) \in SUBSET Unprotected(g) /\ IsFiniteSet(Unprotected(g))
        /\ HeldBy(g, m) # {}
    BY <1>1, <1>2 DEF HeldBy
  <2>2. QED BY <2>1, Smaller
<1>6. CASE Cardinality(Unprotected(g)) < Keep
  BY <1>3, <1>4, <1>5, <1>6 DEF RunIs
<1>7. CASE Cardinality(Unprotected(g)) = Keep
  <2>1. PICK o \in Unprotected(g) :
               /\ \A j \in Unprotected(g) : o <= j
               /\ Cardinality(HeldBy(r, m)) = Cardinality(HeldBy(g, m) \ {o})
    BY <1>3, <1>7 DEF RunIs
  <2>2. IsFiniteSet(HeldBy(g, m) \ {o}) /\ Cardinality(HeldBy(g, m) \ {o}) = 0
    BY <1>4, <1>5, <2>1, FS_Subset
  <2>3. HeldBy(g, m) = {o}
    <3>1. HeldBy(g, m) \ {o} = {}
      BY <2>2, FS_EmptySet
    <3>2. QED BY <1>5, <3>1
  <2>4. g[o].machine = m
    BY <2>3 DEF HeldBy
  <2>5. QED BY <1>2, <1>7, <2>1, <2>3, <2>4 DEF IInv, LastOneIsTold, Backup
<1>8. CASE Cardinality(Unprotected(g)) > Keep
  BY <1>1, <1>2, <1>8, ConstantsAre DEF IInv, KeepLastHolds
<1>9. QED BY <1>1, <1>2, <1>6, <1>7, <1>8, ConstantsAre

LEMMA SetProtectedKeeps ==
    ASSUME IInv, NEW i \in DOMAIN group, NEW flag \in BOOLEAN, SetProtected(i, flag)
    PROVE  IInv'
<1>1. /\ group \in Seq(Backups) /\ machine \in Machine
      /\ IsFiniteSet(DOMAIN group) /\ IsFiniteSet(Unprotected(group))
      /\ Cardinality(Unprotected(group)) \in Nat
      /\ Unprotected(group) \in SUBSET DOMAIN group
      /\ \A j \in DOMAIN group : group[j] \in Backups
  BY PositionsAre, Zenon DEF IInv, TypeOK
<1>2. PICK g, r : g = group /\ r = group'
  OBVIOUS
<1>3. r = [g EXCEPT ![i].protected = flag] /\ g[i].protected # flag
      /\ left' = NoPromise /\ lifted' = (lifted \/ ~flag)
      /\ UNCHANGED <<machine, phase, said, told, blind>>
  BY <1>2 DEF SetProtected
<1>4. \A b \in Backups : [b EXCEPT !.protected = flag] \in Backups
                         /\ [b EXCEPT !.protected = flag].protected = flag
  BY DEF Backups
<1>5. /\ DOMAIN r = DOMAIN g
      /\ r[i] = [g[i] EXCEPT !.protected = flag]
      /\ \A j \in DOMAIN g : j # i => r[j] = g[j]
  BY <1>1, <1>2, <1>3
<1>6. r \in Seq(Backups)
  <2>1. PICK n \in Nat : DOMAIN g = 1 .. n
    BY <1>1, <1>2
  <2>2. \A j \in DOMAIN r : r[j] \in Backups
    <3>1. r[i] \in Backups
      BY <1>1, <1>2, <1>4, <1>5
    <3>2. QED BY <1>1, <1>2, <1>5, <3>1
  <2>3. r \in [1 .. n -> Backups]
    BY <1>3, <1>5, <2>1, <2>2
  <2>4. QED BY <2>3
<1>7. r[i].protected = flag
  BY <1>1, <1>2, <1>4, <1>5
<1>8. PICK P, Q : P = DOMAIN g \ Unprotected(g) /\ Q = DOMAIN r \ Unprotected(r)
  OBVIOUS
<1>9. IsFiniteSet(P) /\ Cardinality(P) \in Nat /\ Cardinality(P) <= MaxProtected
  <2>1. P \in SUBSET DOMAIN g
    BY <1>8
  <2>2. QED BY <1>1, <1>2, <1>8, <2>1, Smaller DEF IInv, TypeOK
<1>10. told' \subseteq Machine /\ lifted' \in BOOLEAN
  <2>1. lifted' \in BOOLEAN
    BY <1>3, Zenon
  <2>2. QED BY <1>3, <2>1 DEF IInv, TypeOK
<1>11. CASE flag
  <2>1. Unprotected(r) = Unprotected(g) \ {i} /\ i \in Unprotected(g)
    <3>1. g[i].protected = FALSE
      BY <1>1, <1>2, <1>3, <1>11 DEF Backups
    <3>2. i \in Unprotected(g) /\ i \notin Unprotected(r)
      BY <1>2, <1>7, <1>11, <3>1 DEF Unprotected
    <3>3. \A j \in DOMAIN g \ {i} : j \in Unprotected(r) <=> j \in Unprotected(g)
      BY <1>5 DEF Unprotected
    <3>4. Unprotected(r) \subseteq DOMAIN g /\ Unprotected(g) \subseteq DOMAIN g
      BY <1>5 DEF Unprotected
    <3>5. QED BY <3>2, <3>3, <3>4
  <2>2. Q = P \cup {i} /\ i \notin P
    BY <1>2, <1>5, <1>8, <2>1
  <2>3. Cardinality(Q) <= MaxProtected
    <3>1. Cardinality(P) < MaxProtected
      BY <1>2, <1>8, <1>11 DEF SetProtected
    <3>2. Cardinality(Q) = Cardinality(P) + 1
      BY <1>9, <2>2, FS_AddElement
    <3>3. QED BY <1>9, <3>1, <3>2, ConstantsAre
  <2>4. Cardinality(Unprotected(r)) = Cardinality(Unprotected(g)) - 1
    BY <1>1, <1>2, <2>1, FS_RemoveElement
  <2>5. ~lifted' => Cardinality(Unprotected(r)) < Keep
    <3>1. lifted' = lifted
      BY <1>3, <1>11, Zenon DEF IInv, TypeOK
    <3>2. ~lifted' => Cardinality(Unprotected(g)) <= Keep
      BY <1>2, <3>1 DEF IInv, KeepLastHolds
    <3>3. QED BY <1>1, <1>2, <2>4, <3>2, ConstantsAre
  <2>6. TypeOK'
    BY <1>2, <1>3, <1>6, <1>8, <1>10, <2>3, NothingIs DEF IInv, TypeOK
  <2>7. KeepLastHolds'
    <3>1. Cardinality(Unprotected(r)) \in Nat
      BY <1>6, PositionsAre, Zenon
    <3>2. QED BY <1>2, <2>5, <3>1, ConstantsAre DEF KeepLastHolds
  <2>8. LastOneIsTold'
    BY <1>2, <2>5, ConstantsAre DEF LastOneIsTold
  <2>9. PromiseCounts'
    BY <1>3, NothingIs DEF PromiseCounts
  <2>10. QED BY <2>6, <2>7, <2>8, <2>9 DEF IInv
<1>12. CASE ~flag
  <2>1. Q = P \ {i}
    <3>1. i \in Unprotected(r)
      BY <1>2, <1>5, <1>7, <1>12 DEF Unprotected
    <3>2. \A j \in DOMAIN g \ {i} : j \in Unprotected(r) <=> j \in Unprotected(g)
      BY <1>5 DEF Unprotected
    <3>3. QED BY <1>5, <1>8, <3>1, <3>2
  <2>2. Cardinality(Q) <= MaxProtected
    <3>1. Q \in SUBSET P
      BY <2>1
    <3>2. Cardinality(Q) <= Cardinality(P) /\ Cardinality(Q) \in Nat
      BY <1>9, <3>1, Smaller
    <3>3. QED BY <1>9, <3>2, ConstantsAre
  <2>3. lifted'
    BY <1>3, <1>12, Zenon
  <2>4. TypeOK'
    BY <1>2, <1>3, <1>6, <1>8, <1>10, <2>2, NothingIs DEF IInv, TypeOK
  <2>5. LastOneIsTold'
    BY <2>3 DEF LastOneIsTold
  <2>6. KeepLastHolds' /\ PromiseCounts'
    BY <1>3, <2>3, NothingIs DEF KeepLastHolds, PromiseCounts
  <2>7. QED BY <2>4, <2>5, <2>6 DEF IInv
<1>13. QED BY <1>11, <1>12

LEMMA ForgetKeeps ==
    ASSUME IInv, NEW i \in DOMAIN group, Forget(i)
    PROVE  IInv'
<1>1. /\ group \in Seq(Backups)
      /\ IsFiniteSet(Unprotected(group)) /\ Cardinality(Unprotected(group)) \in Nat
      /\ Unprotected(group) \in SUBSET DOMAIN group
  BY PositionsAre, Zenon DEF IInv, TypeOK
<1>2. PICK g, r : g = group /\ r = group'
  OBVIOUS
<1>3. PICK kept \in SUBSET DOMAIN g : kept = DOMAIN g \ {i}
  OBVIOUS
<1>4. r = Only(g, kept) /\ g \in Seq(Backups) /\ left' = NoPromise
      /\ i \in Unprotected(g)
  BY <1>1, <1>2, <1>3 DEF Forget, Unprotected
<1>5. r \in Seq(Backups)
      /\ \E f \in Bijection(kept, DOMAIN r) :
           /\ \A j \in kept : r[f[j]] = g[j]
           /\ \A j, k \in kept : j < k => f[j] < f[k]
  BY <1>4, OnlyIs
<1>6. CarriedIs(g, kept, r)
  BY <1>4, <1>5, Carried, Zenon
<1>7. Cardinality(DOMAIN r \ Unprotected(r)) <= MaxProtected
  <2>1. (DOMAIN g \ Unprotected(g)) \cap kept = DOMAIN g \ Unprotected(g)
    BY <1>3, <1>4
  <2>2. Cardinality(DOMAIN r \ Unprotected(r)) = Cardinality(DOMAIN g \ Unprotected(g))
    BY <1>6, <2>1 DEF CarriedIs
  <2>3. QED BY <1>2, <2>2 DEF IInv, TypeOK
<1>8. Cardinality(Unprotected(r)) = Cardinality(Unprotected(g)) - 1
  <2>1. Unprotected(g) \cap kept = Unprotected(g) \ {i}
    BY <1>1, <1>2, <1>3
  <2>2. Cardinality(Unprotected(r)) = Cardinality(Unprotected(g) \ {i})
    BY <1>6, <2>1 DEF CarriedIs
  <2>3. QED BY <1>1, <1>2, <1>4, <2>2, FS_RemoveElement
<1>9. TypeOK'
  BY <1>2, <1>4, <1>5, <1>7, NothingIs DEF IInv, TypeOK, Forget
<1>10. ~lifted' => Cardinality(Unprotected(r)) < Keep
  <2>1. ~lifted' => Cardinality(Unprotected(g)) <= Keep
    BY <1>2 DEF IInv, KeepLastHolds, Forget
  <2>2. QED BY <1>1, <1>2, <1>8, <2>1, ConstantsAre
<1>11. KeepLastHolds'
  BY <1>1, <1>2, <1>8, <1>10, ConstantsAre DEF KeepLastHolds
<1>12. LastOneIsTold'
  BY <1>2, <1>10, ConstantsAre DEF LastOneIsTold
<1>13. PromiseCounts'
  BY <1>4, NothingIs DEF PromiseCounts
<1>14. QED BY <1>9, <1>11, <1>12, <1>13 DEF IInv

-----------------------------------------------------------------------------
(* The check.                                                              *)

LEMMA GreatestOf ==
    ASSUME NEW T \in SUBSET Nat, IsFiniteSet(T), T # {}
    PROVE  \E x \in T : \A y \in T : y <= x
<1>1. PICK n : n = Cardinality(T)
  OBVIOUS
<1>2. PICK R : R = 1 .. n
  OBVIOUS
<1>3. PICK f : f = [i \in T |-> Rank(T, i)]
  OBVIOUS
<1>4. /\ f \in Bijection(T, R) /\ n \in Nat
      /\ \A i, j \in T : i < j => f[i] < f[j]
  BY <1>1, <1>2, <1>3, RanksNumber
<1>5. n # 0
  BY <1>1, FS_EmptySet
<1>6. /\ \A i \in T : f[i] \in R
      /\ \A k \in R : \E i \in T : f[i] = k
  <2>1. f \in Bijection(T, R)
    BY <1>4
  <2>2. f \in [T -> R] /\ f \in Surjection(T, R)
    BY <2>1 DEF Bijection, Injection, IsInjective
  <2>3. \A k \in R : \E i \in T : f[i] = k
    BY <2>2 DEF Surjection
  <2>4. QED BY <2>2, <2>3
<1>7. PICK x \in T : f[x] = n
  BY <1>2, <1>4, <1>5, <1>6
<1>8. \A y \in T : ~ (x < y)
  BY <1>2, <1>4, <1>6, <1>7
<1>9. QED BY <1>8

\* The ends of the unprotected backups.
LEMMA EndsAre ==
    ASSUME NEW T \in SUBSET Nat, IsFiniteSet(T), T # {}
    PROVE  /\ Min(T) \in T /\ \A y \in T : Min(T) <= y
           /\ Max(T) \in T /\ \A y \in T : y <= Max(T)
<1>1. PICK x \in T : \A y \in T : x <= y
  BY LeastOf
<1>2. PICK z \in T : \A y \in T : y <= z
  BY GreatestOf
<1>3. Min(T) \in T /\ \A y \in T : Min(T) <= y
  BY <1>1 DEF Min
<1>4. Max(T) \in T /\ \A y \in T : y <= Max(T)
  <2>1. \A y \in T : z >= y
    BY <1>2
  <2>2. Max(T) \in T /\ \A y \in T : Max(T) >= y
    BY <2>1 DEF Max
  <2>3. QED BY <2>2
<1>5. QED BY <1>3, <1>4

\* What the check makes of the group.
SummaryIs(g, ends, counted, s) ==
    /\ s.unprotected = Cardinality(Unprotected(g))
    /\ s.oldest \in Machine \cup {Unknown}
    /\ s.prior \in Nat \cup {Unknown}
    /\ ReuseDetected(s) =>
         /\ s.oldest \in Machine /\ s.prior \in Nat
         /\ counted = Unprotected(g) => s.prior = Cardinality(HeldBy(g, s.oldest))
    /\ ends = Unprotected(g) /\ Cardinality(Unprotected(g)) >= 2 =>
         /\ s.oldest = g[Min(Unprotected(g))].machine
         /\ s.newest = g[Max(Unprotected(g))].machine

LEMMA Summary ==
    ASSUME NEW g \in Seq(Backups),
           NEW ends \in SUBSET Unprotected(g), NEW counted \in SUBSET Unprotected(g)
    PROVE  SummaryIs(g, ends, counted, SummariseGroup(g, ends, counted))
<1>1. /\ Unprotected(g) \in SUBSET DOMAIN g /\ IsFiniteSet(Unprotected(g))
      /\ Cardinality(Unprotected(g)) \in Nat /\ DOMAIN g \in SUBSET Nat
      /\ \A i \in DOMAIN g : g[i].machine \in Machine
  BY PositionsAre, Zenon
<1>2. PICK s : s = SummariseGroup(g, ends, counted)
  OBVIOUS
<1>3. PICK oldest, newest : /\ oldest = Identity(g, Min(Unprotected(g)), ends)
                            /\ newest = Identity(g, Max(Unprotected(g)), ends)
  OBVIOUS
<1>4. PICK T \in SUBSET counted : T = {i \in counted : g[i].machine = oldest}
  OBVIOUS
<1>5. Cardinality(T) \in Nat
  BY <1>1, Smaller
<1>6. /\ s.unprotected = Cardinality(Unprotected(g)) /\ s.oldest = oldest /\ s.newest = newest
      /\ s.prior = IF Unknown \notin {oldest, newest} /\ oldest # newest
                   THEN Cardinality(T) ELSE Unknown
  BY <1>2, <1>3, <1>4 DEF SummariseGroup
<1>7. oldest \in Machine \cup {Unknown}
  <2>1. ends \subseteq DOMAIN g
    BY <1>1
  <2>2. QED BY <1>1, <1>3, <2>1 DEF Identity
<1>8. ReuseDetected(s) => oldest \in Machine /\ s.prior = Cardinality(T)
  BY <1>6, <1>7 DEF ReuseDetected
<1>9. counted = Unprotected(g) => T = HeldBy(g, oldest)
  BY <1>4 DEF HeldBy
<1>10. ASSUME ends = Unprotected(g), Cardinality(Unprotected(g)) >= 2
       PROVE  /\ oldest = g[Min(Unprotected(g))].machine
              /\ newest = g[Max(Unprotected(g))].machine
  <2>1. Unprotected(g) # {} /\ Unprotected(g) \in SUBSET Nat
    <3>1. Cardinality(Unprotected(g)) # 0
      BY <1>1, <1>10
    <3>2. QED BY <1>1, <3>1, FS_EmptySet
  <2>2. Min(Unprotected(g)) \in ends /\ Max(Unprotected(g)) \in ends
    BY <1>1, <1>10, <2>1, EndsAre
  <2>3. QED BY <1>3, <1>10, <2>2 DEF Identity
<1>11. SummaryIs(g, ends, counted, s)
  BY <1>5, <1>6, <1>7, <1>8, <1>9, <1>10 DEF SummaryIs
<1>12. QED BY <1>2, <1>11, Zenon

LEMMA CheckKeeps == ASSUME IInv, Check PROVE IInv'
<1>1. /\ group \in Seq(Backups) /\ IsFiniteSet(Unprotected(group))
      /\ Cardinality(Unprotected(group)) \in Nat
      /\ Unprotected(group) \in SUBSET DOMAIN group /\ DOMAIN group \in SUBSET Nat
      /\ \A j \in DOMAIN group : group[j].machine \in Machine
  BY PositionsAre, Zenon DEF IInv, TypeOK
<1>2. PICK ends \in SUBSET Unprotected(group), counted \in SUBSET Unprotected(group) :
        LET s == SummariseGroup(group, ends, counted)
            complete == ends = Unprotected(group) /\ counted = Unprotected(group)
        IN /\ Cardinality(Unprotected(group) \ ends)
                + Cardinality(Unprotected(group) \ counted) <= MaxUnreadable
           /\ blind' = IF complete THEN blind ELSE Machine
           /\ \E push \in IF Due(s) THEN {"sent", "lost"} ELSE {"none"} :
                /\ said' = [earlier |-> IF ReuseDetected(s) THEN s.oldest ELSE Unknown,
                            prior |-> s.prior, push |-> push]
                /\ told' = IF push = "none" THEN told ELSE told \cup {s.oldest}
                /\ left' = Promise(s, push, complete)
  BY Zenon DEF Check
<1>3. PICK U : U = Unprotected(group)
  OBVIOUS
<1>4. PICK s : s = SummariseGroup(group, ends, counted)
  OBVIOUS
<1>5. SummaryIs(group, ends, counted, s)
  <2>1. ends \in SUBSET Unprotected(group) /\ counted \in SUBSET Unprotected(group)
    OBVIOUS
  <2>2. QED BY <1>1, <1>4, <2>1, Summary, Zenon
<1>6. PICK complete \in BOOLEAN : complete = (ends = U /\ counted = U)
  BY Zenon
<1>7. blind' = (IF complete THEN blind ELSE Machine)
  BY <1>2, <1>3, <1>6
<1>8. PICK push \in IF Due(s) THEN {"sent", "lost"} ELSE {"none"} :
                /\ said' = [earlier |-> IF ReuseDetected(s) THEN s.oldest ELSE Unknown,
                            prior |-> s.prior, push |-> push]
                /\ told' = IF push = "none" THEN told ELSE told \cup {s.oldest}
                /\ left' = Promise(s, push, complete)
  BY <1>2, <1>3, <1>4, <1>6
<1>9. group' = group /\ machine' = machine /\ phase' = "backup"
  BY DEF Check
<1>10. push \in {"none", "sent", "lost"} /\ (push # "none" => Due(s))
  BY <1>8
<1>11. /\ s.unprotected = Cardinality(U) /\ s.oldest \in Machine \cup {Unknown}
       /\ s.prior \in Nat \cup {Unknown}
       /\ ReuseDetected(s) =>
            /\ s.oldest \in Machine /\ s.prior \in Nat
            /\ counted = U => s.prior = Cardinality(HeldBy(group, s.oldest))
       /\ ends = U /\ Cardinality(U) >= 2 =>
            /\ s.oldest = group[Min(U)].machine /\ s.newest = group[Max(U)].machine
  BY <1>3, <1>5 DEF SummaryIs
<1>12. Due(s) => ReuseDetected(s)
  BY DEF Due
<1>13. told \subseteq told' /\ told' \subseteq Machine /\ (push # "none" => s.oldest \in told')
  BY <1>8, <1>10, <1>11, <1>12 DEF IInv, TypeOK
<1>14. left' \in [earlier : Machine \cup {Unknown}, runs : Nat, together : BOOLEAN]
  <2>1. CASE push # "sent"
    BY <1>8, <2>1 DEF Promise, IInv, TypeOK
  <2>2. CASE push = "sent" /\ complete /\ s.unprotected = Keep
    <3>1. left' = [earlier |-> s.oldest, runs |-> s.prior,
                   together |-> Together(group, s.oldest)]
      BY <1>8, <2>2 DEF Promise
    <3>2. Together(group, s.oldest) \in BOOLEAN
      BY Zenon DEF Together
    <3>3. s.oldest \in Machine /\ s.prior \in Nat
      BY <1>10, <1>11, <1>12, <2>2
    <3>4. QED BY <3>1, <3>2, <3>3
  <2>3. CASE push = "sent" /\ ~(complete /\ s.unprotected = Keep)
    BY <1>8, <2>3, NothingIs DEF Promise
  <2>4. QED BY <2>1, <2>2, <2>3
<1>15. said' \in Outcome
  BY <1>8, <1>10, <1>11 DEF Outcome
<1>16. TypeOK'
  <2>1. blind' \subseteq Machine /\ lifted' \in BOOLEAN
    <3>1. lifted' \in BOOLEAN
      BY StillLiftedIs, Zenon DEF Check
    <3>2. QED BY <1>7, <3>1 DEF IInv, TypeOK
  <2>2. QED BY <1>9, <1>13, <1>14, <1>15, <2>1 DEF IInv, TypeOK
<1>17. KeepLastHolds'
  <2>1. ~lifted' => Cardinality(Unprotected(group)) <= Keep
    BY StillLiftedIs, Zenon DEF Check
  <2>2. QED BY <1>9, <2>1 DEF KeepLastHolds
<1>18. LastOneIsTold'
  <2> SUFFICES ASSUME Cardinality(U) = Keep, NEW i \in U,
                      \A j \in U : i <= j,
                      HeldBy(group, group[i].machine) = {i}
               PROVE  group[i].machine \in told' \cup blind'
    BY <1>3, <1>9 DEF LastOneIsTold
  <2>1. group[i].machine \in Machine /\ i \in Nat /\ U \in SUBSET Nat
    BY <1>1, <1>3
  <2>2. CASE ~complete
    BY <1>7, <2>1, <2>2
  <2>3. CASE complete
    <3>1. ends = U /\ counted = U /\ Cardinality(U) >= 2
      <4>1. ends = U /\ counted = U
        BY <1>6, <2>3, Zenon
      <4>2. Cardinality(U) >= 2
        BY ConstantsAre
      <4>3. QED BY <4>1, <4>2
    <3>2. /\ Min(U) \in U /\ (\A y \in U : Min(U) <= y)
          /\ Max(U) \in U /\ (\A y \in U : y <= Max(U))
      BY <1>1, <1>3, <2>1, EndsAre
    <3>3. Min(U) = i
      <4>1. Min(U) <= i /\ i <= Min(U) /\ Min(U) \in Nat
        BY <2>1, <3>2
      <4>2. QED BY <2>1, <4>1
    <3>4. Max(U) # i
      <4>1. U # {i}
        <5>1. Cardinality({i}) = 1
          BY FS_Singleton
        <5>2. QED BY <3>1, <5>1
      <4>2. PICK j \in U : j # i
        BY <4>1
      <4>3. j \in Nat /\ i <= j /\ j <= Max(U) /\ Max(U) \in Nat
        BY <2>1, <3>2, <4>2
      <4>4. QED BY <2>1, <4>2, <4>3
    <3>5. s.oldest = group[i].machine /\ s.newest = group[Max(U)].machine
      BY <1>11, <3>1, <3>3
    <3>6. s.newest # s.oldest
      BY <1>3, <3>2, <3>4, <3>5 DEF HeldBy
    <3>7. s.newest \in Machine
      BY <1>1, <1>3, <3>2, <3>5
    <3>8. ReuseDetected(s)
      BY <1>11, <2>1, <3>1, <3>5, <3>6, <3>7, ConstantsAre DEF ReuseDetected
    <3>9. s.prior = 1
      <4>1. s.prior = Cardinality({i})
        BY <1>11, <3>1, <3>5, <3>8
      <4>2. QED BY <4>1, FS_Singleton
    <3>10. Due(s)
      BY <3>8, <3>9, ConstantsAre DEF Due
    <3>11. push # "none"
      BY <1>8, <3>10
    <3>12. QED BY <1>13, <3>5, <3>11
  <2>4. QED BY <2>2, <2>3
<1>19. PromiseCounts'
  <2>1. CASE push # "sent"
    <3>1. left' = left
      BY <1>8, <2>1 DEF Promise
    <3>2. QED BY <1>9, <3>1 DEF IInv, PromiseCounts
  <2>2. CASE push = "sent" /\ complete /\ s.unprotected = Keep
    <3>1. left' = [earlier |-> s.oldest, runs |-> s.prior,
                   together |-> Together(group, s.oldest)]
      BY <1>8, <2>2 DEF Promise
    <3>2. s.prior = Cardinality(HeldBy(group, s.oldest)) /\ s.prior \in Nat
      BY <1>6, <1>10, <1>11, <1>12, <2>2
    <3>3. Cardinality(Unprotected(group)) = Keep
      BY <1>3, <1>11, <2>2
    <3>4. /\ left'.earlier = s.oldest /\ left'.runs = s.prior
          /\ left'.together = Together(group, s.oldest)
      BY <3>1
    <3>5. left'.runs <= Cardinality(HeldBy(group', left'.earlier))
          /\ left'.runs = Cardinality(HeldBy(group', left'.earlier))
      BY <1>9, <3>2, <3>4
    <3>6. left'.together => Together(group', left'.earlier)
      BY <1>9, <3>4
    <3>7. QED BY <1>9, <3>3, <3>5, <3>6 DEF PromiseCounts
  <2>3. CASE push = "sent" /\ ~(complete /\ s.unprotected = Keep)
    <3>1. left' = NoPromise
      BY <1>8, <2>3 DEF Promise
    <3>2. QED BY <3>1, NothingIs DEF PromiseCounts
  <2>4. QED BY <2>1, <2>2, <2>3
<1>20. QED BY <1>16, <1>17, <1>18, <1>19 DEF IInv

-----------------------------------------------------------------------------
(* The theorems.                                                           *)

LEMMA NextKeeps == ASSUME IInv, [Next]_vars PROVE IInv'
<1>1. CASE UNCHANGED vars
  BY <1>1, StutterKeeps
<1>2. ASSUME NEW m \in Machine, Reissue(m) PROVE IInv'
  BY <1>2, ReissueKeeps
<1>3. CASE Backup
  BY <1>3, BackupKeeps
<1>4. ASSUME NEW i \in DOMAIN group, Forget(i) PROVE IInv'
  BY <1>4, ForgetKeeps
<1>5. ASSUME NEW i \in DOMAIN group, NEW flag \in BOOLEAN, SetProtected(i, flag) PROVE IInv'
  BY <1>5, SetProtectedKeeps
<1>6. CASE Check
  BY <1>6, CheckKeeps
<1>7. CASE CheckFails
  BY <1>7, CheckFailsKeeps
<1>8. QED BY <1>1, <1>2, <1>3, <1>4, <1>5, <1>6, <1>7 DEF Next

\* What the checks know of the group, in every reachable state.
THEOREM InductiveInvariant == Spec => []IInv
<1>1. Init => IInv
  BY InitIInv
<1>2. IInv /\ [Next]_vars => IInv'
  BY NextKeeps
<1>3. QED BY <1>1, <1>2, PTL DEF Spec

\* The group is a sequence of backups, with at most MaxProtected protected ones, and
\* what the check says is an identity and a count, or that it has none.
THEOREM TypeCorrect == Spec => []TypeOK
<1>1. IInv => TypeOK
  BY DEF IInv
<1>2. QED BY <1>1, InductiveInvariant, PTL

\* No machine's last unprotected backup goes in a run of vzdump without a push that
\* named it, or a failed check, since its last backup; unless a read failed, or a
\* protection was lifted since the check before.
THEOREM EvictionIsTold == Spec => NoSilentEviction
<1>1. IInv /\ [Next]_vars =>
        [Backup /\ ~lifted => \A m \in Machine \ {machine, machine'} :
            HeldBy(group, m) # {} /\ HeldBy(group', m) = {} => m \in told \cup blind]_vars
  BY EvictionTold
<1>2. QED BY <1>1, InductiveInvariant, PTL DEF Spec, NoSilentEviction

\* "gone in N more runs" is never too late, and exact if the earlier machine's
\* backups are the oldest.
THEOREM PromisesKept == Spec => []PromiseKept
<1>1. IInv => PromiseKept
  <2> SUFFICES ASSUME IInv, left.earlier # Unknown
               PROVE  /\ left.runs > 0 => HeldBy(group, left.earlier) # {}
                      /\ left.runs = 0 /\ left.together => HeldBy(group, left.earlier) = {}
    BY DEF PromiseKept
  <2>1. /\ left.runs <= Cardinality(HeldBy(group, left.earlier))
        /\ left.together => left.runs = Cardinality(HeldBy(group, left.earlier))
    BY DEF IInv, PromiseCounts
  <2>2. left.runs \in Nat /\ group \in Seq(Backups)
    BY DEF IInv, TypeOK
  <2>3. IsFiniteSet(HeldBy(group, left.earlier))
    <3>1. IsFiniteSet(Unprotected(group))
      BY <2>2, PositionsAre, Zenon
    <3>2. HeldBy(group, left.earlier) \in SUBSET Unprotected(group)
      BY DEF HeldBy
    <3>3. QED BY <3>1, <3>2, FS_Subset
  <2>4. left.runs > 0 => HeldBy(group, left.earlier) # {}
    <3>1. left.runs > 0 => Cardinality(HeldBy(group, left.earlier)) # 0
      BY <2>1, <2>2
    <3>2. QED BY <3>1, FS_EmptySet
  <2>5. left.runs = 0 /\ left.together => HeldBy(group, left.earlier) = {}
    BY <2>1, <2>3, FS_EmptySet
  <2>6. QED BY <2>4, <2>5
<1>2. QED BY <1>1, InductiveInvariant, PTL

=============================================================================
