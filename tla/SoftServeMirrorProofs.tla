----------------------- MODULE SoftServeMirrorProofs ------------------------
(***************************************************************************)
(* What a verdict of the mirror job is worth, for any repositories and     *)
(* forks, any length of a page, margin, period and deadline, and any       *)
(* changes and faults.  The invariant says what the pages listed so far    *)
(* and the lines read so far have made sure of; and, if nothing has        *)
(* happened that may fail the job, that they are still true.               *)
(***************************************************************************)
EXTENDS SoftServeMirror, FiniteSetTheorems, FunctionTheorems, TLAPS

\* How the refs stand on both sides, and since when.
WorldIsSane ==
    /\ \A r \in Repo :
        /\ behind[r] = InStep <=> Gone \in {upstream[r], mirror[r]} \/ upstream[r] = mirror[r]
        /\ behind[r] <= now /\ pushedAt[r] <= now
    /\ \A r \in Forks : mirror[r] = Gone
    /\ there \subseteq OnGitHub \ Forks

\* Where the job is.
JobIsSane ==
    /\ began <= now
    /\ (page - 1) * PerPage <= Cardinality(Repo)
    /\ pc # "list" => page = 1 /\ items = <<>>
    /\ pc \in {"idle", "list"} => plan = <<>>
    /\ pc \in {"line", "compare"} => began <= syncAt /\ syncAt <= now
    /\ \A r \in existing : mirror[r] # Gone
    /\ pc = "compare" => plan # <<>> /\ Head(plan).name \in existing

\* A line tells of a push no later than the repository's last, while it is there.
LinesArePast(s) ==
    \A i \in DOMAIN s : s[i].name \in there => s[i].pushed <= pushedAt[s[i].name]

Listed(s, r) == \E i \in DOMAIN s : s[i].name = r

\* A line has been read for r, and did not fail.
Checked(r) ==
    /\ mirror[r] # Gone
    /\ behind[r] # InStep /\ behind[r] < began => syncAt - pushedAt[r] <= Margin

\* Nothing that has been there since the job began is passed over, unless the
\* pages shifted under the listing.
NothingIsPassedOver ==
    ~ shifted => \A r \in there :
        /\ pc = "list" /\ Rank(OnGitHub, r) <= (page - 1) * PerPage => Listed(items, r)
        /\ pc = "mirrors" => Listed(plan, r)
        /\ pc \in {"line", "compare"} /\ ~ failed => Listed(plan, r) \/ Checked(r)

\* A mirror that differed all the time differs from what was read.
ReadDiffers ==
    pc = "compare" =>
        LET r == Head(plan).name
        IN  r \in there /\ behind[r] # InStep /\ behind[r] < began => read # mirror[r]

\* Lines that are true, and each of another repository.
LinesAreTrue(s) ==
    /\ \A i \in DOMAIN s : s[i].name \in OnGitHub /\ s[i].pushed = pushedAt[s[i].name]
    /\ \A i, j \in DOMAIN s : s[i].name = s[j].name => i = j

\* With nothing that may fail the job, what it has read is still so.
QuietSince ==
    pc # "idle" /\ ~ excuse =>
        /\ stuck = {} /\ ~ shifted
        /\ \A r \in Repo : behind[r] # InStep => now = began /\ began - pushedAt[r] <= Margin
        /\ LinesAreTrue(items) /\ LinesAreTrue(plan)
        /\ \A i \in DOMAIN items : Rank(OnGitHub, items[i].name) <= (page - 1) * PerPage
        /\ pc \in {"line", "compare"} => \A i \in DOMAIN plan :
               plan[i].name \notin existing => mirror[plan[i].name] = Gone
        /\ pc = "compare" => read = upstream[Head(plan).name]

IInv ==
    /\ TypeOK
    /\ WorldIsSane
    /\ JobIsSane
    /\ LinesArePast(items) /\ LinesArePast(plan)
    /\ NothingIsPassedOver
    /\ ReadDiffers
    /\ QuietSince
    /\ FailsForAReason

-----------------------------------------------------------------------------
(* Orders of finite sets, and the places they give.                        *)

LEMMA ConstantsAre ==
    /\ Repo \subseteq Nat /\ IsFiniteSet(Repo) /\ Cardinality(Repo) \in Nat
    /\ Forks \subseteq Repo
    /\ PerPage \in Nat /\ PerPage > 0 /\ Margin \in Nat /\ Margin > 0
    /\ Period \in Nat /\ Period > 0 /\ Deadline \in Nat /\ MaxTime \in Nat /\ MaxTime > 0
    /\ MaxChanges \in Nat /\ MaxFaults \in Nat
    /\ LongAgo \in Int /\ LongAgo < 0
<1>1. Repo \subseteq Nat /\ IsFiniteSet(Repo) /\ Forks \subseteq Repo
  BY SoftServeAssumption
<1>2. Cardinality(Repo) \in Nat
  BY <1>1, FS_CardinalityType
<1>3. /\ PerPage \in Nat /\ PerPage > 0 /\ Margin \in Nat /\ Margin > 0
      /\ Period \in Nat /\ Period > 0 /\ Deadline \in Nat /\ MaxTime \in Nat /\ MaxTime > 0
      /\ MaxChanges \in Nat /\ MaxFaults \in Nat
  <2>1. /\ PerPage \in Nat \ {0} /\ Margin \in Nat \ {0} /\ Period \in Nat \ {0}
        /\ Deadline \in Nat \ {0} /\ MaxTime \in Nat \ {0}
        /\ MaxChanges \in Nat /\ MaxFaults \in Nat
    BY SoftServeAssumption, Zenon
  <2>2. QED BY <2>1
<1>4. LongAgo \in Int /\ LongAgo < 0
  BY <1>3 DEF LongAgo
<1>5. QED BY <1>1, <1>2, <1>3, <1>4

LEMMA Smaller ==
    ASSUME NEW S, IsFiniteSet(S), NEW T \in SUBSET S
    PROVE  /\ IsFiniteSet(T) /\ Cardinality(T) \in Nat /\ Cardinality(S) \in Nat
           /\ Cardinality(T) <= Cardinality(S)
           /\ T # S => Cardinality(T) < Cardinality(S)
           /\ T # {} => Cardinality(T) > 0
<1>1. IsFiniteSet(T) /\ Cardinality(T) <= Cardinality(S)
      /\ (Cardinality(S) = Cardinality(T) => S = T)
  BY FS_Subset
<1>2. Cardinality(T) \in Nat /\ Cardinality(S) \in Nat
  BY <1>1, FS_CardinalityType
<1>3. T # {} => Cardinality(T) # 0
  BY <1>1, FS_EmptySet
<1>4. QED BY <1>1, <1>2, <1>3

\* Those of S that the order R has no later than x.
UpTo(S, R, x) == {y \in S : <<y, x>> \in R}

IsOrder(S, R) ==
    /\ \A x \in S : <<x, x>> \in R
    /\ \A x, y \in S : <<x, y>> \in R \/ <<y, x>> \in R
    /\ \A x, y \in S : <<x, y>> \in R /\ <<y, x>> \in R => x = y
    /\ \A x, y, z \in S : <<x, y>> \in R /\ <<y, z>> \in R => <<x, z>> \in R

\* P numbers S from 1 to n.
Numbers(S, n, P) ==
    /\ n \in Nat
    /\ \A x \in S : P[x] \in 1 .. n
    /\ \A x, y \in S : P[x] = P[y] => x = y
    /\ \A k \in 1 .. n : \E x \in S : P[x] = k

\* Counting those up to each numbers an ordered set.
LEMMA Numbered ==
    ASSUME NEW S, IsFiniteSet(S), NEW R, IsOrder(S, R)
    PROVE  Numbers(S, Cardinality(S), [x \in S |-> Cardinality(UpTo(S, R, x))])
<1>1. PICK n : n = Cardinality(S)
  OBVIOUS
<1>2. PICK P : P = [x \in S |-> Cardinality(UpTo(S, R, x))]
  OBVIOUS
<1>3. n \in Nat
  BY <1>1, FS_CardinalityType
<1>4. \A x \in S : UpTo(S, R, x) \in SUBSET S /\ x \in UpTo(S, R, x)
  BY DEF UpTo, IsOrder
<1>5. \A x \in S : P[x] \in 1 .. n
  <2> SUFFICES ASSUME NEW x \in S PROVE P[x] \in 1 .. n
    OBVIOUS
  <2>1. UpTo(S, R, x) \in SUBSET S /\ UpTo(S, R, x) # {}
    BY <1>4
  <2>2. /\ Cardinality(UpTo(S, R, x)) <= n /\ Cardinality(UpTo(S, R, x)) > 0
        /\ Cardinality(UpTo(S, R, x)) \in Nat
    BY <1>1, <2>1, Smaller
  <2>3. QED BY <1>2, <1>3, <2>2
<1>6. ASSUME NEW x \in S, NEW y \in S, x # y, <<x, y>> \in R PROVE P[x] < P[y]
  <2>1. UpTo(S, R, x) \in SUBSET UpTo(S, R, y)
    BY <1>6 DEF UpTo, IsOrder
  <2>2. y \in UpTo(S, R, y) /\ y \notin UpTo(S, R, x)
    BY <1>4, <1>6 DEF UpTo, IsOrder
  <2>3. IsFiniteSet(UpTo(S, R, y))
    BY <1>4, Smaller
  <2>4. UpTo(S, R, x) # UpTo(S, R, y)
    BY <2>2
  <2>5. Cardinality(UpTo(S, R, x)) < Cardinality(UpTo(S, R, y))
    BY <2>1, <2>3, <2>4, Smaller
  <2>6. QED BY <1>2, <2>5
<1>7. \A x, y \in S : P[x] = P[y] => x = y
  <2> SUFFICES ASSUME NEW x \in S, NEW y \in S, x # y PROVE P[x] # P[y]
    OBVIOUS
  <2>1. P[x] < P[y] \/ P[y] < P[x]
    BY <1>6 DEF IsOrder
  <2>2. P[x] \in Nat /\ P[y] \in Nat
    BY <1>3, <1>5
  <2>3. QED BY <2>1, <2>2
<1>8. PICK T : T = 1 .. n
  OBVIOUS
<1>9. P \in Injection(S, T)
  <2>1. P \in [S -> T]
    BY <1>2, <1>5, <1>8
  <2>2. QED BY <1>7, <2>1, Fun_IsInj
<1>10. IsFiniteSet(T) /\ Cardinality(T) = n
  <2>1. 0 \in Int /\ n \in Int /\ 1 \in Int
    BY <1>3
  <2>2. QED BY <1>3, <1>8, <2>1, FS_Interval
<1>11. P \in Surjection(S, T)
  BY <1>1, <1>9, <1>10, FS_Injection
<1>12. \A k \in T : \E x \in S : P[x] = k
  BY <1>11 DEF Surjection
<1>13. Numbers(S, n, P)
  BY <1>3, <1>5, <1>7, <1>8, <1>12 DEF Numbers
<1>14. QED BY <1>1, <1>2, <1>13, Zenon

\* The places of some repositories.
LEMMA Ranks ==
    ASSUME NEW S \in SUBSET Nat, IsFiniteSet(S)
    PROVE  /\ Cardinality(S) \in Nat
           /\ \A x \in S : Rank(S, x) \in 1 .. Cardinality(S)
           /\ \A x, y \in S : Rank(S, x) = Rank(S, y) => x = y
           /\ \A k \in 1 .. Cardinality(S) : \E x \in S : Rank(S, x) = k
<1>1. PICK R : R = {z \in S \X S : z[1] <= z[2]}
  OBVIOUS
<1>2. \A x, y \in S : <<x, y>> \in R <=> x <= y
  BY <1>1
<1>3. IsOrder(S, R)
  BY <1>2 DEF IsOrder
<1>4. Numbers(S, Cardinality(S), [x \in S |-> Cardinality(UpTo(S, R, x))])
  BY <1>3, Numbered, Zenon
<1>5. \A x \in S : Cardinality(UpTo(S, R, x)) = Rank(S, x)
  <2> SUFFICES ASSUME NEW x \in S PROVE UpTo(S, R, x) = {q \in S : q <= x}
    BY DEF Rank
  <2>1. QED BY <1>2 DEF UpTo
<1>6. QED BY <1>4, <1>5 DEF Numbers

\* A place is no earlier among more.
LEMMA RankGrows ==
    ASSUME NEW T, IsFiniteSet(T), NEW S \in SUBSET T, NEW x
    PROVE  Rank(S, x) <= Rank(T, x) /\ Rank(S, x) \in Nat /\ Rank(T, x) \in Nat
<1>1. PICK A, B : A = {q \in S : q <= x} /\ B = {q \in T : q <= x}
  OBVIOUS
<1>2. A \in SUBSET B /\ B \in SUBSET T
  BY <1>1
<1>3. IsFiniteSet(B) /\ Cardinality(B) \in Nat
  BY <1>2, Smaller
<1>4. Cardinality(A) <= Cardinality(B) /\ Cardinality(A) \in Nat
  BY <1>2, <1>3, Smaller
<1>5. QED BY <1>1, <1>3, <1>4 DEF Rank

\* The plan has the lines in scope, each once.
LEMMA PlanIs ==
    ASSUME NEW listed \in Seq(Line), NEW p, p = PlanOf(listed)
    PROVE  /\ p \in Seq({l \in Line : l.name \notin Forks})
           /\ \E f \in [DOMAIN p -> DOMAIN listed] :
                /\ \A k \in DOMAIN p : p[k] = listed[f[k]]
                /\ \A k, l \in DOMAIN p : f[k] = f[l] => k = l
           /\ \A i \in DOMAIN listed :
                listed[i].name \notin Forks => \E k \in DOMAIN p : p[k] = listed[i]
<1>1. PICK kept \in SUBSET DOMAIN listed :
        kept = {i \in DOMAIN listed : InScope(listed[i].name)}
  OBVIOUS
<1>2. PICK R : R = {z \in kept \X kept : NotAfter(listed, z[1], z[2])}
  OBVIOUS
<1>3. \A i, j \in kept : <<i, j>> \in R <=> NotAfter(listed, i, j)
  BY <1>2
<1>4. IsFiniteSet(kept) /\ Cardinality(kept) \in Nat
  <2>1. DOMAIN listed = 1 .. Len(listed) /\ Len(listed) \in Nat
    OBVIOUS
  <2>2. IsFiniteSet(DOMAIN listed)
    BY <2>1, FS_Interval
  <2>3. QED BY <2>2, Smaller
<1>5. \A i \in kept : i \in Nat /\ listed[i].name \in Nat /\ listed[i].pushed \in Int
                      /\ listed[i] \in Line /\ listed[i].name \notin Forks
  <2>1. \A i \in DOMAIN listed : i \in Nat /\ listed[i] \in Line
    OBVIOUS
  <2>2. \A l \in Line : l.name \in Nat /\ l.pushed \in Int
    <3>1. \A l \in Line : l.name \in Repo /\ l.pushed \in {LongAgo} \cup 0 .. MaxTime
      BY DEF Line
    <3>2. Repo \subseteq Nat /\ LongAgo \in Int /\ MaxTime \in Nat
      BY ConstantsAre
    <3>3. {LongAgo} \cup 0 .. MaxTime \subseteq Int
      BY <3>2
    <3>4. QED BY <3>1, <3>2, <3>3
  <2>3. QED BY <1>1, <2>1, <2>2 DEF InScope
<1>6. IsOrder(kept, R)
  <2>1. \A i \in kept : <<i, i>> \in R
    BY <1>3, <1>5 DEF NotAfter
  <2>2. \A i, j \in kept : <<i, j>> \in R \/ <<j, i>> \in R
    <3> SUFFICES ASSUME NEW i \in kept, NEW j \in kept
                 PROVE  NotAfter(listed, i, j) \/ NotAfter(listed, j, i)
      BY <1>3
    <3>1. PICK a, b, c, d : /\ a = listed[i].name /\ b = listed[j].name
                            /\ c = listed[i].pushed /\ d = listed[j].pushed
      OBVIOUS
    <3>2. a \in Int /\ b \in Int /\ c \in Int /\ d \in Int /\ i \in Int /\ j \in Int
      BY <1>5, <3>1
    <3>3. QED BY <3>1, <3>2 DEF NotAfter
  <2>3. \A i, j \in kept : <<i, j>> \in R /\ <<j, i>> \in R => i = j
    BY <1>3, <1>5 DEF NotAfter
  <2>4. \A i, j, k \in kept : <<i, j>> \in R /\ <<j, k>> \in R => <<i, k>> \in R
    <3> SUFFICES ASSUME NEW i \in kept, NEW j \in kept, NEW k \in kept,
                        NotAfter(listed, i, j), NotAfter(listed, j, k)
                 PROVE  NotAfter(listed, i, k)
      BY <1>3
    <3>1. PICK a, b, c : a = listed[i].name /\ b = listed[j].name /\ c = listed[k].name
      OBVIOUS
    <3>2. PICK u, v, w : u = listed[i].pushed /\ v = listed[j].pushed /\ w = listed[k].pushed
      OBVIOUS
    <3>3. /\ a \in Int /\ b \in Int /\ c \in Int /\ u \in Int /\ v \in Int /\ w \in Int
          /\ i \in Int /\ j \in Int /\ k \in Int
      BY <1>5, <3>1, <3>2
    <3>4. QED BY <3>1, <3>2, <3>3 DEF NotAfter
  <2>5. QED BY <2>1, <2>2, <2>3, <2>4 DEF IsOrder
<1>7. PICK P : P = [i \in kept |-> Cardinality(UpTo(kept, R, i))]
  OBVIOUS
<1>8. PICK n : n = Cardinality(kept)
  OBVIOUS
<1>9. Numbers(kept, n, P)
  BY <1>4, <1>6, <1>7, <1>8, Numbered, Zenon
<1>10. \A i \in kept : P[i] = Cardinality({j \in kept : NotAfter(listed, j, i)})
  <2> SUFFICES ASSUME NEW i \in kept
               PROVE  UpTo(kept, R, i) = {j \in kept : NotAfter(listed, j, i)}
    BY <1>7
  <2>1. QED BY <1>3 DEF UpTo
<1>11. p = [k \in 1 .. n |-> listed[CHOOSE i \in kept :
              Cardinality({j \in kept : NotAfter(listed, j, i)}) = k]]
  BY <1>1, <1>8 DEF PlanOf
<1>12. PICK f : f = [k \in 1 .. n |-> CHOOSE i \in kept :
              Cardinality({j \in kept : NotAfter(listed, j, i)}) = k]
  OBVIOUS
<1>13. \A k \in 1 .. n : f[k] \in kept /\ P[f[k]] = k
  <2> SUFFICES ASSUME NEW k \in 1 .. n PROVE f[k] \in kept /\ P[f[k]] = k
    OBVIOUS
  <2>1. \E i \in kept : Cardinality({j \in kept : NotAfter(listed, j, i)}) = k
    <3>1. PICK i \in kept : P[i] = k
      BY <1>9 DEF Numbers
    <3>2. QED BY <1>10, <3>1
  <2>2. f[k] \in kept /\ Cardinality({j \in kept : NotAfter(listed, j, f[k])}) = k
    BY <1>12, <2>1
  <2>3. QED BY <1>10, <2>2
<1>14. DOMAIN p = 1 .. n /\ \A k \in 1 .. n : p[k] = listed[f[k]]
  BY <1>11, <1>12
<1>15. p \in Seq({l \in Line : l.name \notin Forks})
  <2>1. n \in Nat
    BY <1>4, <1>8
  <2>2. \A k \in 1 .. n : p[k] \in {l \in Line : l.name \notin Forks}
    BY <1>5, <1>13, <1>14
  <2>3. p \in [1 .. n -> {l \in Line : l.name \notin Forks}]
    BY <1>11, <1>14, <2>2
  <2>4. QED BY <2>1, <2>3
<1>16. f \in [DOMAIN p -> DOMAIN listed]
  BY <1>12, <1>13, <1>14
<1>17. \A k, l \in DOMAIN p : f[k] = f[l] => k = l
  BY <1>13, <1>14
<1>18. ASSUME NEW i \in DOMAIN listed, listed[i].name \notin Forks
       PROVE  \E k \in DOMAIN p : p[k] = listed[i]
  <2>1. i \in kept
    BY <1>1, <1>18 DEF InScope
  <2>2. P[i] \in 1 .. n
    BY <1>9, <2>1 DEF Numbers
  <2>3. P[f[P[i]]] = P[i] /\ f[P[i]] \in kept
    BY <1>13, <2>2
  <2>4. f[P[i]] = i
    BY <1>9, <2>1, <2>3 DEF Numbers
  <2>5. QED BY <1>14, <2>2, <2>4
<1>19. QED BY <1>14, <1>15, <1>16, <1>17, <1>18

-----------------------------------------------------------------------------
(* The listing.                                                            *)

LEMMA Pages ==
    ASSUME NEW p \in Nat, p > 0
    PROVE  /\ (p - 1) * PerPage \in Nat /\ p - 1 <= (p - 1) * PerPage
           /\ ((p + 1) - 1) * PerPage = (p - 1) * PerPage + PerPage
<1>1. PICK n \in Nat, k \in Nat : n = PerPage /\ k = p - 1 /\ n > 0
  BY ConstantsAre
<1>2. k * n \in Nat /\ k <= k * n
  BY <1>1
<1>3. (k + 1) * n = k * n + n
  BY <1>1
<1>4. (p + 1) - 1 = k + 1
  BY <1>1
<1>5. QED BY <1>1, <1>2, <1>3, <1>4

\* What a page shows, from place before on.
PageIs(b, before) ==
    /\ b \in Seq(Line)
    /\ \A i \in DOMAIN b :
        /\ i \in 1 .. PerPage
        /\ b[i].name \in OnGitHub /\ b[i].pushed = pushedAt[b[i].name]
        /\ Rank(OnGitHub, b[i].name) = before + i
    /\ \A r \in OnGitHub :
        Rank(OnGitHub, r) > before /\ Rank(OnGitHub, r) <= before + PerPage => Listed(b, r)
    /\ LastPage(b) => \A r \in OnGitHub : Rank(OnGitHub, r) > before => Listed(b, r)
    /\ ~ LastPage(b) => before + PerPage <= Cardinality(OnGitHub)

LEMMA PageShows ==
    ASSUME TypeOK
    PROVE  PageIs(Batch, (page - 1) * PerPage)
<1>1. PICK before : before = (page - 1) * PerPage
  OBVIOUS
<1>2. before \in Nat /\ PerPage \in Nat /\ PerPage > 0
  <2>1. page \in Nat /\ page > 0
    BY ConstantsAre DEF TypeOK
  <2>2. QED BY <1>1, <2>1, Pages, ConstantsAre
<1>3. PICK S : S = OnGitHub
  OBVIOUS
<1>4. S \in SUBSET Repo /\ S \in SUBSET Nat /\ IsFiniteSet(S)
  <2>1. S \in SUBSET Repo
    BY <1>3 DEF OnGitHub
  <2>2. QED BY <2>1, ConstantsAre, Smaller
<1>5. PICK n : n = Cardinality(S)
  OBVIOUS
<1>6. /\ n \in Nat
      /\ \A x \in S : Rank(S, x) \in 1 .. n
      /\ \A k \in 1 .. n : \E x \in S : Rank(S, x) = k
  BY <1>4, <1>5, Ranks
<1>7. PICK size : size = IF n - before < PerPage THEN n - before ELSE PerPage
  OBVIOUS
<1>8. size \in Int /\ size <= PerPage /\ before + size <= n
  BY <1>2, <1>6, <1>7
<1>9. PICK b : b = Batch
  OBVIOUS
<1>10. b = [i \in 1 .. size |->
              [name |-> CHOOSE q \in S : Rank(S, q) = before + i,
               pushed |-> pushedAt[CHOOSE q \in S : Rank(S, q) = before + i]]]
  BY <1>1, <1>3, <1>5, <1>7, <1>9 DEF Batch
<1>11. DOMAIN b = 1 .. size
  BY <1>10
<1>12. ASSUME NEW i \in 1 .. size
       PROVE  /\ b[i].name \in S /\ b[i].pushed = pushedAt[b[i].name]
              /\ Rank(S, b[i].name) = before + i
              /\ b[i] \in Line
  <2>1. before + i \in 1 .. n
    BY <1>2, <1>6, <1>8
  <2>2. PICK q : q = CHOOSE x \in S : Rank(S, x) = before + i
    OBVIOUS
  <2>3. q \in S /\ Rank(S, q) = before + i
    BY <1>6, <2>1, <2>2
  <2>4. b[i] = [name |-> q, pushed |-> pushedAt[q]]
    BY <1>10, <2>2
  <2>5. pushedAt[q] \in {LongAgo} \cup 0 .. MaxTime /\ q \in Repo
    BY <1>4, <2>3 DEF TypeOK
  <2>6. QED BY <2>3, <2>4, <2>5 DEF Line
<1>13. \A r \in S : Rank(S, r) > before /\ Rank(S, r) <= before + size => Listed(b, r)
  <2> SUFFICES ASSUME NEW r \in S, Rank(S, r) > before, Rank(S, r) <= before + size
               PROVE  \E i \in DOMAIN b : b[i].name = r
    BY DEF Listed
  <2>1. Rank(S, r) \in 1 .. n
    BY <1>6
  <2>2. PICK i \in 1 .. size : Rank(S, r) = before + i
    <3>1. Rank(S, r) - before \in 1 .. size /\ Rank(S, r) = before + (Rank(S, r) - before)
      BY <1>2, <1>8, <2>1
    <3>2. QED BY <3>1
  <2>3. b[i].name \in S /\ Rank(S, b[i].name) = Rank(S, r)
    BY <1>12, <2>2
  <2>4. b[i].name = r
    BY <1>4, <2>3, Ranks
  <2>5. QED BY <1>11, <2>4
<1>14. b \in Seq(Line)
  <2>1. CASE size \in Nat
    <3>1. b \in [1 .. size -> Line]
      BY <1>10, <1>11, <1>12
    <3>2. QED BY <2>1, <3>1
  <2>2. CASE size \notin Nat
    <3>1. 1 .. size = 1 .. 0
      BY <1>8, <2>2
    <3>2. b \in [1 .. 0 -> Line]
      BY <1>10, <1>11, <1>12, <3>1
    <3>3. QED BY <3>2
  <2>3. QED BY <2>1, <2>2
<1>15. LastPage(b) => n <= before + size
  <2> SUFFICES ASSUME ~(n <= before + size) PROVE ~ LastPage(b)
    OBVIOUS
  <2>1. size = PerPage
    BY <1>2, <1>6, <1>7
  <2>2. DOMAIN b = 1 .. PerPage
    BY <1>11, <2>1
  <2>3. Len(b) = PerPage
    BY <1>2, <1>14, <2>2
  <2>4. QED BY <1>2, <2>3 DEF LastPage
<1>16. ~ LastPage(b) => before + PerPage <= n
  <2> SUFFICES ASSUME ~(before + PerPage <= n) PROVE LastPage(b)
    OBVIOUS
  <2>1. size = n - before /\ size < PerPage
    BY <1>2, <1>6, <1>7
  <2>2. Len(b) \in Nat /\ DOMAIN b = 1 .. Len(b)
    BY <1>14
  <2>3. Len(b) < PerPage
    BY <1>2, <1>8, <1>11, <2>1, <2>2
  <2>4. QED BY <2>3 DEF LastPage
<1>17. \A r \in S : Rank(S, r) > before /\ Rank(S, r) <= before + PerPage => Listed(b, r)
  <2> SUFFICES ASSUME NEW r \in S, Rank(S, r) > before, Rank(S, r) <= before + PerPage
               PROVE  Rank(S, r) <= before + size
    BY <1>13
  <2>1. Rank(S, r) \in 1 .. n
    BY <1>6
  <2>2. QED BY <1>2, <1>6, <1>7, <2>1
<1>18. LastPage(b) => \A r \in S : Rank(S, r) > before => Listed(b, r)
  <2> SUFFICES ASSUME LastPage(b), NEW r \in S, Rank(S, r) > before
               PROVE  Rank(S, r) <= before + size
    BY <1>13
  <2>1. Rank(S, r) \in 1 .. n
    BY <1>6
  <2>2. QED BY <1>2, <1>6, <1>8, <1>15, <2>1
<1>19. \A i \in DOMAIN b : i \in 1 .. PerPage
  BY <1>2, <1>8, <1>11
<1>20. PageIs(b, before)
  BY <1>3, <1>5, <1>11, <1>12, <1>14, <1>16, <1>17, <1>18, <1>19 DEF PageIs
<1>21. QED BY <1>1, <1>9, <1>20

-----------------------------------------------------------------------------
(* GitHub and Soft Serve.                                                  *)

\* What changing refs to u and m does to the history of each mirror.
HistoryFollows(u, m, b) ==
    \A r \in Repo :
        /\ b[r] = InStep <=> Gone \in {u[r], m[r]} \/ u[r] = m[r]
        /\ b[r] \in {InStep, behind[r], now} /\ b[r] <= now
        /\ mirror[r] # Gone => m[r] # Gone
        /\ b[r] # InStep /\ b[r] < now => b[r] = behind[r] /\ m[r] = mirror[r]
        /\ u[r] = upstream[r] /\ b[r] # InStep => behind[r] # InStep

\* A mirror becomes what upstream is, or stays, and is not dropped.
LEMMA BecomeFollows ==
    ASSUME TypeOK, WorldIsSane,
           NEW u \in [Repo -> Refs \union {Gone}], NEW m \in [Repo -> Refs \union {Gone}],
           Become(u, m),
           \A r \in Repo : /\ mirror[r] # Gone => m[r] # Gone
                           /\ m[r] # mirror[r] => m[r] = u[r]
    PROVE  /\ upstream' = u /\ mirror' = m
           /\ behind' \in [Repo -> InStep .. MaxTime]
           /\ HistoryFollows(u, m, behind')
<1>1. upstream' = u /\ mirror' = m
  BY DEF Become
<1>2. PICK b : b = behind'
  OBVIOUS
<1>3. b = [r \in Repo |-> IF Gone \in {u[r], m[r]} \/ u[r] = m[r] THEN InStep
                          ELSE IF behind[r] = InStep THEN now ELSE behind[r]]
  BY <1>2 DEF Become
<1>4. /\ now \in 0 .. MaxTime /\ MaxTime \in Nat /\ InStep = -1
      /\ \A r \in Repo : behind[r] \in InStep .. MaxTime
  BY ConstantsAre DEF TypeOK, InStep
<1>5. \A r \in Repo : b[r] \in InStep .. MaxTime
  BY <1>3, <1>4
<1>6. b \in [Repo -> InStep .. MaxTime]
  BY <1>3, <1>5
<1>7. ASSUME NEW r \in Repo
      PROVE  /\ b[r] = InStep <=> Gone \in {u[r], m[r]} \/ u[r] = m[r]
             /\ b[r] \in {InStep, behind[r], now} /\ b[r] <= now
             /\ mirror[r] # Gone => m[r] # Gone
             /\ b[r] # InStep /\ b[r] < now => b[r] = behind[r] /\ m[r] = mirror[r]
             /\ u[r] = upstream[r] /\ b[r] # InStep => behind[r] # InStep
  <2>1. behind[r] \in Int /\ behind[r] <= now /\ now \in Nat
        /\ (behind[r] = InStep <=> Gone \in {upstream[r], mirror[r]} \/ upstream[r] = mirror[r])
    BY <1>4 DEF WorldIsSane
  <2>2. b[r] = IF Gone \in {u[r], m[r]} \/ u[r] = m[r] THEN InStep
               ELSE IF behind[r] = InStep THEN now ELSE behind[r]
    BY <1>3
  <2>3. b[r] = InStep <=> Gone \in {u[r], m[r]} \/ u[r] = m[r]
    BY <1>4, <2>1, <2>2
  <2>4. b[r] \in {InStep, behind[r], now} /\ b[r] <= now
    BY <1>4, <2>1, <2>2
  <2>5. mirror[r] # Gone => m[r] # Gone
    OBVIOUS
  <2>6. b[r] # InStep /\ b[r] < now => b[r] = behind[r] /\ m[r] = mirror[r]
    BY <1>4, <2>1, <2>2, <2>3
  <2>7. u[r] = upstream[r] /\ b[r] # InStep => behind[r] # InStep
    BY <2>1, <2>2, <2>3
  <2>8. QED BY <2>3, <2>4, <2>5, <2>6, <2>7
<1>8. HistoryFollows(u, m, b)
  BY <1>7 DEF HistoryFollows
<1>9. QED BY <1>1, <1>2, <1>6, <1>8

\* What a sync leaves.
LEMMA FollowIs ==
    ASSUME TypeOK, NEW rs \in SUBSET Repo
    PROVE  /\ Follow(rs) \in [Repo -> Refs \union {Gone}]
           /\ \A r \in Repo : /\ mirror[r] # Gone => Follow(rs)[r] # Gone
                              /\ mirror[r] = Gone => Follow(rs)[r] = Gone
                              /\ Follow(rs)[r] # mirror[r] => Follow(rs)[r] = upstream[r]
                              /\ r \in rs \ stuck => \/ Gone \in {upstream[r], Follow(rs)[r]}
                                                     \/ upstream[r] = Follow(rs)[r]
  BY DEF TypeOK, Follow

\* What any step of the world keeps, and of the job's history.
WorldMoves ==
    /\ now' \in 0 .. MaxTime /\ now <= now'
    /\ upstream' \in [Repo -> Refs \union {Gone}]
    /\ mirror' \in [Repo -> Refs \union {Gone}]
    /\ behind' \in [Repo -> InStep .. MaxTime]
    /\ pushedAt' \in [Repo -> {LongAgo} \union 0 .. MaxTime]
    /\ stuck' \subseteq Repo
    /\ HistoryFollows(upstream', mirror', behind')
    /\ \A r \in Repo : pushedAt'[r] <= now'
    /\ \A r \in Forks : mirror'[r] = Gone
    /\ there' \subseteq there /\ there' \subseteq OnGitHub' \ Forks
    /\ \A r \in there' : pushedAt[r] <= pushedAt'[r]
    /\ shifted' \in BOOLEAN
    /\ ~ shifted' => ~ shifted /\ (pc = "list" => OnGitHub \subseteq OnGitHub')
    /\ began' = began

\* A push, a creation and a deletion.
LEMMA GitHubMoves ==
    ASSUME TypeOK, WorldIsSane, NEW r \in Repo, Push(r) \/ Create(r) \/ Delete(r)
    PROVE  WorldMoves
<1>1. PICK v \in Refs \union {Gone} : Become([upstream EXCEPT ![r] = v], mirror)
      /\ (Push(r) \/ Create(r) => v # Gone)
  <2>1. 0 \in Refs \union {Gone} /\ 0 # Gone /\ \A v \in Refs : v # Gone
    BY SoftServeAssumption DEF Gone
  <2>2. CASE Push(r)
    BY <2>1, <2>2 DEF Push
  <2>3. CASE Create(r)
    BY <2>1, <2>3 DEF Create
  <2>4. CASE Delete(r) /\ ~ Push(r) /\ ~ Create(r)
    BY <2>4 DEF Delete
  <2>5. QED BY <2>2, <2>3, <2>4
<1>2. PICK u \in [Repo -> Refs \union {Gone}] : u = [upstream EXCEPT ![r] = v]
  BY DEF TypeOK
<1>3. /\ upstream \in [Repo -> Refs \union {Gone}] /\ mirror \in [Repo -> Refs \union {Gone}]
      /\ now \in 0 .. MaxTime /\ now \in Nat
      /\ pushedAt \in [Repo -> {LongAgo} \union 0 .. MaxTime]
      /\ \A q \in Repo : pushedAt[q] \in Int /\ pushedAt[q] <= now
  <2>1. \A q \in Repo : pushedAt[q] \in {LongAgo} \union 0 .. MaxTime
    BY DEF TypeOK
  <2>2. LongAgo \in Int /\ MaxTime \in Nat
    BY ConstantsAre
  <2>3. {LongAgo} \union 0 .. MaxTime \subseteq Int
    BY <2>2
  <2>4. QED BY <2>1, <2>2, <2>3 DEF TypeOK, WorldIsSane
<1>4. /\ upstream' = u /\ mirror' = mirror
      /\ behind' \in [Repo -> InStep .. MaxTime]
      /\ HistoryFollows(u, mirror, behind')
  BY <1>1, <1>2, <1>3, BecomeFollows
<1>5. now' = now /\ stuck' = stuck /\ began' = began /\ pc' = pc
  BY DEF Push, Create, Delete, Change, job
<1>6. /\ pushedAt' \in [Repo -> {LongAgo} \union 0 .. MaxTime]
      /\ \A q \in Repo : pushedAt'[q] <= now
      /\ \A q \in there' : pushedAt[q] <= pushedAt'[q]
  <2>1. there' \subseteq there /\ there \subseteq OnGitHub /\ there \subseteq Repo
    BY DEF Push, Create, Delete, WorldIsSane, OnGitHub
  <2>2. CASE Push(r)
    <3>1. pushedAt' = [pushedAt EXCEPT ![r] = now]
      BY <2>2 DEF Push
    <3>2. QED BY <1>3, <2>1, <3>1
  <2>3. CASE Create(r)
    <3>1. pushedAt' = [pushedAt EXCEPT ![r] = LongAgo] /\ r \notin there
      BY <2>1, <2>3 DEF Create
    <3>2. LongAgo <= now /\ LongAgo \in {LongAgo} \union 0 .. MaxTime
      BY <1>3, ConstantsAre
    <3>3. QED BY <1>3, <2>1, <3>1, <3>2
  <2>4. CASE Delete(r)
    <3>1. pushedAt' = pushedAt
      BY <2>4 DEF Delete
    <3>2. QED BY <1>3, <2>1, <3>1
  <2>5. QED BY <2>2, <2>3, <2>4
<1>7. /\ there' \subseteq there /\ there' \subseteq OnGitHub' \ Forks
      /\ shifted' \in BOOLEAN
      /\ ~ shifted' => ~ shifted /\ (pc = "list" => OnGitHub \subseteq OnGitHub')
  <2>1. /\ there \subseteq OnGitHub \ Forks /\ there \subseteq Repo
        /\ shifted \in BOOLEAN
    BY Zenon DEF WorldIsSane, OnGitHub, TypeOK
  <2>2. OnGitHub' = {q \in Repo : u[q] # Gone}
    BY <1>4 DEF OnGitHub
  <2>3. \A q \in Repo \ {r} : q \in OnGitHub <=> q \in OnGitHub'
    BY <1>2, <1>3, <2>2 DEF OnGitHub
  <2>4. CASE Push(r) \/ Create(r)
    <3>1. r \in OnGitHub'
      BY <1>1, <1>2, <1>3, <2>2, <2>4
    <3>2. OnGitHub \subseteq OnGitHub'
      BY <2>3, <3>1 DEF OnGitHub
    <3>3. there' = there /\ shifted' = shifted
      BY <2>4 DEF Push, Create
    <3>4. QED BY <2>1, <3>2, <3>3
  <2>5. CASE Delete(r)
    <3>1. there' = there \ {r} /\ shifted' = (shifted \/ pc = "list")
      BY <2>5 DEF Delete
    <3>2. there' \subseteq OnGitHub' \ Forks
      BY <2>1, <2>3, <3>1
    <3>3. shifted' \in BOOLEAN
      BY <3>1, Zenon
    <3>4. QED BY <3>1, <3>2, <3>3
  <2>6. QED BY <2>4, <2>5
<1>8. \A q \in Forks : mirror'[q] = Gone
  BY <1>4 DEF WorldIsSane
<1>9. stuck' \subseteq Repo /\ now' \in 0 .. MaxTime /\ now <= now'
      /\ \A q \in Repo : pushedAt'[q] <= now'
  BY <1>3, <1>5, <1>6 DEF TypeOK
<1>10. upstream' \in [Repo -> Refs \union {Gone}] /\ mirror' \in [Repo -> Refs \union {Gone}]
       /\ HistoryFollows(upstream', mirror', behind')
  BY <1>2, <1>3, <1>4
<1>11. QED BY <1>4, <1>5, <1>6, <1>7, <1>8, <1>9, <1>10 DEF WorldMoves

\* A step that leaves GitHub, the clock but for a tick, and the job's history.
LEMMA MirrorMoves ==
    ASSUME TypeOK, WorldIsSane, NEW m \in [Repo -> Refs \union {Gone}],
           \A r \in Repo : /\ mirror[r] # Gone => m[r] # Gone
                           /\ m[r] # mirror[r] => m[r] = upstream[r],
           \A r \in Forks : m[r] = Gone,
           Become(upstream, m),
           now' \in 0 .. MaxTime, now <= now', stuck' \subseteq Repo,
           UNCHANGED <<pushedAt, there, shifted, began>>
    PROVE  WorldMoves
<1>1. /\ upstream \in [Repo -> Refs \union {Gone}]
      /\ now \in Int /\ now' \in Int
      /\ pushedAt \in [Repo -> {LongAgo} \union 0 .. MaxTime]
      /\ \A q \in Repo : pushedAt[q] \in Int /\ pushedAt[q] <= now
  <2>1. \A q \in Repo : pushedAt[q] \in {LongAgo} \union 0 .. MaxTime
    BY DEF TypeOK
  <2>2. LongAgo \in Int /\ MaxTime \in Nat
    BY ConstantsAre
  <2>3. {LongAgo} \union 0 .. MaxTime \subseteq Int
    BY <2>2
  <2>4. QED BY <2>1, <2>2, <2>3 DEF TypeOK, WorldIsSane
<1>2. /\ upstream' = upstream /\ mirror' = m
      /\ behind' \in [Repo -> InStep .. MaxTime]
      /\ HistoryFollows(upstream, m, behind')
  BY <1>1, BecomeFollows
<1>3. OnGitHub' = OnGitHub
  BY <1>2 DEF OnGitHub
<1>4. shifted \in BOOLEAN
  BY Zenon DEF TypeOK
<1>5. there \subseteq OnGitHub \ Forks /\ there \subseteq Repo
  BY DEF WorldIsSane, OnGitHub
<1>6. \A q \in Repo : pushedAt'[q] <= now'
  BY <1>1
<1>7. \A q \in there' : pushedAt[q] <= pushedAt'[q]
  BY <1>1, <1>5
<1>8. QED BY <1>1, <1>2, <1>3, <1>4, <1>5, <1>6, <1>7 DEF WorldMoves

\* A step that leaves the refs as they are.
LEMMA StandsStill ==
    ASSUME TypeOK, WorldIsSane, stuck' \subseteq Repo,
           UNCHANGED <<now, upstream, mirror, behind, pushedAt, there, shifted, began>>
    PROVE  WorldMoves
<1>1. /\ now \in Int /\ now \in 0 .. MaxTime
      /\ \A q \in Repo : pushedAt[q] \in Int /\ pushedAt[q] <= now
      /\ there \subseteq OnGitHub \ Forks /\ there \subseteq Repo
  <2>1. \A q \in Repo : pushedAt[q] \in {LongAgo} \union 0 .. MaxTime
    BY DEF TypeOK
  <2>2. LongAgo \in Int /\ MaxTime \in Nat
    BY ConstantsAre
  <2>3. {LongAgo} \union 0 .. MaxTime \subseteq Int
    BY <2>2
  <2>4. QED BY <2>1, <2>2, <2>3 DEF TypeOK, WorldIsSane, OnGitHub
<1>2. HistoryFollows(upstream, mirror, behind)
  BY DEF HistoryFollows, WorldIsSane
<1>3. OnGitHub' = OnGitHub
  BY DEF OnGitHub
<1>4. shifted \in BOOLEAN
  BY Zenon DEF TypeOK
<1>5. /\ upstream \in [Repo -> Refs \union {Gone}]
      /\ mirror \in [Repo -> Refs \union {Gone}]
      /\ behind \in [Repo -> InStep .. MaxTime]
      /\ pushedAt \in [Repo -> {LongAgo} \union 0 .. MaxTime]
      /\ \A q \in Forks : mirror[q] = Gone
  BY DEF TypeOK, WorldIsSane
<1>6. /\ HistoryFollows(upstream', mirror', behind')
      /\ \A q \in Repo : pushedAt'[q] <= now'
      /\ \A q \in there' : pushedAt[q] <= pushedAt'[q]
      /\ now <= now'
  BY <1>1, <1>2
<1>7. QED BY <1>1, <1>3, <1>4, <1>5, <1>6 DEF WorldMoves

\* The lines of a sequence, and their pushes.
LEMMA LinesAre ==
    ASSUME NEW s \in Seq(Line)
    PROVE  \A i \in DOMAIN s : s[i] \in Line /\ s[i].name \in Repo /\ s[i].pushed \in Int
<1>1. \A l \in Line : l.name \in Repo /\ l.pushed \in {LongAgo} \union 0 .. MaxTime
  BY DEF Line
<1>2. LongAgo \in Int /\ MaxTime \in Nat
  BY ConstantsAre
<1>3. {LongAgo} \union 0 .. MaxTime \subseteq Int
  BY <1>2
<1>4. \A i \in DOMAIN s : s[i] \in Line
  OBVIOUS
<1>5. QED BY <1>1, <1>3, <1>4

LEMMA TypesAre ==
    ASSUME TypeOK
    PROVE  /\ now \in Nat /\ now \in 0 .. MaxTime /\ began \in Nat /\ syncAt \in Nat
           /\ \A r \in Repo : pushedAt[r] \in Int /\ behind[r] \in Int
           /\ {l \in Line : l.name \notin Forks} \subseteq Line
           /\ items \in Seq(Line) /\ plan \in Seq(Line)
           /\ failed \in BOOLEAN /\ shifted \in BOOLEAN /\ excuse \in BOOLEAN
           /\ page \in Nat /\ page > 0
           /\ pc \in {"idle", "list", "mirrors", "line", "compare"}
           /\ OnGitHub \subseteq Repo /\ IsFiniteSet(OnGitHub)
<1>1. LongAgo \in Int /\ MaxTime \in Nat /\ Cardinality(Repo) \in Nat
  BY ConstantsAre
<1>2. {LongAgo} \union 0 .. MaxTime \subseteq Int
  BY <1>1
<1>3. \A r \in Repo : pushedAt[r] \in Int
  BY <1>2 DEF TypeOK
<1>4. \A r \in Repo : behind[r] \in Int
  <2>1. \A r \in Repo : behind[r] \in InStep .. MaxTime
    BY DEF TypeOK
  <2>2. QED BY <1>1, <2>1 DEF InStep
<1>5. now \in Nat /\ now \in 0 .. MaxTime /\ began \in Nat /\ syncAt \in Nat
  BY <1>1 DEF TypeOK
<1>6. failed \in BOOLEAN /\ shifted \in BOOLEAN /\ excuse \in BOOLEAN
  BY Zenon DEF TypeOK
<1>7. items \in Seq(Line) /\ plan \in Seq(Line)
  <2>1. plan \in Seq({l \in Line : l.name \notin Forks}) /\ items \in Seq(Line)
    BY DEF TypeOK
  <2>2. plan \in Seq(Line)
    BY <2>1
  <2>3. QED BY <2>1, <2>2
<1>8. page \in Nat /\ page > 0
  BY <1>1 DEF TypeOK
<1>9. pc \in {"idle", "list", "mirrors", "line", "compare"}
  BY DEF TypeOK
<1>10. OnGitHub \subseteq Repo /\ IsFiniteSet(OnGitHub)
  <2>1. OnGitHub \in SUBSET Repo
    BY DEF OnGitHub
  <2>2. QED BY <2>1, ConstantsAre, Smaller
<1>11. QED BY <1>3, <1>4, <1>5, <1>6, <1>7, <1>8, <1>9, <1>10

\* What the world does leaves sane what was, tells of no earlier push, and
\* undoes no check.
LEMMA WorldKeeps ==
    ASSUME IInv, WorldMoves
    PROVE  /\ WorldIsSane'
           /\ \A s \in Seq(Line) : LinesArePast(s) =>
                \A i \in DOMAIN s : s[i].name \in there' => s[i].pushed <= pushedAt'[s[i].name]
           /\ \A r \in there' : Checked(r) /\ syncAt' = syncAt => Checked(r)'
<1>1. /\ now \in Nat /\ began \in Nat /\ began <= now /\ syncAt \in Nat
      /\ \A r \in Repo : pushedAt[r] \in Int /\ behind[r] \in Int
  BY TypesAre DEF IInv, JobIsSane
<1>2. there' \subseteq there /\ there' \subseteq Repo
  BY DEF WorldMoves, OnGitHub
<1>3. now' \in Int /\ now <= now' /\ (\A r \in Repo : pushedAt'[r] \in Int /\ behind'[r] \in Int)
  <2>1. LongAgo \in Int /\ MaxTime \in Nat
    BY ConstantsAre
  <2>2. {LongAgo} \union 0 .. MaxTime \subseteq Int /\ InStep .. MaxTime \subseteq Int
    BY <2>1
  <2>3. \A r \in Repo : pushedAt'[r] \in {LongAgo} \union 0 .. MaxTime
                        /\ behind'[r] \in InStep .. MaxTime
    BY DEF WorldMoves
  <2>4. QED BY <2>1, <2>2, <2>3 DEF WorldMoves
<1>4. WorldIsSane'
  <2>1. ASSUME NEW r \in Repo
        PROVE  /\ behind'[r] = InStep <=>
                    Gone \in {upstream'[r], mirror'[r]} \/ upstream'[r] = mirror'[r]
               /\ behind'[r] <= now' /\ pushedAt'[r] <= now'
    <3>1. behind'[r] <= now
      BY DEF WorldMoves, HistoryFollows
    <3>2. behind'[r] <= now'
      BY <1>1, <1>3, <3>1
    <3>3. behind'[r] = InStep <=>
                    Gone \in {upstream'[r], mirror'[r]} \/ upstream'[r] = mirror'[r]
      BY DEF WorldMoves, HistoryFollows
    <3>4. pushedAt'[r] <= now'
      BY DEF WorldMoves
    <3>5. QED BY <3>2, <3>3, <3>4
  <2>2. (\A r \in Forks : mirror'[r] = Gone) /\ there' \subseteq OnGitHub' \ Forks
    BY DEF WorldMoves
  <2>3. QED BY <2>1, <2>2 DEF WorldIsSane
<1>5. ASSUME NEW s \in Seq(Line), LinesArePast(s), NEW i \in DOMAIN s, s[i].name \in there'
      PROVE  s[i].pushed <= pushedAt'[s[i].name]
  <2>1. s[i].pushed \in Int /\ s[i].name \in Repo
    BY LinesAre
  <2>2. s[i].pushed <= pushedAt[s[i].name]
    BY <1>2, <1>5 DEF LinesArePast
  <2>3. pushedAt[s[i].name] <= pushedAt'[s[i].name]
    BY <1>5 DEF WorldMoves
  <2>4. QED BY <1>1, <1>3, <2>1, <2>2, <2>3
<1>6. ASSUME NEW r \in there', Checked(r), syncAt' = syncAt
      PROVE  Checked(r)'
  <2>1. r \in Repo /\ began' = began /\ pushedAt[r] <= pushedAt'[r]
    BY <1>2 DEF WorldMoves
  <2>2. mirror'[r] # Gone
    BY <1>6, <2>1 DEF Checked, WorldMoves, HistoryFollows
  <2>3. ASSUME behind'[r] # InStep, behind'[r] < began PROVE syncAt - pushedAt'[r] <= Margin
    <3>1. behind'[r] < now
      BY <1>1, <1>3, <2>1, <2>3
    <3>2. behind'[r] = behind[r]
      BY <2>1, <2>3, <3>1 DEF WorldMoves, HistoryFollows
    <3>3. syncAt - pushedAt[r] <= Margin
      BY <1>6, <2>3, <3>2 DEF Checked
    <3>4. QED BY <1>1, <1>3, <2>1, <3>3, ConstantsAre
  <2>4. QED BY <1>6, <2>1, <2>2, <2>3 DEF Checked
<1>7. QED BY <1>4, <1>5, <1>6

\* The world moves and the job does not.
LEMMA OutsideKeeps ==
    ASSUME IInv, WorldMoves, UNCHANGED job,
           changes' \in 0 .. MaxChanges, faults' \in 0 .. MaxFaults,
           excuse' \in BOOLEAN, excuse => excuse',
           QuietSince'
    PROVE  IInv'
<1>1. /\ now \in Nat /\ began \in Nat /\ began <= now /\ syncAt \in Nat
      /\ items \in Seq(Line) /\ plan \in Seq(Line) /\ page \in Nat
      /\ (\A r \in Repo : pushedAt[r] \in Int /\ behind[r] \in Int)
      /\ failed \in BOOLEAN
      /\ OnGitHub \subseteq Repo /\ IsFiniteSet(OnGitHub)
  BY TypesAre DEF IInv, JobIsSane
<1>2. /\ pc' = pc /\ began' = began /\ page' = page /\ items' = items /\ plan' = plan
      /\ syncAt' = syncAt /\ existing' = existing /\ read' = read /\ failed' = failed
  BY DEF job
<1>3. there' \subseteq there /\ there' \subseteq Repo
  BY DEF WorldMoves, OnGitHub
<1>4. TypeOK'
  <2>1. {failed', shifted', excuse'} \subseteq BOOLEAN
    <3>1. failed' \in BOOLEAN /\ shifted' \in BOOLEAN /\ excuse' \in BOOLEAN
      BY <1>1, <1>2, Zenon DEF WorldMoves
    <3>2. QED BY <3>1, Zenon
  <2>2. /\ pc' \in {"idle", "list", "mirrors", "line", "compare"}
        /\ began' \in 0 .. MaxTime /\ syncAt' \in 0 .. MaxTime
        /\ page' \in 1 .. Cardinality(Repo) + 1
        /\ items' \in Seq(Line)
        /\ plan' \in Seq({l \in Line : l.name \notin Forks})
        /\ existing' \subseteq Repo \ Forks
        /\ read' \in Refs \union {Gone}
    BY <1>2 DEF IInv, TypeOK
  <2>3. QED BY <1>3, <2>1, <2>2, Zenon DEF WorldMoves, TypeOK
<1>5. WorldIsSane'
  BY WorldKeeps
<1>6. JobIsSane'
  <2>1. \A r \in existing : mirror'[r] # Gone
    <3>1. existing \subseteq Repo /\ \A r \in existing : mirror[r] # Gone
      BY DEF IInv, TypeOK, JobIsSane
    <3>2. QED BY <3>1 DEF WorldMoves, HistoryFollows
  <2>2. now <= now' /\ now' \in Int
    BY ConstantsAre DEF WorldMoves
  <2>3. QED BY <1>1, <1>2, <2>1, <2>2 DEF IInv, JobIsSane
<1>7. LinesArePast(items)' /\ LinesArePast(plan)'
  <2>1. \A s \in Seq(Line) : LinesArePast(s) =>
          \A i \in DOMAIN s : s[i].name \in there' => s[i].pushed <= pushedAt'[s[i].name]
    BY WorldKeeps
  <2>2. LinesArePast(items) /\ LinesArePast(plan)
    BY DEF IInv
  <2>3. QED BY <1>1, <1>2, <2>1, <2>2 DEF LinesArePast
<1>8. NothingIsPassedOver'
  <2> SUFFICES ASSUME ~ shifted', NEW r \in there'
               PROVE  /\ pc = "list" /\ Rank(OnGitHub', r) <= (page - 1) * PerPage
                            => Listed(items, r)
                      /\ pc = "mirrors" => Listed(plan, r)
                      /\ pc \in {"line", "compare"} /\ ~ failed => Listed(plan, r) \/ Checked(r)'
    BY <1>2 DEF NothingIsPassedOver, Rank, Listed
  <2>1. ~ shifted /\ r \in there /\ (pc = "list" => OnGitHub \subseteq OnGitHub')
    BY <1>3 DEF WorldMoves
  <2>2. /\ pc = "list" /\ Rank(OnGitHub, r) <= (page - 1) * PerPage => Listed(items, r)
        /\ pc = "mirrors" => Listed(plan, r)
        /\ pc \in {"line", "compare"} /\ ~ failed => Listed(plan, r) \/ Checked(r)
    BY <2>1 DEF IInv, NothingIsPassedOver
  <2>3. ASSUME pc = "list", Rank(OnGitHub', r) <= (page - 1) * PerPage
        PROVE  Listed(items, r)
    <3>1. PICK S, T : S = OnGitHub /\ T = OnGitHub'
      OBVIOUS
    <3>2. T \in SUBSET Repo /\ S \in SUBSET T
      BY <2>1, <2>3, <3>1 DEF OnGitHub
    <3>3. IsFiniteSet(T)
      BY <3>2, ConstantsAre, Smaller
    <3>4. Rank(S, r) <= Rank(T, r) /\ Rank(S, r) \in Nat /\ Rank(T, r) \in Nat
      BY <3>2, <3>3, RankGrows
    <3>5. (page - 1) * PerPage \in Nat
      BY Pages, TypesAre DEF IInv
    <3>6. Rank(OnGitHub, r) <= (page - 1) * PerPage
      BY <2>3, <3>1, <3>4, <3>5
    <3>7. QED BY <2>2, <2>3, <3>6
  <2>4. Checked(r) => Checked(r)'
    BY <1>2, WorldKeeps
  <2>5. QED BY <2>2, <2>3, <2>4
<1>9. ReadDiffers'
  <2> SUFFICES ASSUME pc = "compare", NEW r, r = Head(plan).name,
                      r \in there', behind'[r] # InStep, behind'[r] < began
               PROVE  read # mirror'[r]
    BY <1>2 DEF ReadDiffers
  <2>1. r \in Repo /\ r \in there
    BY <1>3
  <2>2. behind'[r] < now
    <3>1. behind'[r] \in Int
      <4>1. behind'[r] \in InStep .. MaxTime
        BY <2>1 DEF WorldMoves
      <4>2. QED BY <4>1, ConstantsAre DEF InStep
    <3>2. QED BY <1>1, <3>1
  <2>3. behind'[r] = behind[r] /\ mirror'[r] = mirror[r]
    BY <2>1, <2>2 DEF WorldMoves, HistoryFollows
  <2>4. QED BY <2>1, <2>3 DEF IInv, ReadDiffers
<1>10. FailsForAReason'
  <2>1. failed => excuse \/ there = {}
    BY DEF IInv, FailsForAReason
  <2>2. there = {} => there' = {}
    BY <1>3
  <2>3. QED BY <1>2, <2>1, <2>2 DEF FailsForAReason
<1>11. QED BY <1>4, <1>5, <1>6, <1>7, <1>8, <1>9, <1>10 DEF IInv

\* A sync of some mirrors, within a period or at its end.
LEMMA SyncKeeps ==
    ASSUME IInv, NEW rs \in SUBSET Repo, Become(upstream, Follow(rs)),
           now' = now \/ (rs = Repo /\ now' = now + 1 /\ now < MaxTime),
           UNCHANGED <<pushedAt, stuck, job, changes, faults, there, shifted, excuse>>
    PROVE  IInv'
<1>1. PICK m : m = Follow(rs)
  OBVIOUS
<1>2. /\ m \in [Repo -> Refs \union {Gone}]
      /\ \A r \in Repo : /\ mirror[r] # Gone => m[r] # Gone
                         /\ mirror[r] = Gone => m[r] = Gone
                         /\ m[r] # mirror[r] => m[r] = upstream[r]
                         /\ r \in rs \ stuck => Gone \in {upstream[r], m[r]} \/ upstream[r] = m[r]
  BY <1>1, FollowIs DEF IInv
<1>3. /\ now \in 0 .. MaxTime /\ now \in Nat /\ MaxTime \in Nat
      /\ upstream \in [Repo -> Refs \union {Gone}] /\ stuck \subseteq Repo
      /\ excuse \in BOOLEAN /\ items \in Seq(Line) /\ plan \in Seq(Line)
      /\ changes \in 0 .. MaxChanges /\ faults \in 0 .. MaxFaults
  BY TypesAre, ConstantsAre DEF IInv, TypeOK
<1>4. now' \in 0 .. MaxTime /\ now <= now'
  BY <1>3
<1>5. /\ pc' = pc /\ began' = began /\ page' = page /\ items' = items /\ plan' = plan
      /\ syncAt' = syncAt /\ existing' = existing /\ read' = read /\ failed' = failed
  BY DEF job
<1>6. \A r \in Forks : m[r] = Gone
  <2>1. Forks \subseteq Repo /\ \A r \in Forks : mirror[r] = Gone
    BY ConstantsAre DEF IInv, WorldIsSane
  <2>2. QED BY <1>2, <2>1
<1>7. /\ upstream' = upstream /\ mirror' = m
      /\ HistoryFollows(upstream, m, behind')
  BY <1>1, <1>2, <1>3, BecomeFollows DEF IInv
<1>8. WorldMoves
  <2>1. Become(upstream, m)
    BY <1>1
  <2>2. TypeOK /\ WorldIsSane
    BY DEF IInv
  <2>3. stuck' \subseteq Repo /\ began' = began
    BY <1>3, <1>5
  <2>4. QED BY <1>2, <1>4, <1>6, <2>1, <2>2, <2>3, MirrorMoves
<1>9. QuietSince'
  <2> SUFFICES ASSUME pc # "idle", ~ excuse
               PROVE  /\ stuck = {} /\ ~ shifted
                      /\ \A r \in Repo : behind'[r] # InStep =>
                            now' = began /\ began - pushedAt[r] <= Margin
                      /\ LinesAreTrue(items)' /\ LinesAreTrue(plan)'
                      /\ \A j \in DOMAIN items :
                            Rank(OnGitHub', items[j].name) <= (page - 1) * PerPage
                      /\ pc \in {"line", "compare"} => \A j \in DOMAIN plan :
                             plan[j].name \notin existing => mirror'[plan[j].name] = Gone
                      /\ pc = "compare" => read = upstream'[Head(plan).name]
    BY <1>5 DEF QuietSince, Rank
  <2>1. /\ stuck = {} /\ ~ shifted
        /\ \A r \in Repo : behind[r] # InStep => now = began /\ began - pushedAt[r] <= Margin
        /\ LinesAreTrue(items) /\ LinesAreTrue(plan)
        /\ \A j \in DOMAIN items : Rank(OnGitHub, items[j].name) <= (page - 1) * PerPage
        /\ pc \in {"line", "compare"} => \A j \in DOMAIN plan :
               plan[j].name \notin existing => mirror[plan[j].name] = Gone
        /\ pc = "compare" => read = upstream[Head(plan).name]
    BY DEF IInv, QuietSince
  <2>2. OnGitHub' = OnGitHub
    BY <1>7 DEF OnGitHub
  <2>3. LinesAreTrue(items)' /\ LinesAreTrue(plan)'
    BY <1>5, <2>1, <2>2 DEF LinesAreTrue
  <2>4. ASSUME NEW r \in Repo, behind'[r] # InStep
        PROVE  now' = began /\ began - pushedAt[r] <= Margin
    <3>1. behind[r] # InStep /\ ~(Gone \in {upstream[r], m[r]} \/ upstream[r] = m[r])
      BY <1>7, <2>4 DEF HistoryFollows
    <3>2. r \notin rs \ stuck
      BY <1>2, <3>1
    <3>3. now' = now
      BY <2>1, <3>2
    <3>4. QED BY <2>1, <3>1, <3>3
  <2>5. ASSUME NEW j \in DOMAIN plan, mirror[plan[j].name] = Gone PROVE m[plan[j].name] = Gone
    BY <1>2, <1>3, <2>5, LinesAre
  <2>6. pc \in {"line", "compare"} => \A j \in DOMAIN plan :
             plan[j].name \notin existing => mirror'[plan[j].name] = Gone
    BY <1>7, <2>1, <2>5
  <2>7. pc = "compare" => read = upstream'[Head(plan).name]
    BY <1>7, <2>1
  <2>8. QED BY <2>1, <2>2, <2>3, <2>4, <2>6, <2>7
<1>10. QED BY <1>3, <1>8, <1>9, OutsideKeeps

LEMMA OutsideStep == ASSUME IInv, Outside PROVE IInv'
<1>1. /\ now \in Nat /\ MaxTime \in Nat /\ excuse \in BOOLEAN
      /\ changes \in 0 .. MaxChanges /\ faults \in 0 .. MaxFaults
      /\ MaxChanges \in Nat
  BY TypesAre, ConstantsAre DEF IInv, TypeOK
<1>2. TRUE \in BOOLEAN
  BY Zenon
<1>3. ASSUME Change PROVE /\ UNCHANGED job /\ changes' \in 0 .. MaxChanges
                          /\ faults' \in 0 .. MaxFaults
                          /\ excuse' \in BOOLEAN /\ (excuse => excuse') /\ QuietSince'
  <2>1. excuse' = TRUE
    BY <1>3 DEF Change
  <2>2. QuietSince'
    BY <2>1 DEF QuietSince
  <2>3. UNCHANGED job /\ changes' = changes + 1 /\ changes < MaxChanges /\ faults' = faults
    BY <1>3 DEF Change
  <2>4. changes' \in 0 .. MaxChanges
    BY <1>1, <2>3
  <2>5. excuse' \in BOOLEAN
    BY <1>2, <2>1
  <2>6. QED BY <1>1, <2>1, <2>2, <2>3, <2>4, <2>5
<1>4. ASSUME NEW r \in Repo, Push(r) \/ Create(r) \/ Delete(r) PROVE IInv'
  <2>1. WorldMoves
    BY <1>4, GitHubMoves DEF IInv
  <2>2. Change
    BY <1>4 DEF Push, Create, Delete
  <2>3. QED BY <1>3, <2>1, <2>2, OutsideKeeps
<1>5. ASSUME NEW r \in Repo, Stick(r) PROVE IInv'
  <2>1. Change /\ stuck' \subseteq Repo
    BY <1>5 DEF Stick, IInv, TypeOK
  <2>2. UNCHANGED <<now, upstream, mirror, behind, pushedAt, there, shifted, began>>
    BY <1>5 DEF Stick, Change, job
  <2>3. WorldMoves
    BY <2>1, <2>2, StandsStill DEF IInv
  <2>4. QED BY <1>3, <2>1, <2>3, OutsideKeeps
<1>6. ASSUME NEW r \in Repo, Sync(r) PROVE IInv'
  <2>1. PICK rs \in SUBSET Repo : rs = {r}
    OBVIOUS
  <2>2. /\ Become(upstream, Follow(rs)) /\ now' = now
        /\ UNCHANGED <<pushedAt, stuck, job, changes, faults, there, shifted, excuse>>
    BY <1>6, <2>1 DEF Sync
  <2>3. QED BY <2>2, SyncKeeps
<1>7. ASSUME Tick PROVE IInv'
  <2>1. /\ Become(upstream, Follow(Repo)) /\ now' = now + 1 /\ now < MaxTime
        /\ UNCHANGED <<pushedAt, stuck, job, changes, faults, there, shifted, excuse>>
    BY <1>7 DEF Tick
  <2>2. PICK rs \in SUBSET Repo : rs = Repo
    OBVIOUS
  <2>3. Become(upstream, Follow(rs))
    BY <2>1, <2>2
  <2>4. QED BY <2>1, <2>2, <2>3, SyncKeeps
<1>8. QED BY <1>4, <1>5, <1>6, <1>7 DEF Outside

LEMMA StutterKeeps == ASSUME IInv, UNCHANGED vars PROVE IInv'
<1>1. /\ UNCHANGED <<now, upstream, mirror, behind, pushedAt, there, shifted, began>>
      /\ UNCHANGED job /\ stuck' = stuck /\ changes' = changes /\ faults' = faults
      /\ excuse' = excuse
  BY DEF vars, world, job
<1>2. /\ stuck \subseteq Repo /\ changes \in 0 .. MaxChanges /\ faults \in 0 .. MaxFaults
      /\ excuse \in BOOLEAN
  BY TypesAre DEF IInv, TypeOK
<1>3. WorldMoves
  BY <1>1, <1>2, StandsStill DEF IInv
<1>4. QuietSince'
  <2>1. QuietSince
    BY DEF IInv
  <2>2. QED BY <1>1, <2>1 DEF QuietSince, LinesAreTrue, Rank, OnGitHub, job
<1>5. QED BY <1>1, <1>2, <1>3, <1>4, OutsideKeeps

-----------------------------------------------------------------------------
(* The job.                                                                *)

LEMMA InitIInv == Init => IInv
<1> SUFFICES ASSUME Init PROVE IInv
  OBVIOUS
<1>1. /\ MaxTime \in Nat /\ MaxTime > 0 /\ MaxChanges \in Nat /\ MaxFaults \in Nat
      /\ Cardinality(Repo) \in Nat /\ LongAgo \in Int /\ LongAgo < 0
      /\ PerPage \in Nat /\ Forks \subseteq Repo
  BY ConstantsAre
<1>2. /\ upstream \in [Repo -> Refs \union {Gone}]
      /\ mirror \in [Repo -> Refs \union {Gone}]
      /\ behind \in [Repo -> InStep .. MaxTime]
      /\ pushedAt \in [Repo -> {LongAgo} \union 0 .. MaxTime]
      /\ stuck \subseteq Repo
  <2>1. 0 \in Refs /\ InStep \in InStep .. MaxTime
    BY <1>1, SoftServeAssumption DEF InStep
  <2>2. QED BY <2>1 DEF Init
<1>3. /\ now \in 0 .. MaxTime /\ began \in 0 .. MaxTime /\ syncAt \in 0 .. MaxTime
      /\ page \in 1 .. Cardinality(Repo) + 1
      /\ changes \in 0 .. MaxChanges /\ faults \in 0 .. MaxFaults
  BY <1>1 DEF Init
<1>4. {failed, shifted, excuse} \subseteq BOOLEAN
  BY Zenon DEF Init
<1>5. /\ pc \in {"idle", "list", "mirrors", "line", "compare"}
      /\ items \in Seq(Line) /\ plan \in Seq({l \in Line : l.name \notin Forks})
      /\ existing \subseteq Repo \ Forks /\ read \in Refs \union {Gone}
      /\ there \subseteq Repo
  BY DEF Init
<1>6. TypeOK
  BY <1>2, <1>3, <1>4, <1>5 DEF TypeOK
<1>7. WorldIsSane
  <2>1. ASSUME NEW r \in Repo
        PROVE  /\ Gone \in {upstream[r], mirror[r]} \/ upstream[r] = mirror[r]
               /\ behind[r] = InStep /\ behind[r] <= now /\ pushedAt[r] <= now
    BY <1>1 DEF Init, InStep
  <2>2. (\A r \in Forks : mirror[r] = Gone) /\ there = {}
    BY <1>1 DEF Init, InScope
  <2>3. QED BY <2>1, <2>2 DEF WorldIsSane
<1>8. JobIsSane
  <2>1. (page - 1) * PerPage = 0
    BY <1>1 DEF Init
  <2>2. QED BY <1>1, <2>1 DEF Init, JobIsSane
<1>9. LinesArePast(items) /\ LinesArePast(plan)
  BY DEF Init, LinesArePast
<1>10. NothingIsPassedOver /\ ReadDiffers /\ QuietSince /\ FailsForAReason
  BY DEF Init, NothingIsPassedOver, ReadDiffers, QuietSince, FailsForAReason
<1>11. QED BY <1>6, <1>7, <1>8, <1>9, <1>10 DEF IInv

\* The job ends, for a reason if it fails.
LEMMA EndKeeps ==
    ASSUME IInv, Ends, faults' \in 0 .. MaxFaults, failed' \in BOOLEAN, excuse' \in BOOLEAN,
           failed' => excuse' \/ there = {}
    PROVE  IInv'
<1>1. /\ pc' = "idle" /\ page' = 1 /\ items' = <<>> /\ plan' = <<>>
      /\ syncAt' = 0 /\ existing' = {} /\ read' = Gone
      /\ now' = now /\ upstream' = upstream /\ pushedAt' = pushedAt /\ mirror' = mirror
      /\ stuck' = stuck /\ behind' = behind /\ began' = began /\ changes' = changes
      /\ there' = there /\ shifted' = shifted
  BY DEF Ends, world
<1>2. /\ MaxTime \in Nat /\ Cardinality(Repo) \in Nat /\ PerPage \in Nat
  BY ConstantsAre
<1>3. TypeOK'
  <2>1. {failed', shifted', excuse'} \subseteq BOOLEAN
    <3>1. shifted' \in BOOLEAN
      BY <1>1, TypesAre, Zenon DEF IInv
    <3>2. QED BY <3>1, Zenon
  <2>2. page' \in 1 .. Cardinality(Repo) + 1 /\ syncAt' \in 0 .. MaxTime
    BY <1>1, <1>2
  <2>3. /\ items' \in Seq(Line) /\ plan' \in Seq({l \in Line : l.name \notin Forks})
        /\ existing' \subseteq Repo \ Forks /\ read' \in Refs \union {Gone}
        /\ pc' \in {"idle", "list", "mirrors", "line", "compare"}
    BY <1>1
  <2>4. TypeOK
    BY DEF IInv
  <2>5. QED BY <1>1, <2>1, <2>2, <2>3, <2>4 DEF TypeOK
<1>4. WorldIsSane'
  BY <1>1 DEF IInv, WorldIsSane, OnGitHub
<1>5. JobIsSane'
  <2>1. (page' - 1) * PerPage = 0
    BY <1>1, <1>2
  <2>2. QED BY <1>1, <1>2, <2>1 DEF IInv, JobIsSane
<1>6. LinesArePast(items)' /\ LinesArePast(plan)'
  BY <1>1 DEF LinesArePast
<1>7. NothingIsPassedOver' /\ ReadDiffers' /\ QuietSince' /\ FailsForAReason'
  BY <1>1 DEF NothingIsPassedOver, ReadDiffers, QuietSince, FailsForAReason
<1>8. QED BY <1>3, <1>4, <1>5, <1>6, <1>7 DEF IInv

LEMMA StartKeeps == ASSUME IInv, Start PROVE IInv'
<1>1. /\ pc = "idle" /\ pc' = "list" /\ began' = now /\ page' = 1 /\ items' = <<>>
      /\ failed' = FALSE /\ there' = {r \in OnGitHub : InScope(r)} /\ shifted' = FALSE
      /\ excuse' = \/ stuck # {}
                   \/ \E r \in Repo : behind[r] # InStep /\ now - pushedAt[r] > Margin
      /\ now' = now /\ upstream' = upstream /\ pushedAt' = pushedAt /\ mirror' = mirror
      /\ stuck' = stuck /\ behind' = behind /\ plan' = plan /\ syncAt' = syncAt
      /\ existing' = existing /\ read' = read /\ changes' = changes /\ faults' = faults
  BY DEF Start, world
<1>2. /\ MaxTime \in Nat /\ Cardinality(Repo) \in Nat /\ PerPage \in Nat /\ Margin \in Nat
  BY ConstantsAre
<1>3. /\ now \in Nat /\ \A r \in Repo : pushedAt[r] \in Int /\ behind[r] \in Int
      /\ OnGitHub \subseteq Repo /\ IsFiniteSet(OnGitHub) /\ plan = <<>>
  BY <1>1, TypesAre DEF IInv, JobIsSane
<1>4. TypeOK'
  <2>1. {failed', shifted', excuse'} \subseteq BOOLEAN
    BY <1>1, Zenon
  <2>2. page' \in 1 .. Cardinality(Repo) + 1
    BY <1>1, <1>2
  <2>3. /\ items' \in Seq(Line) /\ pc' \in {"idle", "list", "mirrors", "line", "compare"}
        /\ there' \subseteq Repo
    BY <1>1, <1>3
  <2>4. TypeOK
    BY DEF IInv
  <2>5. QED BY <1>1, <2>1, <2>2, <2>3, <2>4 DEF TypeOK
<1>5. WorldIsSane'
  BY <1>1 DEF IInv, WorldIsSane, OnGitHub, InScope
<1>6. JobIsSane'
  <2>1. (page' - 1) * PerPage = 0
    BY <1>1, <1>2
  <2>2. QED BY <1>1, <1>2, <1>3, <2>1 DEF IInv, JobIsSane
<1>7. LinesArePast(items)' /\ LinesArePast(plan)'
  BY <1>1, <1>3 DEF LinesArePast
<1>8. NothingIsPassedOver'
  <2> SUFFICES ASSUME NEW r \in there', Rank(OnGitHub, r) <= (page' - 1) * PerPage
               PROVE  FALSE
    BY <1>1 DEF NothingIsPassedOver, Rank, OnGitHub
  <2>1. (page' - 1) * PerPage = 0
    BY <1>1, <1>2
  <2>2. r \in OnGitHub /\ OnGitHub \in SUBSET Nat
    BY <1>1, <1>3, ConstantsAre
  <2>3. Rank(OnGitHub, r) \in 1 .. Cardinality(OnGitHub)
    BY <1>3, <2>2, Ranks
  <2>4. QED BY <2>1, <2>3
<1>9. ReadDiffers' /\ FailsForAReason'
  BY <1>1 DEF ReadDiffers, FailsForAReason
<1>10. QuietSince'
  <2> SUFFICES ASSUME ~ excuse' PROVE QuietSince'
    BY DEF QuietSince
  <2>1. stuck = {} /\ \A r \in Repo : behind[r] # InStep => ~(now - pushedAt[r] > Margin)
    BY <1>1
  <2>2. \A r \in Repo : behind[r] # InStep => now - pushedAt[r] <= Margin
    BY <1>2, <1>3, <2>1
  <2>3. LinesAreTrue(items)' /\ LinesAreTrue(plan)'
    BY <1>1, <1>3 DEF LinesAreTrue
  <2>4. DOMAIN items' = {}
    BY <1>1
  <2>5. QED BY <1>1, <2>1, <2>2, <2>3, <2>4 DEF QuietSince
<1>11. QED BY <1>4, <1>5, <1>6, <1>7, <1>8, <1>9, <1>10 DEF IInv

\* The lines of one listing after another.
LEMMA Joined ==
    ASSUME NEW s \in Seq(Line), NEW b \in Seq(Line)
    PROVE  /\ s \o b \in Seq(Line)
           /\ \A i \in DOMAIN (s \o b) :
                \/ i \in DOMAIN s /\ (s \o b)[i] = s[i]
                \/ i - Len(s) \in DOMAIN b /\ (s \o b)[i] = b[i - Len(s)]
           /\ \A r : Listed(s, r) \/ Listed(b, r) => Listed(s \o b, r)
<1>1. /\ Len(s) \in Nat /\ Len(b) \in Nat
      /\ DOMAIN s = 1 .. Len(s) /\ DOMAIN b = 1 .. Len(b)
      /\ DOMAIN (s \o b) = 1 .. Len(s) + Len(b)
  OBVIOUS
<1>2. \A i \in 1 .. Len(s) + Len(b) :
        (s \o b)[i] = IF i <= Len(s) THEN s[i] ELSE b[i - Len(s)]
  OBVIOUS
<1>3. \A i \in 1 .. Len(s) + Len(b) :
        \/ i \in 1 .. Len(s) /\ (s \o b)[i] = s[i]
        \/ i - Len(s) \in 1 .. Len(b) /\ (s \o b)[i] = b[i - Len(s)]
  BY <1>1, <1>2
<1>4. ASSUME NEW r, Listed(s, r) PROVE Listed(s \o b, r)
  <2>1. PICK i \in 1 .. Len(s) : s[i].name = r
    BY <1>1, <1>4 DEF Listed
  <2>2. i \in 1 .. Len(s) + Len(b) /\ (s \o b)[i] = s[i]
    BY <1>1, <1>2
  <2>3. QED BY <1>1, <2>1, <2>2 DEF Listed
<1>5. ASSUME NEW r, Listed(b, r) PROVE Listed(s \o b, r)
  <2>1. PICK i \in 1 .. Len(b) : b[i].name = r
    BY <1>1, <1>5 DEF Listed
  <2>2. PICK k : k = i + Len(s)
    OBVIOUS
  <2>3. k \in 1 .. Len(s) + Len(b) /\ ~(k <= Len(s)) /\ k - Len(s) = i
    BY <1>1, <2>2
  <2>4. (s \o b)[k] = b[i]
    BY <1>2, <2>3
  <2>5. QED BY <1>1, <2>1, <2>3, <2>4 DEF Listed
<1>6. s \o b \in Seq(Line)
  OBVIOUS
<1>7. QED BY <1>1, <1>3, <1>4, <1>5, <1>6

\* What has been listed once another page is there.
ListedIs(l, before) ==
    /\ l \in Seq(Line)
    /\ LinesArePast(l)
    /\ ~ shifted => \A r \in there :
         Rank(OnGitHub, r) <= before + PerPage \/ LastPage(Batch) => Listed(l, r)
    /\ ~ excuse => /\ LinesAreTrue(l)
                   /\ \A i \in DOMAIN l : Rank(OnGitHub, l[i].name) <= before + PerPage

LEMMA Listing ==
    ASSUME IInv, pc = "list"
    PROVE  ListedIs(items \o Batch, (page - 1) * PerPage)
<1>1. PICK before : before = (page - 1) * PerPage
  OBVIOUS
<1>2. before \in Nat /\ PerPage \in Nat
  BY <1>1, Pages, TypesAre, ConstantsAre DEF IInv
<1>3. PICK b : b = Batch
  OBVIOUS
<1>4. PageIs(b, before)
  BY <1>1, <1>3, PageShows DEF IInv
<1>5. items \in Seq(Line) /\ b \in Seq(Line)
  BY <1>4, TypesAre DEF IInv, PageIs
<1>6. PICK l : l = items \o b
  OBVIOUS
<1>7. /\ l \in Seq(Line)
      /\ \A i \in DOMAIN l : \/ i \in DOMAIN items /\ l[i] = items[i]
                             \/ i - Len(items) \in DOMAIN b /\ l[i] = b[i - Len(items)]
      /\ \A r : Listed(items, r) \/ Listed(b, r) => Listed(l, r)
  BY <1>5, <1>6, Joined
<1>8. /\ OnGitHub \in SUBSET Nat /\ IsFiniteSet(OnGitHub) /\ there \subseteq OnGitHub
      /\ \A r \in Repo : pushedAt[r] \in Int
      /\ OnGitHub \subseteq Repo
  BY TypesAre, ConstantsAre DEF IInv, WorldIsSane
<1>9. \A r \in OnGitHub : Rank(OnGitHub, r) \in Nat
  <2>1. Cardinality(OnGitHub) \in Nat /\
        \A r \in OnGitHub : Rank(OnGitHub, r) \in 1 .. Cardinality(OnGitHub)
    BY <1>8, Ranks
  <2>2. QED BY <2>1
<1>10. LinesArePast(l)
  <2> SUFFICES ASSUME NEW i \in DOMAIN l, l[i].name \in there
               PROVE  l[i].pushed <= pushedAt[l[i].name]
    BY DEF LinesArePast
  <2>1. CASE i \in DOMAIN items /\ l[i] = items[i]
    BY <2>1 DEF IInv, LinesArePast
  <2>2. CASE i - Len(items) \in DOMAIN b /\ l[i] = b[i - Len(items)]
    <3>1. l[i].pushed = pushedAt[l[i].name] /\ l[i].name \in Repo
      BY <1>4, <1>8, <2>2 DEF PageIs
    <3>2. PICK x : x = pushedAt[l[i].name]
      OBVIOUS
    <3>3. x \in Int
      BY <1>8, <3>1, <3>2
    <3>4. x <= x
      BY <3>3
    <3>5. QED BY <3>1, <3>2, <3>4
  <2>3. QED BY <1>7, <2>1, <2>2
<1>11. ASSUME ~ shifted, NEW r \in there,
              Rank(OnGitHub, r) <= before + PerPage \/ LastPage(b)
       PROVE  Listed(l, r)
  <2>1. CASE Rank(OnGitHub, r) <= before
    <3>1. Listed(items, r)
      BY <1>1, <1>11, <2>1 DEF IInv, NothingIsPassedOver
    <3>2. QED BY <1>7, <3>1
  <2>2. CASE Rank(OnGitHub, r) > before
    <3>1. Listed(b, r)
      BY <1>4, <1>8, <1>11, <2>2 DEF PageIs
    <3>2. QED BY <1>7, <3>1
  <2>3. Rank(OnGitHub, r) \in Nat
    BY <1>8, <1>9
  <2>4. QED BY <1>2, <2>1, <2>2, <2>3
<1>12. ASSUME ~ excuse
       PROVE  /\ LinesAreTrue(l)
              /\ \A i \in DOMAIN l : Rank(OnGitHub, l[i].name) <= before + PerPage
  <2>1. /\ LinesAreTrue(items)
        /\ \A i \in DOMAIN items : Rank(OnGitHub, items[i].name) <= before
    BY <1>1, <1>12 DEF IInv, QuietSince
  <2>2. \A i \in DOMAIN l : l[i].name \in OnGitHub /\ l[i].pushed = pushedAt[l[i].name]
    BY <1>4, <1>7, <2>1 DEF LinesAreTrue, PageIs
  <2>3. ASSUME NEW i \in DOMAIN l
        PROVE  \/ i \in DOMAIN items /\ l[i] = items[i] /\ Rank(OnGitHub, l[i].name) <= before
               \/ /\ i - Len(items) \in 1 .. PerPage
                  /\ Rank(OnGitHub, l[i].name) = before + (i - Len(items))
    BY <1>4, <1>7, <2>1 DEF PageIs
  <2>4. ASSUME NEW i \in DOMAIN l PROVE Rank(OnGitHub, l[i].name) <= before + PerPage
    BY <1>2, <1>9, <2>2, <2>3
  <2>5. ASSUME NEW i \in DOMAIN l, NEW j \in DOMAIN l, l[i].name = l[j].name PROVE i = j
    <3>1. i \in Int /\ j \in Int /\ Len(items) \in Nat
      BY <1>5, <1>7
    <3>2. PICK k : k = Rank(OnGitHub, l[i].name)
      OBVIOUS
    <3>3. k \in Nat
      BY <1>9, <2>2, <3>2
    <3>4. k = Rank(OnGitHub, l[j].name)
      BY <2>5, <3>2
    <3>5. \/ i \in DOMAIN items /\ l[i] = items[i] /\ k <= before
          \/ i - Len(items) \in 1 .. PerPage /\ k = before + (i - Len(items))
      BY <2>3, <3>2
    <3>6. \/ j \in DOMAIN items /\ l[j] = items[j] /\ k <= before
          \/ j - Len(items) \in 1 .. PerPage /\ k = before + (j - Len(items))
      BY <2>3, <3>4
    <3>7. CASE k <= before
      <4>1. i \in DOMAIN items /\ j \in DOMAIN items /\ items[i].name = items[j].name
        BY <1>2, <2>5, <3>1, <3>3, <3>5, <3>6, <3>7
      <4>2. QED BY <2>1, <4>1 DEF LinesAreTrue
    <3>8. CASE k > before
      BY <1>2, <3>1, <3>3, <3>5, <3>6, <3>8
    <3>9. QED BY <1>2, <3>3, <3>7, <3>8
  <2>6. QED BY <2>2, <2>4, <2>5 DEF LinesAreTrue
<1>13. ListedIs(l, before)
  BY <1>3, <1>7, <1>10, <1>11, <1>12 DEF ListedIs
<1>14. QED BY <1>1, <1>3, <1>6, <1>13

LEMMA PageFetched ==
    ASSUME IInv, pc = "list", ~ LastPage(Batch),
           items' = items \o Batch, page' = page + 1,
           UNCHANGED <<world, pc, began, plan, syncAt, existing, read, failed,
                       changes, faults, there, shifted, excuse>>
    PROVE  IInv'
<1>1. PICK before, l : before = (page - 1) * PerPage /\ l = items \o Batch
  OBVIOUS
<1>2. ListedIs(l, before)
  BY <1>1, Listing
<1>3. /\ before \in Nat /\ PerPage \in Nat /\ page \in Nat /\ page > 0
      /\ Cardinality(Repo) \in Nat /\ plan = <<>>
      /\ excuse \in BOOLEAN /\ shifted \in BOOLEAN /\ failed \in BOOLEAN
  BY <1>1, Pages, TypesAre, ConstantsAre DEF IInv, JobIsSane
<1>4. /\ (page' - 1) * PerPage = before + PerPage
      /\ page' \in Nat /\ page' > 0 /\ page' - 1 <= (page' - 1) * PerPage
  <2>1. page' \in Nat /\ page' > 0 /\ page' = page + 1
    BY <1>3
  <2>2. page' - 1 <= (page' - 1) * PerPage
    BY <2>1, Pages
  <2>3. QED BY <1>1, <1>3, <2>1, <2>2, Pages
<1>5. before + PerPage <= Cardinality(Repo)
  <2>1. before + PerPage <= Cardinality(OnGitHub)
    BY <1>1, PageShows DEF PageIs, IInv
  <2>2. Cardinality(OnGitHub) <= Cardinality(Repo) /\ Cardinality(OnGitHub) \in Nat
    <3>1. OnGitHub \in SUBSET Repo
      BY DEF OnGitHub
    <3>2. QED BY <3>1, ConstantsAre, Smaller
  <2>3. QED BY <1>3, <2>1, <2>2
<1>6. /\ now' = now /\ upstream' = upstream /\ pushedAt' = pushedAt /\ mirror' = mirror
      /\ stuck' = stuck /\ behind' = behind
  BY DEF world
<1>7. TypeOK'
  <2>1. {failed', shifted', excuse'} \subseteq BOOLEAN
    BY <1>3, Zenon
  <2>2. page' \in 1 .. Cardinality(Repo) + 1
    <3>1. PICK k : k = (page' - 1) * PerPage
      OBVIOUS
    <3>2. k = before + PerPage /\ page' - 1 <= k
      BY <1>4, <3>1
    <3>3. k \in Nat /\ k <= Cardinality(Repo)
      BY <1>3, <1>5, <3>2
    <3>4. page' \in Nat /\ page' > 0
      BY <1>4
    <3>5. QED BY <1>3, <3>2, <3>3, <3>4
  <2>3. items' \in Seq(Line)
    BY <1>1, <1>2 DEF ListedIs
  <2>4. TypeOK
    BY DEF IInv
  <2>5. QED BY <1>6, <2>1, <2>2, <2>3, <2>4 DEF TypeOK
<1>8. WorldIsSane'
  BY <1>6 DEF IInv, WorldIsSane, OnGitHub
<1>9. JobIsSane'
  BY <1>4, <1>5, <1>6 DEF IInv, JobIsSane
<1>10. LinesArePast(items)' /\ LinesArePast(plan)'
  BY <1>1, <1>2, <1>3, <1>6 DEF ListedIs, LinesArePast
<1>11. NothingIsPassedOver'
  <2> SUFFICES ASSUME ~ shifted, NEW r \in there,
                      Rank(OnGitHub, r) <= (page' - 1) * PerPage
               PROVE  Listed(l, r)
    BY <1>1, <1>6 DEF NothingIsPassedOver, Rank, OnGitHub, Listed
  <2>1. QED BY <1>2, <1>4 DEF ListedIs
<1>12. ReadDiffers' /\ FailsForAReason'
  BY <1>6 DEF IInv, ReadDiffers, FailsForAReason
<1>13. QuietSince'
  <2> SUFFICES ASSUME ~ excuse PROVE QuietSince'
    BY DEF QuietSince
  <2>1. /\ stuck = {} /\ ~ shifted
        /\ \A r \in Repo : behind[r] # InStep => now = began /\ began - pushedAt[r] <= Margin
    BY DEF IInv, QuietSince
  <2>2. LinesAreTrue(items)' /\ LinesAreTrue(plan)'
    BY <1>1, <1>2, <1>3, <1>6 DEF ListedIs, LinesAreTrue, OnGitHub
  <2>3. \A i \in DOMAIN items' : Rank(OnGitHub, items'[i].name) <= (page' - 1) * PerPage
    BY <1>1, <1>2, <1>4 DEF ListedIs
  <2>4. \A i \in DOMAIN items' : Rank(OnGitHub', items'[i].name) <= (page' - 1) * PerPage
    BY <1>6, <2>3 DEF OnGitHub
  <2>5. QED BY <1>6, <2>1, <2>2, <2>4 DEF QuietSince, Rank
<1>14. QED BY <1>7, <1>8, <1>9, <1>10, <1>11, <1>12, <1>13 DEF IInv

\* What the plan of a whole listing has.
LEMMA Planned ==
    ASSUME IInv, pc = "list", LastPage(Batch), NEW p, p = PlanOf(items \o Batch)
    PROVE  /\ p \in Seq({l \in Line : l.name \notin Forks})
           /\ LinesArePast(p)
           /\ ~ shifted => \A r \in there : Listed(p, r)
           /\ ~ excuse => ~ shifted /\ LinesAreTrue(p)
<1>1. PICK before, l : before = (page - 1) * PerPage /\ l = items \o Batch
  OBVIOUS
<1>2. ListedIs(l, before)
  BY <1>1, Listing
<1>3. l \in Seq(Line) /\ p = PlanOf(l)
  BY <1>1, <1>2 DEF ListedIs
<1>4. /\ p \in Seq({k \in Line : k.name \notin Forks})
      /\ \A i \in DOMAIN l : l[i].name \notin Forks => \E k \in DOMAIN p : p[k] = l[i]
  BY <1>3, PlanIs
<1>5. PICK f \in [DOMAIN p -> DOMAIN l] :
        /\ \A k \in DOMAIN p : p[k] = l[f[k]]
        /\ \A k, q \in DOMAIN p : f[k] = f[q] => k = q
  BY <1>3, PlanIs
<1>6. LinesArePast(p)
  BY <1>2, <1>5 DEF ListedIs, LinesArePast
<1>7. ASSUME ~ shifted, NEW r \in there PROVE Listed(p, r)
  <2>1. Listed(l, r)
    BY <1>2, <1>7 DEF ListedIs
  <2>2. PICK i \in DOMAIN l : l[i].name = r
    BY <2>1 DEF Listed
  <2>3. r \notin Forks
    BY DEF IInv, WorldIsSane
  <2>4. QED BY <1>4, <2>2, <2>3 DEF Listed
<1>8. ASSUME ~ excuse PROVE ~ shifted /\ LinesAreTrue(p)
  <2>1. ~ shifted
    BY <1>8 DEF IInv, QuietSince
  <2>2. LinesAreTrue(l)
    BY <1>2, <1>8 DEF ListedIs
  <2>3. QED BY <1>5, <2>1, <2>2 DEF LinesAreTrue
<1>9. QED BY <1>4, <1>6, <1>7, <1>8

LEMMA FetchKeeps == ASSUME IInv, FetchPage PROVE IInv'
<1>1. PICK p : p = PlanOf(items \o Batch)
  OBVIOUS
<1>2. pc = "list"
  BY DEF FetchPage
<1>3. CASE ~ LastPage(Batch)
  <2>1. /\ items' = items \o Batch /\ page' = page + 1
        /\ UNCHANGED <<world, pc, began, plan, syncAt, existing, read, failed,
                       changes, faults, there, shifted, excuse>>
    BY <1>3 DEF FetchPage
  <2>2. QED BY <1>2, <1>3, <2>1, PageFetched
<1>4. ASSUME LastPage(Batch)
      PROVE  /\ p \in Seq({l \in Line : l.name \notin Forks})
             /\ LinesArePast(p)
             /\ ~ shifted => \A r \in there : Listed(p, r)
             /\ ~ excuse => ~ shifted /\ LinesAreTrue(p)
  BY <1>1, <1>2, <1>4, Planned
<1>5. CASE LastPage(Batch) /\ p = <<>>
  <2>1. failed' = TRUE /\ Ends /\ faults' = faults /\ excuse' = excuse
    BY <1>1, <1>5 DEF FetchPage
  <2>2. excuse \/ there = {}
    <3>1. ASSUME ~ excuse, NEW r \in there PROVE FALSE
      BY <1>4, <1>5, <3>1 DEF Listed
    <3>2. QED BY <3>1
  <2>3. excuse' \in BOOLEAN /\ faults' \in 0 .. MaxFaults
    BY <2>1, TypesAre DEF IInv, TypeOK
  <2>4. failed' \in BOOLEAN
    BY <2>1, Zenon
  <2>5. QED BY <2>1, <2>2, <2>3, <2>4, EndKeeps
<1>6. CASE LastPage(Batch) /\ p # <<>>
  <2>1. /\ plan' = p /\ items' = <<>> /\ page' = 1 /\ pc' = "mirrors"
        /\ UNCHANGED <<began, syncAt, existing, read, failed,
                       changes, faults, there, shifted, excuse>>
        /\ now' = now /\ upstream' = upstream /\ pushedAt' = pushedAt /\ mirror' = mirror
        /\ stuck' = stuck /\ behind' = behind
    BY <1>1, <1>6 DEF FetchPage, world
  <2>2. /\ excuse \in BOOLEAN /\ shifted \in BOOLEAN /\ failed \in BOOLEAN
        /\ Cardinality(Repo) \in Nat /\ PerPage \in Nat
    BY TypesAre, ConstantsAre DEF IInv
  <2>3. TypeOK'
    <3>1. {failed', shifted', excuse'} \subseteq BOOLEAN
      BY <2>1, <2>2, Zenon
    <3>2. page' \in 1 .. Cardinality(Repo) + 1
      BY <2>1, <2>2
    <3>3. /\ items' \in Seq(Line) /\ plan' \in Seq({l \in Line : l.name \notin Forks})
          /\ pc' \in {"idle", "list", "mirrors", "line", "compare"}
      BY <1>4, <1>6, <2>1
    <3>4. TypeOK
      BY DEF IInv
    <3>5. QED BY <2>1, <3>1, <3>2, <3>3, <3>4 DEF TypeOK
  <2>4. WorldIsSane'
    BY <2>1 DEF IInv, WorldIsSane, OnGitHub
  <2>5. JobIsSane'
    <3>1. (page' - 1) * PerPage = 0
      BY <2>1, <2>2
    <3>2. QED BY <2>1, <2>2, <3>1 DEF IInv, JobIsSane
  <2>6. LinesArePast(items)' /\ LinesArePast(plan)'
    BY <1>4, <1>6, <2>1 DEF LinesArePast
  <2>7. NothingIsPassedOver'
    BY <1>4, <1>6, <2>1 DEF NothingIsPassedOver, Listed
  <2>8. ReadDiffers' /\ FailsForAReason'
    BY <2>1 DEF IInv, ReadDiffers, FailsForAReason
  <2>9. QuietSince'
    <3> SUFFICES ASSUME ~ excuse PROVE QuietSince'
      BY <2>1 DEF QuietSince
    <3>1. /\ stuck = {} /\ ~ shifted
          /\ \A r \in Repo : behind[r] # InStep => now = began /\ began - pushedAt[r] <= Margin
      BY <1>2 DEF IInv, QuietSince
    <3>2. LinesAreTrue(items)' /\ LinesAreTrue(plan)'
      BY <1>4, <1>6, <2>1 DEF LinesAreTrue, OnGitHub
    <3>3. DOMAIN items' = {}
      BY <2>1
    <3>4. QED BY <2>1, <3>1, <3>2, <3>3 DEF QuietSince
  <2>10. QED BY <2>3, <2>4, <2>5, <2>6, <2>7, <2>8, <2>9 DEF IInv
<1>7. QED BY <1>3, <1>5, <1>6

LEMMA ListMirrorsKeeps == ASSUME IInv, ListMirrors PROVE IInv'
<1>1. /\ pc = "mirrors" /\ syncAt' = now /\ pc' = "line"
      /\ existing' = {r \in Repo : mirror[r] # Gone}
      /\ UNCHANGED <<began, page, items, plan, read, failed, changes, faults,
                     there, shifted, excuse>>
      /\ now' = now /\ upstream' = upstream /\ pushedAt' = pushedAt /\ mirror' = mirror
      /\ stuck' = stuck /\ behind' = behind
  BY DEF ListMirrors, world
<1>2. /\ now \in 0 .. MaxTime /\ now \in Nat /\ began <= now
      /\ excuse \in BOOLEAN /\ shifted \in BOOLEAN /\ failed \in BOOLEAN
      /\ plan \in Seq(Line)
  BY TypesAre DEF IInv, JobIsSane
<1>3. TypeOK'
  <2>1. {failed', shifted', excuse'} \subseteq BOOLEAN
    BY <1>1, <1>2, Zenon
  <2>2. existing' \subseteq Repo \ Forks
    BY <1>1 DEF IInv, WorldIsSane
  <2>3. pc' \in {"idle", "list", "mirrors", "line", "compare"}
    BY <1>1
  <2>4. TypeOK
    BY DEF IInv
  <2>5. QED BY <1>1, <1>2, <2>1, <2>2, <2>3, <2>4 DEF TypeOK
<1>4. WorldIsSane'
  BY <1>1 DEF IInv, WorldIsSane, OnGitHub
<1>5. JobIsSane'
  BY <1>1, <1>2 DEF IInv, JobIsSane
<1>6. LinesArePast(items)' /\ LinesArePast(plan)'
  BY <1>1 DEF IInv, LinesArePast
<1>7. NothingIsPassedOver'
  BY <1>1 DEF IInv, NothingIsPassedOver, Listed
<1>8. ReadDiffers' /\ FailsForAReason'
  BY <1>1 DEF IInv, ReadDiffers, FailsForAReason
<1>9. QuietSince'
  <2> SUFFICES ASSUME ~ excuse PROVE QuietSince'
    BY <1>1 DEF QuietSince
  <2>1. /\ stuck = {} /\ ~ shifted
        /\ \A r \in Repo : behind[r] # InStep => now = began /\ began - pushedAt[r] <= Margin
        /\ LinesAreTrue(items) /\ LinesAreTrue(plan)
        /\ \A i \in DOMAIN items : Rank(OnGitHub, items[i].name) <= (page - 1) * PerPage
    BY <1>1 DEF IInv, QuietSince
  <2>2. LinesAreTrue(items)' /\ LinesAreTrue(plan)'
    BY <1>1, <2>1 DEF LinesAreTrue, OnGitHub
  <2>3. \A i \in DOMAIN items' : Rank(OnGitHub', items'[i].name) <= (page' - 1) * PerPage
    BY <1>1, <2>1 DEF OnGitHub
  <2>4. \A i \in DOMAIN plan : plan[i].name \notin existing' => mirror[plan[i].name] = Gone
    BY <1>1, <1>2, LinesAre
  <2>5. QED BY <1>1, <2>1, <2>2, <2>3, <2>4 DEF QuietSince, Rank
<1>10. QED BY <1>3, <1>4, <1>5, <1>6, <1>7, <1>8, <1>9 DEF IInv

LEMMA ListingFailsKeeps == ASSUME IInv, ListingFails \/ Killed PROVE IInv'
<1>1. Ends /\ failed' = TRUE /\ excuse' = TRUE
  BY DEF ListingFails, Killed, Fault
<1>2. failed' \in BOOLEAN /\ excuse' \in BOOLEAN
  BY <1>1, Zenon
<1>3. faults' \in 0 .. MaxFaults
  BY ConstantsAre DEF IInv, TypeOK, ListingFails, Killed, Fault
<1>4. QED BY <1>1, <1>2, <1>3, EndKeeps

LEMMA SyncEndsKeeps == ASSUME IInv, SyncEnds PROVE IInv'
<1>1. Ends /\ failed' = failed /\ excuse' = excuse /\ faults' = faults
  BY DEF SyncEnds
<1>2. failed \in BOOLEAN /\ excuse \in BOOLEAN /\ faults \in 0 .. MaxFaults
  BY TypesAre DEF IInv, TypeOK
<1>3. failed => excuse \/ there = {}
  BY DEF IInv, FailsForAReason
<1>4. QED BY <1>1, <1>2, <1>3, EndKeeps

-----------------------------------------------------------------------------
(* The lines.                                                              *)

\* The lines after the first.
LEMMA Tailed ==
    ASSUME NEW T, NEW s \in Seq(T), s # <<>>
    PROVE  /\ Tail(s) \in Seq(T) /\ 1 \in DOMAIN s /\ Head(s) = s[1]
           /\ \A i \in DOMAIN Tail(s) : /\ i + 1 \in DOMAIN s /\ i + 1 # 1 /\ i \in Int
                                        /\ Tail(s)[i] = s[i + 1]
           /\ \A i \in DOMAIN s : i # 1 => /\ i - 1 \in DOMAIN Tail(s)
                                           /\ Tail(s)[i - 1] = s[i]
<1>1. /\ Len(s) \in Nat /\ Len(s) > 0 /\ DOMAIN s = 1 .. Len(s)
      /\ Tail(s) \in Seq(T) /\ Len(Tail(s)) = Len(s) - 1 /\ Head(s) = s[1]
  OBVIOUS
<1>2. DOMAIN Tail(s) = 1 .. Len(s) - 1
  BY <1>1
<1>3. \A i \in 1 .. Len(s) - 1 : Tail(s)[i] = s[i + 1]
  OBVIOUS
<1>4. \A i \in DOMAIN Tail(s) : i + 1 \in DOMAIN s /\ i + 1 # 1 /\ i \in Int
  BY <1>1, <1>2
<1>5. ASSUME NEW i \in DOMAIN s, i # 1
      PROVE  i - 1 \in DOMAIN Tail(s) /\ Tail(s)[i - 1] = s[i]
  <2>1. i - 1 \in 1 .. Len(s) - 1 /\ (i - 1) + 1 = i
    BY <1>1, <1>5
  <2>2. QED BY <1>2, <1>3, <2>1
<1>6. QED BY <1>1, <1>2, <1>3, <1>4, <1>5

\* The line being read is of a repository in scope.
LEMMA AtHead ==
    ASSUME TypeOK, plan # <<>>, NEW r, r = Head(plan).name
    PROVE  /\ r \in Repo /\ r \notin Forks
           /\ 1 \in DOMAIN plan /\ Head(plan) = plan[1]
           /\ Head(plan).pushed \in Int
<1>1. PICK T : T = {l \in Line : l.name \notin Forks}
  OBVIOUS
<1>2. plan \in Seq(T)
  BY <1>1 DEF TypeOK
<1>3. 1 \in DOMAIN plan /\ Head(plan) = plan[1]
  BY <1>2, Tailed
<1>4. plan[1] \in T
  BY <1>2, <1>3
<1>5. plan \in Seq(Line)
  BY TypesAre
<1>6. QED BY <1>1, <1>3, <1>4, <1>5, LinesAre

\* A line has been read.
LEMMA LineKeeps ==
    ASSUME IInv, pc \in {"line", "compare"}, plan # <<>>, NEW r, r = Head(plan).name,
           NextLine, WorldMoves, upstream' = upstream,
           faults' \in 0 .. MaxFaults, failed' \in BOOLEAN, excuse' \in BOOLEAN,
           failed' => excuse' \/ there = {},
           ~ failed' => ~ failed /\ (r \in there => Checked(r)'),
           ~ excuse' => ~ excuse /\ \A q \in Repo : q # r => mirror'[q] = mirror[q]
    PROVE  IInv'
<1>1. /\ plan' = Tail(plan) /\ pc' = "line" /\ read' = Gone
      /\ UNCHANGED <<now, pushedAt, stuck, began, page, items, syncAt, existing, changes,
                     there, shifted>>
  BY DEF NextLine
<1>2. /\ plan \in Seq({l \in Line : l.name \notin Forks}) /\ plan \in Seq(Line)
      /\ shifted \in BOOLEAN /\ OnGitHub' = OnGitHub
  BY TypesAre DEF IInv, TypeOK, OnGitHub
<1>3. PICK t : t = Tail(plan)
  OBVIOUS
<1>4. /\ 1 \in DOMAIN plan /\ plan[1].name = r
      /\ \A i \in DOMAIN t : i + 1 \in DOMAIN plan /\ i + 1 # 1 /\ i \in Int /\ t[i] = plan[i + 1]
      /\ \A i \in DOMAIN plan : i # 1 => i - 1 \in DOMAIN t /\ t[i - 1] = plan[i]
  BY <1>2, <1>3, Tailed
<1>5. t \in Seq({l \in Line : l.name \notin Forks})
  BY <1>2, <1>3, Tailed
<1>6. TypeOK'
  <2>1. {failed', shifted', excuse'} \subseteq BOOLEAN
    BY <1>1, <1>2, Zenon
  <2>2. read' \in Refs \union {Gone} /\ pc' \in {"idle", "list", "mirrors", "line", "compare"}
    BY <1>1
  <2>3. TypeOK
    BY DEF IInv
  <2>4. QED BY <1>1, <1>3, <1>5, <2>1, <2>2, <2>3 DEF TypeOK, WorldMoves
<1>7. WorldIsSane'
  BY WorldKeeps
<1>8. JobIsSane'
  <2>1. \A q \in existing : mirror'[q] # Gone
    <3>1. existing \subseteq Repo /\ \A q \in existing : mirror[q] # Gone
      BY DEF IInv, TypeOK, JobIsSane
    <3>2. QED BY <3>1 DEF WorldMoves, HistoryFollows
  <2>2. QED BY <1>1, <2>1 DEF IInv, JobIsSane
<1>9. LinesArePast(items)' /\ LinesArePast(plan)'
  BY <1>1, <1>3, <1>4 DEF IInv, LinesArePast
<1>10. NothingIsPassedOver'
  <2> SUFFICES ASSUME ~ shifted, ~ failed', NEW q \in there
               PROVE  Listed(t, q) \/ Checked(q)'
    BY <1>1, <1>3 DEF NothingIsPassedOver, Listed
  <2>1. CASE q = r
    BY <2>1
  <2>2. CASE q # r /\ Listed(plan, q)
    <3>1. PICK i \in DOMAIN plan : plan[i].name = q
      BY <2>2 DEF Listed
    <3>2. i # 1
      BY <1>4, <2>2, <3>1
    <3>3. QED BY <1>4, <3>1, <3>2 DEF Listed
  <2>3. CASE Checked(q)
    <3>1. q \in there' /\ syncAt' = syncAt
      BY <1>1
    <3>2. QED BY <2>3, <3>1, WorldKeeps
  <2>4. Listed(plan, q) \/ Checked(q)
    BY DEF IInv, NothingIsPassedOver
  <2>5. QED BY <2>1, <2>2, <2>3, <2>4
<1>11. ReadDiffers' /\ FailsForAReason'
  BY <1>1 DEF ReadDiffers, FailsForAReason
<1>12. QuietSince'
  <2> SUFFICES ASSUME ~ excuse' PROVE QuietSince'
    BY DEF QuietSince
  <2>1. /\ stuck = {} /\ ~ shifted
        /\ \A q \in Repo : behind[q] # InStep => now = began /\ began - pushedAt[q] <= Margin
        /\ LinesAreTrue(items) /\ LinesAreTrue(plan)
        /\ \A i \in DOMAIN items : Rank(OnGitHub, items[i].name) <= (page - 1) * PerPage
        /\ \A i \in DOMAIN plan :
               plan[i].name \notin existing => mirror[plan[i].name] = Gone
    BY DEF IInv, QuietSince
  <2>2. \A q \in Repo : behind'[q] # InStep => behind[q] # InStep
    BY DEF WorldMoves, HistoryFollows
  <2>3. LinesAreTrue(items)'
    BY <1>1, <1>2, <2>1 DEF LinesAreTrue
  <2>4. LinesAreTrue(plan)'
    <3>1. \A i \in DOMAIN t : t[i].name \in OnGitHub /\ t[i].pushed = pushedAt[t[i].name]
      BY <1>4, <2>1 DEF LinesAreTrue
    <3>2. ASSUME NEW i \in DOMAIN t, NEW j \in DOMAIN t, t[i].name = t[j].name PROVE i = j
      <4>1. i + 1 \in DOMAIN plan /\ j + 1 \in DOMAIN plan /\ plan[i + 1].name = plan[j + 1].name
        BY <1>4, <3>2
      <4>2. i + 1 = j + 1
        BY <2>1, <4>1 DEF LinesAreTrue
      <4>3. QED BY <1>4, <4>2
    <3>3. QED BY <1>1, <1>2, <1>3, <3>1, <3>2 DEF LinesAreTrue
  <2>5. ASSUME NEW i \in DOMAIN t, t[i].name \notin existing PROVE mirror'[t[i].name] = Gone
    <3>1. i + 1 \in DOMAIN plan /\ i + 1 # 1 /\ t[i] = plan[i + 1]
      BY <1>4
    <3>2. t[i].name # r
      BY <1>4, <2>1, <3>1 DEF LinesAreTrue
    <3>3. mirror[t[i].name] = Gone /\ t[i].name \in Repo
      BY <1>2, <2>1, <2>5, <3>1, LinesAre
    <3>4. QED BY <3>2, <3>3
  <2>6. \A i \in DOMAIN items' : Rank(OnGitHub', items'[i].name) <= (page' - 1) * PerPage
    BY <1>1, <1>2, <2>1
  <2>7. QED BY <1>1, <1>3, <2>1, <2>2, <2>3, <2>4, <2>5, <2>6 DEF QuietSince, Rank
<1>13. QED BY <1>6, <1>7, <1>8, <1>9, <1>10, <1>11, <1>12 DEF IInv

\* What an import makes of the mirrors.
LEMMA Imported ==
    ASSUME IInv, ToImport, NEW r, r = Head(plan).name, NEW v \in {Gone, upstream[r]},
           mirror[r] = Gone, Become(upstream, [mirror EXCEPT ![r] = v]), NextLine
    PROVE  /\ WorldMoves /\ upstream' = upstream
           /\ mirror' = [mirror EXCEPT ![r] = v]
           /\ \A q \in Repo : q # r => mirror'[q] = mirror[q]
<1>1. r \in Repo /\ r \notin Forks
  BY AtHead DEF IInv, ToImport, AtLine
<1>2. /\ mirror \in [Repo -> Refs \union {Gone}] /\ upstream \in [Repo -> Refs \union {Gone}]
      /\ now \in 0 .. MaxTime /\ now \in Nat /\ stuck \subseteq Repo
      /\ \A q \in Forks : mirror[q] = Gone
  BY TypesAre DEF IInv, TypeOK, WorldIsSane
<1>3. PICK m : m = [mirror EXCEPT ![r] = v]
  OBVIOUS
<1>4. /\ m \in [Repo -> Refs \union {Gone}]
      /\ \A q \in Repo : q # r => m[q] = mirror[q]
      /\ m[r] = v
  BY <1>1, <1>2, <1>3
<1>5. /\ \A q \in Repo : /\ mirror[q] # Gone => m[q] # Gone
                         /\ m[q] # mirror[q] => m[q] = upstream[q]
      /\ \A q \in Forks : m[q] = Gone
  BY <1>1, <1>2, <1>4, ConstantsAre
<1>6. /\ now' \in 0 .. MaxTime /\ now <= now' /\ stuck' \subseteq Repo
      /\ UNCHANGED <<pushedAt, there, shifted, began>>
  BY <1>2 DEF NextLine
<1>7. Become(upstream, m)
  BY <1>3
<1>8. TypeOK /\ WorldIsSane
  BY DEF IInv
<1>9. WorldMoves
  BY <1>4, <1>5, <1>6, <1>7, <1>8, MirrorMoves
<1>10. upstream' = upstream /\ mirror' = m
  BY <1>7 DEF Become
<1>11. QED BY <1>3, <1>4, <1>9, <1>10

LEMMA ImportKeeps == ASSUME IInv, Import PROVE IInv'
<1>1. PICK r, v : r = Head(plan).name /\ v = upstream[r]
  OBVIOUS
<1>2. /\ ToImport /\ r \in OnGitHub /\ mirror[r] = Gone
      /\ Become(upstream, [mirror EXCEPT ![r] = v])
      /\ NextLine /\ failed' = failed /\ faults' = faults /\ excuse' = excuse
      /\ pc = "line" /\ plan # <<>>
  BY <1>1 DEF Import, ToImport, AtLine
<1>3. /\ WorldMoves /\ upstream' = upstream
      /\ mirror' = [mirror EXCEPT ![r] = v]
      /\ \A q \in Repo : q # r => mirror'[q] = mirror[q]
  BY <1>1, <1>2, Imported
<1>4. Checked(r)'
  <2>1. r \in Repo /\ v # Gone /\ mirror'[r] = v
    BY <1>1, <1>2, <1>3 DEF OnGitHub, IInv, TypeOK
  <2>2. behind'[r] = InStep
    BY <1>1, <1>3, <2>1 DEF WorldMoves, HistoryFollows
  <2>3. QED BY <2>1, <2>2 DEF Checked
<1>5. failed \in BOOLEAN /\ excuse \in BOOLEAN /\ faults \in 0 .. MaxFaults
  BY TypesAre DEF IInv, TypeOK
<1>6. failed => excuse \/ there = {}
  BY DEF IInv, FailsForAReason
<1>7. QED BY <1>1, <1>2, <1>3, <1>4, <1>5, <1>6, LineKeeps

\* A line that nothing has happened to is true.
LEMMA HeadIsTrue ==
    ASSUME IInv, pc \in {"line", "compare"}, plan # <<>>, ~ excuse
    PROVE  /\ Head(plan).name \in OnGitHub
           /\ Head(plan).pushed = pushedAt[Head(plan).name]
           /\ Head(plan).name \notin existing => mirror[Head(plan).name] = Gone
<1>1. PICK r : r = Head(plan).name
  OBVIOUS
<1>2. 1 \in DOMAIN plan /\ Head(plan) = plan[1]
  BY <1>1, AtHead DEF IInv
<1>3. /\ LinesAreTrue(plan)
      /\ \A i \in DOMAIN plan : plan[i].name \notin existing => mirror[plan[i].name] = Gone
  BY DEF IInv, QuietSince
<1>4. QED BY <1>2, <1>3 DEF LinesAreTrue

LEMMA ImportFailsKeeps == ASSUME IInv, ImportFails PROVE IInv'
<1>1. PICK r : r = Head(plan).name
  OBVIOUS
<1>2. /\ ToImport /\ NextLine /\ failed' = TRUE
      /\ pc = "line" /\ plan # <<>> /\ r \notin existing
  BY <1>1 DEF ImportFails, ToImport, AtLine
<1>3. failed' \in BOOLEAN /\ TRUE \in BOOLEAN
  BY <1>2, Zenon
<1>4. CASE /\ r \notin OnGitHub \/ mirror[r] # Gone
           /\ UNCHANGED <<upstream, mirror, behind, faults, excuse>>
  <2>1. excuse
    BY <1>1, <1>2, <1>4, HeadIsTrue
  <2>2. WorldMoves
    <3>1. /\ UNCHANGED <<now, upstream, mirror, behind, pushedAt, there, shifted, began>>
          /\ stuck' \subseteq Repo
      BY <1>2, <1>4 DEF NextLine, IInv, TypeOK
    <3>2. QED BY <3>1, StandsStill DEF IInv
  <2>3. excuse \in BOOLEAN /\ faults \in 0 .. MaxFaults
    BY TypesAre DEF IInv, TypeOK
  <2>4. QED BY <1>1, <1>2, <1>3, <1>4, <2>1, <2>2, <2>3, LineKeeps
<1>5. CASE /\ r \in OnGitHub /\ mirror[r] = Gone
           /\ \E v \in {Gone, upstream[r]} : Become(upstream, [mirror EXCEPT ![r] = v])
           /\ Fault
  <2>1. PICK v \in {Gone, upstream[r]} : Become(upstream, [mirror EXCEPT ![r] = v])
    BY <1>5
  <2>2. WorldMoves /\ upstream' = upstream
    BY <1>1, <1>2, <1>5, <2>1, Imported
  <2>3. excuse' = TRUE /\ faults' \in 0 .. MaxFaults
    BY <1>5, ConstantsAre DEF Fault, IInv, TypeOK
  <2>4. QED BY <1>1, <1>2, <1>3, <2>2, <2>3, LineKeeps
<1>6. QED BY <1>1, <1>4, <1>5 DEF ImportFails

LEMMA ReadUpstreamKeeps == ASSUME IInv, ReadUpstream PROVE IInv'
<1>1. PICK r : r = Head(plan).name
  OBVIOUS
<1>2. /\ pc = "line" /\ plan # <<>> /\ r \in existing /\ r \in OnGitHub
      /\ read' = upstream[r] /\ pc' = "compare"
      /\ UNCHANGED <<began, page, items, plan, syncAt, existing, failed,
                     changes, faults, there, shifted, excuse>>
      /\ now' = now /\ upstream' = upstream /\ pushedAt' = pushedAt /\ mirror' = mirror
      /\ stuck' = stuck /\ behind' = behind
  BY <1>1 DEF ReadUpstream, ToCompare, AtLine, world
<1>3. TypeOK'
  <2>1. r \in Repo /\ {failed, shifted, excuse} \subseteq BOOLEAN /\ TypeOK
    BY <1>1, <1>2, AtHead, Zenon DEF IInv, TypeOK
  <2>2. read' \in Refs \union {Gone} /\ pc' \in {"idle", "list", "mirrors", "line", "compare"}
    BY <1>2, <2>1 DEF TypeOK
  <2>3. {failed', shifted', excuse'} \subseteq BOOLEAN
    BY <1>2, <2>1, Zenon
  <2>4. QED BY <1>2, <2>1, <2>2, <2>3 DEF TypeOK
<1>4. WorldIsSane'
  BY <1>2 DEF IInv, WorldIsSane, OnGitHub
<1>5. JobIsSane'
  BY <1>1, <1>2 DEF IInv, JobIsSane
<1>6. LinesArePast(items)' /\ LinesArePast(plan)'
  BY <1>2 DEF IInv, LinesArePast
<1>7. NothingIsPassedOver'
  BY <1>2 DEF IInv, NothingIsPassedOver, Listed, Checked
<1>8. ReadDiffers'
  <2>1. r \in Repo
    BY <1>1, <1>2, AtHead DEF IInv
  <2>2. behind[r] # InStep => upstream[r] # mirror[r]
    BY <2>1 DEF IInv, WorldIsSane
  <2>3. QED BY <1>1, <1>2, <2>2 DEF ReadDiffers
<1>9. FailsForAReason'
  BY <1>2 DEF IInv, FailsForAReason
<1>10. QuietSince'
  <2> SUFFICES ASSUME ~ excuse PROVE QuietSince'
    BY <1>2 DEF QuietSince
  <2>1. /\ stuck = {} /\ ~ shifted
        /\ \A q \in Repo : behind[q] # InStep => now = began /\ began - pushedAt[q] <= Margin
        /\ LinesAreTrue(items) /\ LinesAreTrue(plan)
        /\ \A i \in DOMAIN items : Rank(OnGitHub, items[i].name) <= (page - 1) * PerPage
        /\ \A i \in DOMAIN plan :
               plan[i].name \notin existing => mirror[plan[i].name] = Gone
    BY <1>2 DEF IInv, QuietSince
  <2>2. LinesAreTrue(items)' /\ LinesAreTrue(plan)'
    BY <1>2, <2>1 DEF LinesAreTrue, OnGitHub
  <2>3. \A i \in DOMAIN items' : Rank(OnGitHub', items'[i].name) <= (page' - 1) * PerPage
    BY <1>2, <2>1 DEF OnGitHub
  <2>4. QED BY <1>1, <1>2, <2>1, <2>2, <2>3 DEF QuietSince, Rank
<1>11. QED BY <1>3, <1>4, <1>5, <1>6, <1>7, <1>8, <1>9, <1>10 DEF IInv

\* A line is read and the refs stay as they are.
LEMMA LineMoves == ASSUME IInv, NextLine, UNCHANGED <<upstream, mirror, behind>> PROVE WorldMoves
<1>1. /\ UNCHANGED <<now, upstream, mirror, behind, pushedAt, there, shifted, began>>
      /\ stuck' \subseteq Repo
  BY DEF NextLine, IInv, TypeOK
<1>2. QED BY <1>1, StandsStill DEF IInv

LEMMA ReadMirrorKeeps == ASSUME IInv, ReadMirror PROVE IInv'
<1>1. PICK line, r : line = Head(plan) /\ r = line.name
  OBVIOUS
<1>2. /\ pc = "compare" /\ failed' = (failed \/ Stale(line)) /\ NextLine
      /\ UNCHANGED <<upstream, mirror, behind, faults, excuse>>
      /\ plan # <<>> /\ r \in existing /\ mirror[r] # Gone
  BY <1>1 DEF ReadMirror, IInv, JobIsSane
<1>3. /\ r \in Repo /\ 1 \in DOMAIN plan /\ line = plan[1] /\ line.pushed \in Int
      /\ pushedAt[r] \in Int /\ behind[r] \in Int
      /\ syncAt \in Nat /\ began \in Nat /\ now \in Nat /\ Margin \in Nat
      /\ began <= syncAt /\ syncAt <= now
  <2>1. r \in Repo /\ 1 \in DOMAIN plan /\ line = plan[1] /\ line.pushed \in Int
    BY <1>1, <1>2, AtHead DEF IInv
  <2>2. QED BY <1>2, <2>1, TypesAre, ConstantsAre DEF IInv, JobIsSane
<1>4. ASSUME ~ Stale(line), r \in there PROVE Checked(r)'
  <2>1. ASSUME behind[r] # InStep, behind[r] < began PROVE syncAt - pushedAt[r] <= Margin
    <3>1. read # mirror[r]
      BY <1>1, <1>2, <1>4, <2>1 DEF IInv, ReadDiffers
    <3>2. ~(syncAt - line.pushed > Margin)
      BY <1>1, <1>4, <3>1 DEF Stale
    <3>3. line.pushed <= pushedAt[r]
      BY <1>1, <1>3, <1>4 DEF IInv, LinesArePast
    <3>4. QED BY <1>3, <3>2, <3>3
  <2>2. QED BY <1>2, <2>1 DEF Checked, NextLine
<1>5. ASSUME Stale(line) PROVE excuse
  <2> SUFFICES ASSUME ~ excuse PROVE FALSE
    OBVIOUS
  <2>1. read # mirror[r] /\ syncAt - line.pushed > Margin
    BY <1>1, <1>5 DEF Stale
  <2>2. r \in OnGitHub /\ line.pushed = pushedAt[r]
    BY <1>1, <1>2, HeadIsTrue
  <2>3. read = upstream[r]
    BY <1>1, <1>2 DEF IInv, QuietSince
  <2>4. behind[r] # InStep
    BY <1>2, <1>3, <2>1, <2>2, <2>3 DEF OnGitHub, IInv, WorldIsSane
  <2>5. now = began /\ began - pushedAt[r] <= Margin
    BY <1>2, <1>3, <2>4 DEF IInv, QuietSince
  <2>6. QED BY <1>3, <2>1, <2>2, <2>5
<1>6. failed' \in BOOLEAN
  BY <1>2, Zenon
<1>7. excuse \in BOOLEAN /\ faults \in 0 .. MaxFaults /\ failed \in BOOLEAN
  BY TypesAre DEF IInv, TypeOK
<1>8. failed' => excuse' \/ there = {}
  BY <1>2, <1>5 DEF IInv, FailsForAReason
<1>9. ~ failed' => ~ failed /\ (r \in there => Checked(r)')
  BY <1>2, <1>4
<1>10. WorldMoves
  BY <1>2, LineMoves
<1>11. QED BY <1>1, <1>2, <1>6, <1>7, <1>8, <1>9, <1>10, LineKeeps

LEMMA ReadFailsKeeps == ASSUME IInv, ReadFails PROVE IInv'
<1>1. PICK r : r = Head(plan).name
  OBVIOUS
<1>2. /\ pc \in {"line", "compare"} /\ plan # <<>> /\ failed' = TRUE /\ NextLine
      /\ UNCHANGED <<upstream, mirror, behind>>
  BY DEF ReadFails, ToCompare, AtLine, IInv, JobIsSane
<1>3. excuse' = TRUE /\ faults' \in 0 .. MaxFaults
  <2>1. CASE ToCompare /\ r \notin OnGitHub /\ UNCHANGED <<faults, excuse>>
    <3>1. excuse
      BY <1>1, <1>2, <2>1, HeadIsTrue
    <3>2. excuse \in BOOLEAN /\ faults \in 0 .. MaxFaults
      BY TypesAre DEF IInv, TypeOK
    <3>3. QED BY <2>1, <3>1, <3>2
  <2>2. CASE Fault
    BY <2>2, ConstantsAre DEF Fault, IInv, TypeOK
  <2>3. QED BY <1>1, <2>1, <2>2 DEF ReadFails
<1>4. failed' \in BOOLEAN /\ TRUE \in BOOLEAN
  BY <1>2, Zenon
<1>5. WorldMoves
  BY <1>2, LineMoves
<1>6. QED BY <1>1, <1>2, <1>3, <1>4, <1>5, LineKeeps

-----------------------------------------------------------------------------
(* The theorems.                                                           *)

LEMMA NextKeeps == IInv /\ [Next]_vars => IInv'
<1> SUFFICES ASSUME IInv, [Next]_vars PROVE IInv'
  OBVIOUS
<1>1. CASE Outside
  BY <1>1, OutsideStep
<1>2. CASE JobStep
  BY <1>2, StartKeeps, FetchKeeps, ListingFailsKeeps, ListMirrorsKeeps, ImportKeeps,
     ImportFailsKeeps, ReadUpstreamKeeps, ReadMirrorKeeps, ReadFailsKeeps, SyncEndsKeeps
     DEF JobStep
<1>3. CASE UNCHANGED vars
  BY <1>3, StutterKeeps
<1>4. QED BY <1>1, <1>2, <1>3 DEF Next

\* The invariant holds for all repositories, forks, page lengths, margins,
\* periods and deadlines: what the pages listed and the lines read have made
\* sure of stays so while GitHub and Soft Serve's own sync go on.
THEOREM InductiveInvariant == Spec => []IInv
<1>1. QED BY InitIInv, NextKeeps, PTL DEF Spec

\* The variables keep their types: in particular get() asks for no more pages
\* than there are repositories and one, and neither the plan nor the mirrors at
\* the sync's start name a fork.
THEOREM TypeCorrect == Spec => []TypeOK
<1>1. IInv => TypeOK
  BY DEF IInv
<1>2. QED BY <1>1, InductiveInvariant, PTL

\* A job that succeeds leaves no repository in scope that was there all along
\* without a mirror, and no mirror that was behind all along without a push in
\* the last hour, however the requests of mirror_plan.py and mirror_sync.sh
\* fell between what happened on either side.
THEOREM PassesAreDeserved == Spec => []PassIsDeserved
<1>1. IInv => PassIsDeserved
  <2> SUFFICES ASSUME IInv, Passes, ~ shifted, NEW r \in there PROVE Checked(r)
    BY DEF PassIsDeserved, Checked
  <2>1. Listed(plan, r) \/ Checked(r)
    BY DEF Passes, IInv, NothingIsPassedOver
  <2>2. QED BY <2>1 DEF Passes, Listed
<1>2. QED BY <1>1, InductiveInvariant, PTL

\* A job that fails has met something that may fail it, or had nothing to do:
\* a repository pushed to within the margin, one just mirrored and one that is
\* gone do not.
THEOREM FailuresHaveReasons == Spec => []FailsForAReason
<1>1. IInv => FailsForAReason
  BY DEF IInv
<1>2. QED BY <1>1, InductiveInvariant, PTL
=============================================================================
