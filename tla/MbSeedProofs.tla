---------------------------- MODULE MbSeedProofs ----------------------------
(***************************************************************************)
(* What mb-seed's ledger and covers keep, for any ports, any books, any    *)
(* manifests and any number of starts.  The inductive invariant adds what  *)
(* an open tab knows of the queue it was opened from, and that a torn      *)
(* ledger leaves no entry anyone relies on.                                *)
(***************************************************************************)
EXTENDS MbSeed, WellFoundedInduction, TLAPS

TornExposes == torn => exposed = Books

\* A tab of the server that runs now still names the book it was seeded from.
TabsFollow ==
    \A t \in tabs :
        /\ t.release \in DOMAIN releases
        /\ t.run <= starts[t.server]
        /\ t.server \in up /\ t.run = starts[t.server] =>
              /\ t.at \in DOMAIN queue[t.server]
              /\ queue[t.server][t.at] = releases[t.release]

OwnEntries ==
    /\ SeededFromOwn(ledger)
    /\ \A s \in Servers : SeededFromOwn(entries[s])

IInv ==
    /\ TypeOK
    /\ RecordedStays
    /\ TornExposes
    /\ TabsFollow
    /\ OwnEntries
    /\ SavedArtIsWhole

-----------------------------------------------------------------------------
\* Every initial state satisfies the inductive invariant.
LEMMA InitIInv == Init => IInv
<1> SUFFICES ASSUME Init PROVE IInv
  OBVIOUS
<1>1. TypeOK
  <2>1. NoEntries \in Entries
    BY DEF NoEntries, Entries
  <2>2. starts \in [Servers -> 0 .. MaxStarts] /\ MaxRelease \in Nat
    BY MbSeedAssumption DEF Init
  <2>3. queue = [s \in Servers |-> <<>>] /\ <<>> \in Seq(Books)
    BY DEF Init
  <2>4. releases \in Seq(Books) /\ Len(releases) <= MaxRelease
    BY <2>2 DEF Init
  <2>5. QED BY <2>1, <2>2, <2>3, <2>4 DEF Init, TypeOK
<1>2. OwnEntries
  BY DEF Init, OwnEntries, SeededFromOwn, NoEntries
<1>3. RecordedStays /\ TornExposes /\ TabsFollow /\ SavedArtIsWhole
  BY DEF Init, RecordedStays, TornExposes, TabsFollow, SavedArtIsWhole
<1>4. QED BY <1>1, <1>2, <1>3 DEF IInv

\* A server that goes down leaves every other as it was.
LEMMA DownTypes ==
    ASSUME TypeOK, NEW s \in Servers, Down(s)
    PROVE  /\ up' \in SUBSET Servers
           /\ starts' \in [Servers -> 0 .. MaxStarts]
           /\ DOMAIN queue' = Servers
           /\ \A q \in Servers : queue'[q] \in Seq(Books)
           /\ entries' \in [Servers -> Entries]
BY DEF TypeOK, Down, NoEntries, Entries

\* Adding a file to covers/ leaves the others as they were.
LEMMA HoldingOne ==
    ASSUME NEW files, NEW f, NEW art
    PROVE  /\ DOMAIN Holding(files, f, art) = DOMAIN files \cup {f}
           /\ Holding(files, f, art)[f] = art
           /\ \A g \in DOMAIN files \ {f} : Holding(files, f, art)[g] = files[g]
BY DEF Holding

\* So covers/ keeps its type when a book's art is saved.
LEMMA HoldingTypes ==
    ASSUME TypeOK, NEW b \in Books, NEW art \in Art,
           covers' = Holding(covers, CoverName[b], art)
    PROVE  /\ DOMAIN covers' \in SUBSET Names
           /\ \A f \in DOMAIN covers' : covers'[f] \in Art
<1>1. CoverName[b] \in Names
  BY DEF Names
<1>2. DOMAIN covers' = DOMAIN covers \cup {CoverName[b]}
  BY DEF Holding
<1>3. \A f \in DOMAIN covers' : covers'[f] = art \/ covers'[f] = covers[f]
  BY <1>2 DEF Holding
<1>4. \A f \in DOMAIN covers' \ DOMAIN covers : covers'[f] = art
  BY <1>2 DEF Holding
<1>5. QED BY <1>1, <1>2, <1>3, <1>4 DEF TypeOK

-----------------------------------------------------------------------------
\* Every step keeps the types.
LEMMA NextTypes == TypeOK /\ [Next]_vars => TypeOK'
<1> SUFFICES ASSUME TypeOK, [Next]_vars PROVE TypeOK'
  OBVIOUS
<1> USE MbSeedAssumption
<1>1. ASSUME NEW s \in Servers, Start(s) PROVE TypeOK'
  BY <1>1 DEF TypeOK, Start, Offers, seedVars, coverVars
<1>2. ASSUME NEW s \in Servers, Stop(s) PROVE TypeOK'
  BY <1>2, DownTypes DEF TypeOK, Stop, seedVars, coverVars
<1>3. ASSUME NEW s \in Servers, NEW i \in Books, Seed(s, i) PROVE TypeOK'
  <2>1. BookAt(queue[s], entries[s], i) \in Books
    BY <1>3 DEF TypeOK, Seed, BookAt
  <2>2. releases' \in Seq(Books) /\ Len(releases') <= MaxRelease
    BY <1>3, <2>1 DEF TypeOK, Seed
  <2>3. [server |-> s, run |-> starts[s], at |-> i, release |-> Len(releases) + 1]
            \in Tab
    BY <1>3 DEF TypeOK, Seed, Tab, Release
  <2>4. QED BY <1>3, <2>2, <2>3 DEF TypeOK, Seed, serverVars, ledgerVars, coverVars
<1>4. ASSUME NEW s \in Servers, NEW i \in Books, SaveCover(s, i) PROVE TypeOK'
  <2>1. queue[s][i] \in Books
    BY <1>4 DEF TypeOK, SaveCover, ToSave
  <2>2. PICK art \in Fetched(queue[s][i]) :
            covers' = Holding(covers, CoverName[queue[s][i]], art)
    BY <1>4 DEF SaveCover
  <2>3. art \in Art
    BY <2>1 DEF Fetched, Art
  <2>4. QED
    BY <1>4, <2>1, <2>2, <2>3, HoldingTypes
       DEF TypeOK, SaveCover, serverVars, ledgerVars, seedVars
<1>5. ASSUME NEW s \in Servers, NEW i \in Books, SaveCoverCut(s, i) PROVE TypeOK'
  <2>1. queue[s][i] \in Books
    BY <1>5 DEF TypeOK, SaveCoverCut, ToSave
  <2>2. [of |-> queue[s][i], whole |-> FALSE] \in Art
    BY <2>1 DEF Art
  <2>3. /\ DOMAIN covers' \in SUBSET Names
        /\ \A f \in DOMAIN covers' : covers'[f] \in Art
    BY <1>5, <2>1, <2>2, HoldingTypes DEF SaveCoverCut
  <2>4. cut' \in SUBSET Names
    BY <1>5, <2>1 DEF SaveCoverCut, TypeOK, Names
  <2>5. Down(s)
    BY <1>5 DEF SaveCoverCut
  <2>6. QED BY <1>5, <2>3, <2>4, <2>5, DownTypes DEF TypeOK, SaveCoverCut, seedVars
<1>6. ASSUME NEW t \in tabs, Capture(t) PROVE TypeOK'
  <2> DEFINE s == t.server
             b == BookAt(queue[s], entries[s], t.at)
  <2>1. s \in Servers /\ t.release \in Release
    BY DEF TypeOK, Tab
  <2>2. b \in Books
    BY <1>6, <2>1 DEF TypeOK, Capture, BookAt
  <2>3. ledger' \in Entries /\ answered' \in Entries
    BY <1>6, <2>1, <2>2 DEF TypeOK, Capture, Record, Entries
  <2>4. entries' \in [Servers -> Entries]
    BY <1>6, <2>1, <2>3 DEF TypeOK, Capture
  <2>5. exposed' \in SUBSET Books /\ misled' \in SUBSET Release /\ torn' \in BOOLEAN
    BY <1>6, <2>1, <2>2 DEF TypeOK, Capture
  <2>6. UNCHANGED <<serverVars, seedVars, coverVars>>
    BY <1>6 DEF Capture
  <2>7. QED
    BY <2>3, <2>4, <2>5, <2>6 DEF TypeOK, serverVars, seedVars, coverVars
<1>7. ASSUME NEW t \in tabs, CaptureCut(t) PROVE TypeOK'
  <2>1. t.server \in Servers /\ Down(t.server)
    BY <1>7 DEF TypeOK, Tab, CaptureCut
  <2>2. QED BY <1>7, <2>1, DownTypes DEF TypeOK, CaptureCut, seedVars, coverVars
<1>8. CASE DiscardTorn
  BY <1>8 DEF TypeOK, DiscardTorn, NoEntries, Entries, serverVars, seedVars, coverVars
<1>9. CASE UNCHANGED vars
  BY <1>9 DEF TypeOK, vars, serverVars, ledgerVars, seedVars, coverVars
<1>10. QED BY <1>1, <1>2, <1>3, <1>4, <1>5, <1>6, <1>7, <1>8, <1>9 DEF Next

-----------------------------------------------------------------------------
\* Every step keeps what was recorded, where no other server was up and no
\* write was cut short.
LEMMA NextRecorded ==
    TypeOK /\ RecordedStays /\ TornExposes /\ [Next]_vars
        => RecordedStays' /\ TornExposes'
<1> SUFFICES ASSUME TypeOK, RecordedStays, TornExposes, [Next]_vars
             PROVE  RecordedStays' /\ TornExposes'
  OBVIOUS
<1> USE DEF RecordedStays, TornExposes
<1>1. ASSUME NEW s \in Servers, Start(s) PROVE RecordedStays' /\ TornExposes'
  BY <1>1 DEF TypeOK, Start
<1>2. ASSUME NEW s \in Servers, Down(s),
             UNCHANGED <<ledger, torn, answered, exposed>>
      PROVE  RecordedStays' /\ TornExposes'
  BY <1>2 DEF TypeOK, Down
<1>3. ASSUME NEW s \in Servers, NEW i \in Books, Seed(s, i)
      PROVE  RecordedStays' /\ TornExposes'
  BY <1>3 DEF Seed, serverVars, ledgerVars
<1>4. ASSUME NEW s \in Servers, NEW i \in Books, SaveCover(s, i)
      PROVE  RecordedStays' /\ TornExposes'
  BY <1>4 DEF SaveCover, serverVars, ledgerVars
<1>5. ASSUME NEW t \in tabs, Capture(t) PROVE RecordedStays' /\ TornExposes'
  <2> DEFINE s == t.server
             b == BookAt(queue[s], entries[s], t.at)
  <2>1. s \in Servers /\ s \in up /\ t.release \in Release
    BY <1>5 DEF TypeOK, Tab, Capture
  <2>2. b \in Books
    BY <1>5, <2>1 DEF TypeOK, Capture, BookAt
  <2>3. /\ \A c \in Books : ledger'[c] = IF c = b THEN t.release ELSE entries[s][c]
        /\ \A c \in Books : answered'[c] = IF c = b THEN t.release ELSE answered[c]
    BY <1>5, <2>1, <2>2 DEF TypeOK, Capture, Record, Entries
  <2>4. entries'[s] = ledger' /\ \A q \in Servers \ {s} : entries'[q] = entries[q]
    BY <1>5, <2>1 DEF TypeOK, Capture
  <2>5. up' = up /\ exposed' = IF up = {s} THEN exposed \ {b} ELSE exposed \cup {b}
    BY <1>5 DEF Capture, serverVars
  <2>6. ASSUME NEW c \in Books \ exposed'
        PROVE  /\ ledger'[c] = answered'[c]
               /\ \A q \in up' : entries'[q][c] = answered'[c]
    <3>1. CASE c = b
      <4>1. up = {s}
        BY <2>5, <2>6, <3>1
      <4>2. QED BY <2>2, <2>3, <2>4, <2>5, <3>1, <4>1
    <3>2. CASE c # b
      <4>1. c \in Books \ exposed
        BY <2>5, <2>6, <3>2
      <4>2. \A q \in up : entries[q][c] = answered[c]
        BY <4>1
      <4>3. QED BY <2>1, <2>3, <2>4, <2>5, <3>2, <4>2 DEF TypeOK
    <3>3. QED BY <3>1, <3>2
  <2>7. torn' = FALSE
    BY <1>5 DEF Capture
  <2>8. QED BY <2>6, <2>7
<1>6. ASSUME NEW t \in tabs, CaptureCut(t) PROVE RecordedStays' /\ TornExposes'
  BY <1>6 DEF CaptureCut
<1>7. CASE DiscardTorn
  BY <1>7 DEF DiscardTorn, serverVars
<1>8. CASE UNCHANGED vars
  BY <1>8 DEF vars, serverVars, ledgerVars
<1>9. QED
  BY <1>1, <1>2, <1>3, <1>4, <1>5, <1>6, <1>7, <1>8
     DEF Next, Stop, SaveCoverCut

-----------------------------------------------------------------------------
\* A ledger still holds releases of its own books when more releases are made
\* and more are misled.
LEMMA OwnStays ==
    ASSUME NEW done, SeededFromOwn(done),
           DOMAIN releases \subseteq DOMAIN releases',
           \A r \in DOMAIN releases : releases'[r] = releases[r],
           misled \subseteq misled'
    PROVE  SeededFromOwn(done)'
BY DEF SeededFromOwn

\* Every step keeps the tabs with their queue, and each entry with its book.
LEMMA NextOwn ==
    TypeOK /\ TabsFollow /\ OwnEntries /\ [Next]_vars
        => TabsFollow' /\ OwnEntries'
<1> SUFFICES ASSUME TypeOK, TabsFollow, OwnEntries, [Next]_vars
             PROVE  TabsFollow' /\ OwnEntries'
  OBVIOUS
<1>1. ASSUME NEW s \in Servers, Start(s) PROVE TabsFollow' /\ OwnEntries'
  <2>1. OwnEntries'
    BY <1>1 DEF OwnEntries, SeededFromOwn, Start, TypeOK, seedVars
  <2>2. starts' = [starts EXCEPT ![s] = @ + 1] /\ starts[s] \in Nat
    BY <1>1 DEF Start, TypeOK
  <2>3. ASSUME NEW t \in tabs, t.server = s PROVE t.run < starts'[s]
    BY <2>2, <2>3 DEF TabsFollow, TypeOK, Tab
  <2>4. ASSUME NEW t \in tabs, t.server # s
        PROVE  /\ starts'[t.server] = starts[t.server]
               /\ queue'[t.server] = queue[t.server]
               /\ t.server \in up' <=> t.server \in up
    BY <1>1, <2>4 DEF Start, TypeOK, Tab
  <2>5. UNCHANGED <<tabs, releases>>
    BY <1>1 DEF Start, seedVars
  <2>6. \A t \in tabs : t.run \in Nat /\ t.server \in Servers
    BY DEF TypeOK, Tab
  <2>7. starts'[s] \in Nat
    BY <2>2 DEF TypeOK
  <2>8. TabsFollow'
    BY <2>3, <2>4, <2>5, <2>6, <2>7 DEF TabsFollow
  <2>9. QED BY <2>1, <2>8
<1>2. ASSUME NEW s \in Servers, Down(s),
             UNCHANGED <<ledger, misled, seedVars>>
      PROVE  TabsFollow' /\ OwnEntries'
  <2>1. SeededFromOwn(NoEntries)'
    BY DEF SeededFromOwn, NoEntries
  <2>2. OwnEntries'
    BY <1>2, <2>1 DEF OwnEntries, SeededFromOwn, Down, TypeOK, seedVars
  <2>3. TabsFollow'
    BY <1>2 DEF TabsFollow, Down, TypeOK, Tab, seedVars
  <2>4. QED BY <2>2, <2>3
<1>3. ASSUME NEW s \in Servers, NEW i \in Books, Seed(s, i)
      PROVE  TabsFollow' /\ OwnEntries'
  <2> DEFINE b == BookAt(queue[s], entries[s], i)
  <2>1. b \in Books
    BY <1>3 DEF TypeOK, Seed, BookAt
  <2>2. releases' = Append(releases, b) /\ UNCHANGED <<serverVars, ledgerVars>>
    BY <1>3 DEF Seed
  <2>3. /\ DOMAIN releases' = DOMAIN releases \cup {Len(releases) + 1}
        /\ \A r \in DOMAIN releases : releases'[r] = releases[r]
        /\ releases'[Len(releases) + 1] = b
    BY <2>1, <2>2 DEF TypeOK
  <2>4. OwnEntries'
    BY <2>2, <2>3, OwnStays DEF OwnEntries, ledgerVars
  <2>5. ASSUME NEW t \in tabs' \ tabs
        PROVE  /\ t.server = s /\ t.run = starts[s] /\ t.at = i
               /\ t.release = Len(releases) + 1
    BY <1>3, <2>5 DEF Seed
  <2>6. i \in DOMAIN queue[s] /\ b = queue[s][i] /\ starts[s] \in Nat
    BY <1>3 DEF Seed, BookAt, TypeOK
  <2>7. TabsFollow'
    BY <2>2, <2>3, <2>5, <2>6 DEF TabsFollow, serverVars
  <2>8. QED BY <2>4, <2>7
<1>4. ASSUME NEW s \in Servers, NEW i \in Books, SaveCover(s, i)
      PROVE  TabsFollow' /\ OwnEntries'
  BY <1>4 DEF SaveCover, TabsFollow, OwnEntries, SeededFromOwn, serverVars,
              ledgerVars, seedVars
<1>5. ASSUME NEW t \in tabs, Capture(t) PROVE TabsFollow' /\ OwnEntries'
  <2> DEFINE s == t.server
             b == BookAt(queue[s], entries[s], t.at)
  <2>1. /\ s \in Servers /\ s \in up /\ t.release \in Release
        /\ t.release \in DOMAIN releases
    BY <1>5 DEF TypeOK, Tab, Capture, TabsFollow
  <2>2. b \in Books /\ b = queue[s][t.at]
    BY <1>5, <2>1 DEF TypeOK, Capture, BookAt
  <2>3. \A c \in Books : ledger'[c] = IF c = b THEN t.release ELSE entries[s][c]
    BY <1>5, <2>1, <2>2 DEF TypeOK, Capture, Record, Entries
  <2>4. entries'[s] = ledger' /\ \A q \in Servers \ {s} : entries'[q] = entries[q]
    BY <1>5, <2>1 DEF TypeOK, Capture
  <2>5. /\ misled' = IF t.run = starts[s] THEN misled ELSE misled \cup {t.release}
        /\ UNCHANGED <<serverVars, seedVars>>
    BY <1>5 DEF Capture
  <2>6. t.release \in misled' \/ releases[t.release] = b
    BY <2>1, <2>2, <2>5 DEF TabsFollow
  <2>7. SeededFromOwn(entries[s])
    BY <2>1 DEF OwnEntries
  <2>8. SeededFromOwn(ledger)'
    BY <2>1, <2>3, <2>5, <2>6, <2>7 DEF SeededFromOwn, seedVars
  <2>9. \A q \in Servers : SeededFromOwn(entries[q])'
    <3>1. ASSUME NEW q \in Servers \ {s} PROVE SeededFromOwn(entries[q])'
      BY <2>4, <2>5 DEF OwnEntries, SeededFromOwn, seedVars
    <3>2. SeededFromOwn(entries[s])'
      BY <2>4, <2>5, <2>8 DEF SeededFromOwn, seedVars
    <3>3. QED BY <3>1, <3>2 DEF SeededFromOwn
  <2>10. TabsFollow'
    BY <2>5 DEF TabsFollow, serverVars, seedVars
  <2>11. QED BY <2>8, <2>9, <2>10 DEF OwnEntries
<1>6. ASSUME NEW t \in tabs, CaptureCut(t) PROVE TabsFollow' /\ OwnEntries'
  <2>1. t.server \in Servers /\ Down(t.server) /\ UNCHANGED <<ledger, misled, seedVars>>
    BY <1>6 DEF TypeOK, Tab, CaptureCut
  <2>2. QED BY <1>2, <2>1
<1>7. CASE DiscardTorn
  BY <1>7 DEF DiscardTorn, TabsFollow, OwnEntries, SeededFromOwn, NoEntries,
              serverVars, seedVars
<1>8. CASE UNCHANGED vars
  BY <1>8 DEF vars, TabsFollow, OwnEntries, SeededFromOwn, serverVars,
              ledgerVars, seedVars
<1>9. QED
  BY <1>1, <1>2, <1>3, <1>4, <1>5, <1>6, <1>7, <1>8
     DEF Next, Stop, SaveCoverCut

\* Every step keeps the covers that were saved whole.
LEMMA NextCovers == TypeOK /\ SavedArtIsWhole /\ [Next]_vars => SavedArtIsWhole'
<1> SUFFICES ASSUME TypeOK, SavedArtIsWhole, [Next]_vars PROVE SavedArtIsWhole'
  OBVIOUS
<1>1. ASSUME UNCHANGED coverVars PROVE SavedArtIsWhole'
  BY <1>1 DEF SavedArtIsWhole, coverVars
<1>2. ASSUME NEW s \in Servers, NEW i \in Books, SaveCover(s, i)
      PROVE  SavedArtIsWhole'
  <2> DEFINE b == queue[s][i]
  <2>1. PICK art \in Fetched(b) : covers' = Holding(covers, CoverName[b], art)
    BY <1>2 DEF SaveCover
  <2>2. b \in Embedded \cup Sidecar
    BY <1>2 DEF SaveCover, ToSave, HasArt
  <2>3. art.of = b /\ (art.whole \/ b \in Sidecar)
    BY <2>1, <2>2 DEF Fetched
  <2>4. /\ DOMAIN covers' = DOMAIN covers \cup {CoverName[b]}
        /\ covers'[CoverName[b]] = art
        /\ \A f \in DOMAIN covers \ {CoverName[b]} : covers'[f] = covers[f]
    BY <2>1 DEF Holding
  <2>5. cut' = cut
    BY <1>2 DEF SaveCover
  <2>6. QED BY <2>3, <2>4, <2>5 DEF SavedArtIsWhole
<1>3. ASSUME NEW s \in Servers, NEW i \in Books, SaveCoverCut(s, i)
      PROVE  SavedArtIsWhole'
  <2> DEFINE f == CoverName[queue[s][i]]
  <2>1. /\ DOMAIN covers' = DOMAIN covers \cup {f}
        /\ \A g \in DOMAIN covers \ {f} : covers'[g] = covers[g]
    BY <1>3 DEF SaveCoverCut, Holding
  <2>2. cut' = cut \cup {f}
    BY <1>3 DEF SaveCoverCut
  <2>3. QED BY <2>1, <2>2 DEF SavedArtIsWhole
<1>4. QED
  BY <1>1, <1>2, <1>3
     DEF Next, Start, Stop, Seed, Capture, CaptureCut, DiscardTorn, vars

-----------------------------------------------------------------------------
\* The inductive invariant holds in every reachable state.
THEOREM InductiveInvariant == Spec => []IInv
<1>1. IInv /\ [Next]_vars => IInv'
  BY NextTypes, NextRecorded, NextOwn, NextCovers DEF IInv
<1>2. QED BY InitIInv, <1>1, PTL DEF Spec

\* Type correctness of the servers, the ledger and the covers.
THEOREM TypeCorrect == Spec => []TypeOK
<1>1. IInv => TypeOK
  BY DEF IInv
<1>2. QED BY <1>1, InductiveInvariant, PTL

\* An entry whose capture was answered is lost only to a second server that was
\* up when it was recorded, or to a write that was cut short.
THEOREM EntriesStay == Spec => []RecordedStays
<1>1. IInv => RecordedStays
  BY DEF IInv
<1>2. QED BY <1>1, InductiveInvariant, PTL

\* A release is recorded under the book it was seeded from, unless it comes back
\* to a server started since.
THEOREM EntriesRight == Spec => []RightBook
<1>1. IInv => RightBook
  BY DEF IInv, OwnEntries, RightBook
<1>2. QED BY <1>1, InductiveInvariant, PTL

\* A set of numbers that is not empty has a least.
LEMMA LeastOf ==
    ASSUME NEW T, T \subseteq Nat, T # {}
    PROVE  \E x \in T : \A y \in T : x <= y
<1>1. PICK x \in T : \A y \in T : ~ (<<y, x>> \in OpToRel(<, Nat))
  BY NatLessThanWellFounded, WFMin
<1>2. \A y \in T : ~ (y < x)
  BY <1>1 DEF OpToRel
<1>3. QED BY <1>2

\* The next book offered is one whose release is still to be made.
THEOREM OnwardNew == Spec => []OnwardToNew
<1>1. ASSUME IInv PROVE OnwardToNew
  <2> SUFFICES ASSUME NEW s \in up, NEW i \in DOMAIN queue[s],
                      AfterCapture(queue[s], entries[s], i).kind = "book",
                      queue[s][AfterCapture(queue[s], entries[s], i).at] \notin exposed
               PROVE  answered[queue[s][AfterCapture(queue[s], entries[s], i).at]]
                         = None
    BY DEF OnwardToNew
  <2> DEFINE left == {j \in DOMAIN queue[s] :
                        j > i /\ entries[s][queue[s][j]] = None}
             j == CHOOSE j \in left : \A k \in left : j <= k
  <2>1. s \in Servers /\ queue[s] \in Seq(Books)
    BY <1>1 DEF IInv, TypeOK
  <2>2. left # {} /\ AfterCapture(queue[s], entries[s], i).at = j
    BY DEF AfterCapture, NextAfter, ThePage
  <2>3. left \subseteq Nat
    BY <2>1
  <2>4. j \in left
    <3> HIDE DEF left
    <3> QED BY <2>2, <2>3, LeastOf
  <2>5. queue[s][j] \in Books /\ entries[s][queue[s][j]] = None
    <3>1. j \in DOMAIN queue[s] /\ entries[s][queue[s][j]] = None
      <4> HIDE DEF j
      <4> QED BY <2>4
    <3> HIDE DEF j
    <3>2. QED BY <2>1, <3>1
  <2>6. QED BY <1>1, <2>2, <2>5 DEF IInv, RecordedStays
<1>2. QED BY <1>1, InductiveInvariant, PTL

\* A saved cover is whole wherever its length was known.
THEOREM CoversWhole == Spec => []SavedArtIsWhole
<1>1. IInv => SavedArtIsWhole
  BY DEF IInv
<1>2. QED BY <1>1, InductiveInvariant, PTL
=============================================================================
