------------------------------- MODULE MbSeed -------------------------------
(***************************************************************************)
(* mb-seed (tools/mb-seed): the review queue that hands books to           *)
(* MusicBrainz's release editor, the ledger of what they became, and the   *)
(* cover files it saves.                                                   *)
(*                                                                         *)
(* A server runs per port.  Each reads the manifest and the ledger when it *)
(* starts and never again; its pages, and the address MusicBrainz is told  *)
(* to come back to, name a book by its place in that server's queue; every *)
(* entry rewrites the ledger whole.  Servers are started and stopped while *)
(* the browser still has pages of theirs open.                             *)
(***************************************************************************)
EXTENDS Naturals, FiniteSets, Sequences

CONSTANTS Servers,     \* ports, each with a server at most: MB_SEED_PORT
          MaxBook,     \* books are 1 .. MaxBook, in the order of their paths
          Queues,      \* the manifests a start may find, narrowed or not
          Embedded,    \* books whose art is in the file
          Sidecar,     \* books whose art is an image beside it
          CoverName,   \* what a book's art is saved as
          MaxRelease,  \* bound: releases made in MusicBrainz
          MaxStarts    \* bound: servers started on one port

Books == 1 .. MaxBook

ASSUME MbSeedAssumption ==
    /\ MaxBook \in Nat
    /\ Queues \subseteq Seq(Books)
    /\ \A books \in Queues : \A i, j \in DOMAIN books :
            i < j => books[i] < books[j]
    /\ Embedded \subseteq Books
    /\ Sidecar \subseteq Books \ Embedded
    /\ DOMAIN CoverName = Books
    /\ MaxRelease \in Nat
    /\ MaxStarts \in Nat

VARIABLES up,        \* the ports a server listens on
          starts,    \* servers started on each port so far
          queue,     \* Handler.books of each: what it offers, in order
          entries,   \* Ledger.entries of each: its own copy
          ledger,    \* ledger.json
          torn,      \* ledger.json was cut short and does not parse
          releases,  \* the book each release was seeded from
          tabs,      \* pages that may report a release, once or again
          covers     \* covers/: file to what it holds

\* History, for the properties only.
VARIABLES answered,  \* the release last reported for a book, and recorded
          exposed,   \* books recorded while another server was up, or cut short
          misled,    \* releases reported to a later server than seeded them
          cut        \* cover files whose write was cut short

serverVars == <<up, starts, queue>>
ledgerVars == <<entries, ledger, torn, answered, exposed, misled>>
seedVars == <<releases, tabs>>
coverVars == <<covers, cut>>
vars == <<serverVars, ledgerVars, seedVars, coverVars>>

Release == 1 .. MaxRelease
None == 0

Entries == [Books -> {None} \cup Release]
NoEntries == [b \in Books |-> None]

Art == [of : Books, whole : BOOLEAN]

Names == {CoverName[b] : b \in Books}

Tab == [server : Servers, run : 0 .. MaxStarts, at : Books, release : Release]

TypeOK ==
    /\ up \in SUBSET Servers
    /\ starts \in [Servers -> 0 .. MaxStarts]
    /\ DOMAIN queue = Servers
    /\ \A s \in Servers : queue[s] \in Seq(Books)
    /\ entries \in [Servers -> Entries]
    /\ ledger \in Entries
    /\ torn \in BOOLEAN
    /\ releases \in Seq(Books)
    /\ Len(releases) <= MaxRelease
    /\ tabs \in SUBSET Tab
    /\ DOMAIN covers \in SUBSET Names
    /\ \A f \in DOMAIN covers : covers[f] \in Art
    /\ answered \in Entries
    /\ exposed \in SUBSET Books
    /\ misled \in SUBSET Release
    /\ cut \in SUBSET Names

Init ==
    /\ up = {}
    /\ starts = [s \in Servers |-> 0]
    /\ queue = [s \in Servers |-> <<>>]
    /\ entries = [s \in Servers |-> NoEntries]
    /\ ledger = NoEntries
    /\ torn = FALSE
    /\ releases = <<>>
    /\ tabs = {}
    /\ covers = [f \in {} |-> None]
    /\ answered = NoEntries
    /\ exposed = {}
    /\ misled = {}
    /\ cut = {}

-----------------------------------------------------------------------------
(* Starting and stopping.                                                  *)

\* What a start may be told to offer: a narrowing that matches nothing is
\* refused.
Offers == Queues \ {<<>>}

\* A torn ledger ends the start, and so does a port that is taken.
Start(s) ==
    /\ s \notin up
    /\ ~torn
    /\ starts[s] < MaxStarts
    /\ \E books \in Offers : queue' = [queue EXCEPT ![s] = books]
    /\ entries' = [entries EXCEPT ![s] = ledger]
    /\ up' = up \cup {s}
    /\ starts' = [starts EXCEPT ![s] = @ + 1]
    /\ UNCHANGED <<ledger, torn, answered, exposed, misled, seedVars, coverVars>>

\* Nothing outlives the server but its two kinds of file; what it held is
\* cleared so that states that differ by it alone are one.
Down(s) ==
    /\ up' = up \ {s}
    /\ queue' = [queue EXCEPT ![s] = <<>>]
    /\ entries' = [entries EXCEPT ![s] = NoEntries]
    /\ UNCHANGED starts

Stop(s) ==
    /\ s \in up
    /\ Down(s)
    /\ UNCHANGED <<ledger, torn, answered, exposed, misled, seedVars, coverVars>>

\* The owner moves a ledger that does not parse out of the way.
DiscardTorn ==
    /\ torn
    /\ torn' = FALSE
    /\ ledger' = NoEntries
    /\ UNCHANGED <<serverVars, entries, answered, exposed, misled, seedVars,
                   coverVars>>

-----------------------------------------------------------------------------
(* /seed, and /captured or /record: a book is seeded from its place in the *)
(* queue, and its release reported back under that place.                  *)

\* Fault: places are counted among the books still to do.
BookAtOfLeft(books, done, i) ==
    LET left == {j \in DOMAIN books : done[books[j]] = None}
        nth == {j \in left : Cardinality({k \in left : k <= j}) = i}
    IN IF nth = {} THEN books[i] ELSE books[CHOOSE j \in nth : TRUE]

\* The book a page of the queue means by a place.
BookAt(books, done, i) == books[i]

\* Nothing asks the ledger whether the book was seeded before.
Seed(s, i) ==
    /\ s \in up
    /\ i \in DOMAIN queue[s]
    /\ Len(releases) < MaxRelease
    /\ releases' = Append(releases, BookAt(queue[s], entries[s], i))
    /\ tabs' = tabs \cup {[server |-> s, run |-> starts[s], at |-> i,
                           release |-> Len(releases) + 1]}
    /\ UNCHANGED <<serverVars, ledgerVars, coverVars>>

\* Fault: the new entry alone is written, and not those before it.
RecordAlone(mine, b, r) == [NoEntries EXCEPT ![b] = r]

\* Ledger.record: this server's entries, with the new one.
Record(mine, b, r) == [mine EXCEPT ![b] = r]

\* A tab's release arrives, by MusicBrainz's redirect or pasted by hand.  The
\* place is looked up in whatever queue the port serves now; one past its end
\* fails the request.
Capture(t) ==
    LET s == t.server
        b == BookAt(queue[s], entries[s], t.at)
    IN /\ s \in up
       /\ t.at \in DOMAIN queue[s]
       /\ ledger' = Record(entries[s], b, t.release)
       /\ entries' = [entries EXCEPT ![s] = ledger']
       /\ torn' = FALSE
       /\ answered' = [answered EXCEPT ![b] = t.release]
       /\ exposed' = IF up = {s} THEN exposed \ {b} ELSE exposed \cup {b}
       /\ misled' = IF t.run = starts[s] THEN misled ELSE misled \cup {t.release}
       /\ UNCHANGED <<serverVars, seedVars, coverVars>>

\* The server is killed while it writes: write_text has emptied the file.  The
\* request is not answered, and no entry of the file is safe any more.
CaptureCut(t) ==
    /\ t.server \in up
    /\ t.at \in DOMAIN queue[t.server]
    /\ Down(t.server)
    /\ torn' = TRUE
    /\ exposed' = Books
    /\ UNCHANGED <<ledger, answered, misled, seedVars, coverVars>>

-----------------------------------------------------------------------------
(* Where the browser is sent after a capture.                              *)

HasArt(b) == b \in Embedded \cup Sidecar

ThePage == [kind |-> "queue"]

\* Fault: the book after this one, submitted or not.
NextAfterAny(books, done, i) ==
    IF i + 1 \in DOMAIN books THEN [kind |-> "book", at |-> i + 1]
                              ELSE ThePage

\* next_after: the next book not yet submitted, or the queue if none is.
NextAfter(books, done, i) ==
    LET left == {j \in DOMAIN books : j > i /\ done[books[j]] = None}
    IN IF left = {} THEN ThePage
       ELSE [kind |-> "book", at |-> CHOOSE j \in left : \A k \in left : j <= k]

\* after_capture: a book with art goes to its cover step, which continues to
\* NextAfter, as does a capture that brought no release.
AfterCapture(books, done, i) ==
    IF HasArt(books[i]) /\ done[books[i]] # None
    THEN [kind |-> "cover", at |-> i]
    ELSE NextAfter(books, done, i)

-----------------------------------------------------------------------------
(* The cover step.                                                         *)

\* Fault: a fetch that brought nothing is saved as well.
FetchedOrNothing(b) == [of : {b, None}, whole : BOOLEAN]

\* Fault: what came back is not compared with the length in the manifest.
FetchedUnchecked(b) == [of : {b}, whole : BOOLEAN]

\* fetch_cover: kubectl exec's pipe can cut the art short.  The manifest gives
\* the length of embedded art, and none of a sidecar's.
Fetched(b) == [of : {b}, whole : IF b \in Embedded THEN {TRUE} ELSE BOOLEAN]

Holding(files, f, art) ==
    [g \in DOMAIN files \cup {f} |-> IF g = f THEN art ELSE files[g]]

\* A file of that name is taken for the book's art, and only otherwise is the
\* art fetched: the page's request, or its thumbnail's.
ToSave(s, i) ==
    /\ s \in up
    /\ i \in DOMAIN queue[s]
    /\ HasArt(queue[s][i])
    /\ CoverName[queue[s][i]] \notin DOMAIN covers

\* save_cover.  A fetch that fails leaves everything as it is.
SaveCover(s, i) ==
    /\ ToSave(s, i)
    /\ \E art \in Fetched(queue[s][i]) :
            covers' = Holding(covers, CoverName[queue[s][i]], art)
    /\ UNCHANGED <<serverVars, ledgerVars, seedVars, cut>>

\* Killed while it writes the file.
SaveCoverCut(s, i) ==
    LET f == CoverName[queue[s][i]]
    IN /\ ToSave(s, i)
       /\ covers' = Holding(covers, f, [of |-> queue[s][i], whole |-> FALSE])
       /\ cut' = cut \cup {f}
       /\ Down(s)
       /\ UNCHANGED <<ledger, torn, answered, exposed, misled, seedVars>>

-----------------------------------------------------------------------------
Next ==
    \/ \E s \in Servers : Start(s) \/ Stop(s)
    \/ \E s \in Servers, i \in Books :
        Seed(s, i) \/ SaveCover(s, i) \/ SaveCoverCut(s, i)
    \/ \E t \in tabs : Capture(t) \/ CaptureCut(t)
    \/ DiscardTorn

Spec == Init /\ [][Next]_vars

-----------------------------------------------------------------------------
(* Properties.                                                             *)

\* A release whose capture was answered stays the book's, in the file and in
\* every server's memory, however servers come and go after -- unless another
\* server was up when it was recorded, or a write was cut short.  That is what
\* a ledger read once and rewritten whole amounts to.
RecordedStays ==
    \A b \in Books \ exposed :
        /\ ledger[b] = answered[b]
        /\ \A s \in up : entries[s][b] = answered[b]

SeededFromOwn(done) ==
    \A b \in Books :
        LET r == done[b]
        IN r \notin misled \cup {None} => r \in DOMAIN releases /\ releases[r] = b

\* capture() records "the release a book became": an entry holds a release
\* seeded from that very book, unless the release came back to a server started
\* after the one that seeded it, whose queue may be another.
RightBook == SeededFromOwn(ledger)

\* The browser is never sent on to a book already submitted, not even to one
\* that another server recorded before this one started: only two servers up at
\* once, or a write cut short, can make a book be offered twice.
OnwardToNew ==
    \A s \in up : \A i \in DOMAIN queue[s] :
        LET onward == AfterCapture(queue[s], entries[s], i)
        IN onward.kind = "book" =>
            LET b == queue[s][onward.at]
            IN answered[b] = None \/ b \in exposed

\* A saved cover is the whole art of a book of that name, unless the server was
\* killed as it wrote it, or the art is a sidecar, whose length nothing checks.
SavedArtIsWhole ==
    \A f \in DOMAIN covers \ cut :
        LET art == covers[f]
        IN CoverName[art.of] = f /\ (art.whole \/ art.of \in Sidecar)
=============================================================================
