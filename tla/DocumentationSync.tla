-------------------------- MODULE DocumentationSync --------------------------
(***************************************************************************)
(* How wiki pages become documents: the scheduler's reconciliation of the  *)
(* XWiki spaces mapped to one project (src/brain/scheduler, with           *)
(* src/brain/application/xwiki_ingestion.py, document_ingestion.py and     *)
(* src/brain/adapters/documentation/xwiki_http.py).                        *)
(*                                                                         *)
(* Edits of the wiki are numbered.  A page is the number of its last edit, *)
(* which stands for its content and for its modification date; a moment in *)
(* time is the number of edits made before it, so an edit is older than a  *)
(* moment iff its number is at most that moment's.  Every edit changes the *)
(* content, and none falls on the very instant a watermark is taken.  The  *)
(* search index of the wiki follows its edits at once.                     *)
(*                                                                         *)
(* The process has one SQL session, which nothing rolls back.  A flush     *)
(* that fails undoes the transaction and leaves the session unusable:      *)
(* every later statement raises, until the process goes away.              *)
(***************************************************************************)
EXTENDS Integers, FiniteSets, SequencesExt

CONSTANTS
    Pages,
    Path,           \* the segments of a page's reference, its name last
    Place,          \* of a page in the order of (space, reference)
    Spaces,         \* the project's mapped spaces: paths of segments
    Existing,       \* the pages of the wiki at first, oldest edit first
    Bad,            \* pages with a row the database refuses (title too long)
    NoMark,         \* no watermark yet
    PageSize,       \* XWIKI_SOLR_PAGE_SIZE
    MaxEdits,       \* bound on edits and creations of pages
    MaxDeletes,     \* bound on deletions of pages
    MaxFaults,      \* bound on failing requests and database errors
    MaxCrashes      \* bound on deaths of the scheduler

MaxClock == Len(Existing) + MaxEdits
Marks == 0..MaxClock \cup {NoMark}

ASSUME DocumentationAssumption ==
    /\ IsFiniteSet(Pages)
    /\ Path \in [Pages -> Seq(UNION {Range(Path[p]) : p \in Pages})]
    /\ \A p \in Pages : Len(Path[p]) >= 2
    /\ Place \in [Pages -> Nat] /\ IsInjective(Place)
    /\ Existing \in Seq(Pages) /\ IsInjective(Existing)
    /\ Spaces \in Seq(Range(Spaces)) /\ Spaces # <<>>
    /\ Bad \subseteq Pages
    /\ NoMark \notin Nat
    /\ PageSize \in Nat \ {0}
    /\ {MaxEdits, MaxDeletes, MaxFaults, MaxCrashes} \subseteq Nat

VARIABLES
    wiki,       \* the last edit of each page; Absent if there is no such page
    clock,      \* edits made so far
    deletes,
    docs,       \* the session's view: the versions of each page's document
    mark,       \* the session's view: the watermark of each space
    broken,     \* the session is unusable
    db,         \* what is committed: [docs, mark]
    pc,         \* "idle", "list", "page" or "commit"
    at,         \* the space of the cycle
    since,      \* the watermark the cycle started from
    query,      \* 1: the space's own pages, 2: those of nested spaces
    start,      \* offset of the next request
    found,      \* pages listed so far
    todo,       \* listed pages not yet ingested
    failed,     \* a page of this cycle failed
    faults,
    crashes,
    raced       \* <<i, p>>: page p changed places in the listing of space i, or
                \* was edited, while a cycle over the space was under way

wikiVars == <<wiki, clock, deletes>>
sessionVars == <<docs, mark, broken>>
cycleVars == <<pc, at, since, query, start, found, todo, failed>>
vars == <<wiki, clock, deletes, docs, mark, broken, db, pc, at, since, query,
          start, found, todo, failed, faults, crashes, raced>>

Absent == 0
NoVersion == 0

Documents == [Pages -> Seq(1..MaxClock)]
Watermarks == [DOMAIN Spaces -> Marks]

TypeOK ==
    /\ wiki \in [Pages -> 0..MaxClock]
    /\ clock \in Len(Existing)..MaxClock
    /\ deletes \in 0..MaxDeletes
    /\ docs \in Documents /\ mark \in Watermarks /\ broken \in BOOLEAN
    /\ db \in [docs : Documents, mark : Watermarks]
    /\ pc \in {"idle", "list", "page", "commit"}
    /\ at \in DOMAIN Spaces
    /\ since \in Marks
    /\ query \in {1, 2}
    /\ start \in Nat
    /\ found \in SUBSET Pages
    /\ todo \in SUBSET Pages
    /\ failed \in BOOLEAN
    /\ faults \in 0..MaxFaults
    /\ crashes \in 0..MaxCrashes
    /\ raced \subseteq (DOMAIN Spaces) \X Pages

Init ==
    /\ wiki = [p \in Pages |->
                  IF p \in Range(Existing)
                  THEN CHOOSE n \in DOMAIN Existing : Existing[n] = p
                  ELSE Absent]
    /\ clock = Len(Existing)
    /\ deletes = 0
    /\ docs = [p \in Pages |-> <<>>]
    /\ mark = [i \in DOMAIN Spaces |-> NoMark]
    /\ broken = FALSE
    /\ db = [docs |-> docs, mark |-> mark]
    /\ pc = "idle"
    /\ at = 1
    /\ since = NoMark
    /\ query = 1
    /\ start = 0
    /\ found = {}
    /\ todo = {}
    /\ failed = FALSE
    /\ faults = 0
    /\ crashes = 0
    /\ raced = {}

-----------------------------------------------------------------------------
(* The wiki and its users.                                                 *)

\* The two queries of a space: its own pages, and those of spaces below it.
Matches(p, i, q) ==
    IF q = 1 THEN Front(Path[p]) = Spaces[i]
             ELSE IsStrictPrefix(Spaces[i], Front(Path[p]))

InSpace(p, i) == \E q \in {1, 2} : Matches(p, i, q)

Edit(p) ==
    /\ clock < MaxClock
    /\ clock' = clock + 1
    /\ wiki' = [wiki EXCEPT ![p] = clock']
    /\ raced' = {r \in raced : r[2] # p}
                \cup {r \in {at} \X {p} : pc \in {"list", "page"} /\ InSpace(p, at)}
    /\ UNCHANGED <<deletes, sessionVars, db, cycleVars, faults, crashes>>

\* Deleting a page moves the ones below it up in the listing.
Delete(p) ==
    /\ deletes < MaxDeletes
    /\ wiki[p] # Absent
    /\ deletes' = deletes + 1
    /\ wiki' = [wiki EXCEPT ![p] = Absent]
    /\ raced' = raced \cup {r \in {at} \X Pages :
                               pc = "list" /\ InSpace(p, at) /\ InSpace(r[2], at)}
    /\ UNCHANGED <<clock, sessionVars, db, cycleVars, faults, crashes>>

-----------------------------------------------------------------------------
(* One pass: reconcile_documentation() over the mapped spaces.             *)

\* The variables of list_changed_pages() are gone once it returns.
NoRequest ==
    /\ query' = 1
    /\ start' = 0

\* sync_space() reads the watermark and starts to list.
StartSpace(i) ==
    /\ pc' = "list"
    /\ at' = i
    /\ since' = mark[i]
    /\ NoRequest
    /\ found' = {}
    /\ todo' = {}
    /\ failed' = FALSE
    /\ raced' = {r \in raced :
                    \/ r[1] # i
                    \/ since' # NoMark /\ wiki[r[2]] <= since'}

\* The pass ends, well or by an exception that SchedulerLoop.run() logs.
EndPass ==
    /\ pc' = "idle"
    /\ at' = 1
    /\ since' = NoMark
    /\ found' = {}
    /\ todo' = {}
    /\ failed' = FALSE
    /\ NoRequest

BeginPass ==
    /\ pc = "idle"
    /\ ~broken
    /\ StartSpace(1)
    /\ UNCHANGED <<wikiVars, sessionVars, db, faults, crashes>>

\* The first statement of a pass raises.
PassFails ==
    /\ pc = "idle"
    /\ broken
    /\ UNCHANGED vars

\* What a query selects, newest first: Rank(p) results come before p.
Hits == {p \in Pages : wiki[p] # Absent /\ Matches(p, at, query)}
Rank(p) == Cardinality({h \in Hits : wiki[h] > wiki[p]})

\* One answer of the search, and its results that are not older than the
\* watermark.
Answer == {p \in Hits : start <= Rank(p) /\ Rank(p) < start + PageSize}
Wanted(p) == since = NoMark \/ wiki[p] > since
Recent == {p \in Answer : Wanted(p)}

\* Mutant: the loop over the answers is missing.
OnlyAnswer == TRUE

\* An older result ends the query, and so does an answer that is not full.
LastAnswer == Recent # Answer \/ Cardinality(Hits) < start + PageSize

MoreAnswers ==
    /\ pc = "list"
    /\ ~LastAnswer
    /\ found' = found \cup Recent
    /\ start' = start + PageSize
    /\ UNCHANGED <<wikiVars, sessionVars, db, pc, at, since, query, todo, failed,
                   faults, crashes, raced>>

NextQuery ==
    /\ pc = "list"
    /\ LastAnswer
    /\ query = 1
    /\ found' = found \cup Recent
    /\ query' = 2
    /\ start' = 0
    /\ UNCHANGED <<wikiVars, sessionVars, db, pc, at, since, todo, failed,
                   faults, crashes, raced>>

Listed ==
    /\ pc = "list"
    /\ LastAnswer
    /\ query = 2
    /\ found' = found \cup Recent
    /\ todo' = found'
    /\ pc' = "page"
    /\ NoRequest
    /\ UNCHANGED <<wikiVars, sessionVars, db, at, since, failed, faults, crashes,
                   raced>>

\* A search request fails: nothing catches it before SchedulerLoop.run().
ListingFails ==
    /\ pc = "list"
    /\ faults < MaxFaults
    /\ faults' = faults + 1
    /\ EndPass
    /\ UNCHANGED <<wikiVars, sessionVars, db, crashes, raced>>

-----------------------------------------------------------------------------
(* The pages of one cycle.  Each is tried; an exception only marks the     *)
(* cycle as failed.                                                        *)

\* The page's first segment names the space a project is looked up by.
Resolved(p) == <<Head(Path[p])>> \in Range(Spaces)

CurrentVersion(d, p) == IF d[p] = <<>> THEN NoVersion ELSE Last(d[p])

\* Mutant: the checksum is not compared.
IngestAlways(d, p) == [d EXCEPT ![p] = Append(@, wiki[p])]

\* ingest(): a new version unless the current one has the same checksum.
Ingest(d, p) ==
    IF CurrentVersion(d, p) = wiki[p] THEN d
    ELSE [d EXCEPT ![p] = Append(@, wiki[p])]

\* The pages are taken in the order in which they were sorted.
PageStep(p) ==
    /\ pc = "page"
    /\ p \in todo
    /\ \A q \in todo : Place[p] <= Place[q]
    /\ todo' = todo \ {p}
    /\ UNCHANGED <<wikiVars, db, pc, at, since, query, start, found, crashes, raced>>

PageIngested(p) ==
    /\ PageStep(p)
    /\ ~broken
    /\ Resolved(p)
    /\ wiki[p] # Absent
    /\ p \notin Bad
    /\ docs' = Ingest(docs, p)
    /\ UNCHANGED <<mark, broken, failed, faults>>

\* The session is unusable, no project has the space, or the page is gone.
PageRejected(p) ==
    /\ PageStep(p)
    /\ broken \/ ~Resolved(p) \/ wiki[p] = Absent
    /\ failed' = TRUE
    /\ UNCHANGED <<sessionVars, faults>>

\* The wiki does not deliver the page, or the parser cannot read it.
PageFails(p) ==
    /\ PageStep(p)
    /\ faults < MaxFaults
    /\ faults' = faults + 1
    /\ failed' = TRUE
    /\ UNCHANGED sessionVars

\* A statement fails: the transaction is undone and the session unusable.
Breaks ==
    /\ broken' = TRUE
    /\ docs' = db.docs
    /\ mark' = db.mark

\* The database refuses a row of the page, or does not answer.
PageBreaks(p) ==
    /\ PageStep(p)
    /\ ~broken
    /\ \/ /\ Resolved(p)
          /\ wiki[p] # Absent
          /\ p \in Bad
          /\ UNCHANGED faults
       \/ /\ faults < MaxFaults
          /\ faults' = faults + 1
    /\ Breaks
    /\ failed' = TRUE

-----------------------------------------------------------------------------
(* The end of a cycle and of the pass.                                     *)

\* Mutant: the watermark advances past failed pages.
AdvancesAnyway == found # {} \/ since # NoMark

\* Nothing failed, and the cycle found pages or resumed from a watermark.
Advances == ~failed /\ (found # {} \/ since # NoMark)

\* Mutant: the watermark is taken from a clock that runs ahead.
SpaceDoneAhead ==
    /\ pc = "page"
    /\ todo = {}
    /\ mark' = IF Advances THEN [mark EXCEPT ![at] = clock + 1] ELSE mark
    /\ UNCHANGED <<wikiVars, docs, broken, db, faults, crashes>>

SpaceDone ==
    /\ pc = "page"
    /\ todo = {}
    /\ mark' = IF Advances THEN [mark EXCEPT ![at] = clock] ELSE mark
    /\ UNCHANGED <<wikiVars, docs, broken, db, faults, crashes>>

NextSpace ==
    /\ SpaceDone
    /\ at < Len(Spaces)
    /\ ~broken
    /\ StartSpace(at + 1)

\* The watermark of the next space cannot be read.
NextSpaceFails ==
    /\ SpaceDone
    /\ at < Len(Spaces)
    /\ broken
    /\ EndPass
    /\ UNCHANGED raced

LastSpace ==
    /\ SpaceDone
    /\ at = Len(Spaces)
    /\ pc' = "commit"
    /\ UNCHANGED <<at, since, query, start, found, todo, failed, raced>>

AdvanceBreaks ==
    /\ pc = "page"
    /\ todo = {}
    /\ Advances
    /\ faults < MaxFaults
    /\ faults' = faults + 1
    /\ Breaks
    /\ EndPass
    /\ UNCHANGED <<wikiVars, db, crashes, raced>>

Commit ==
    /\ pc = "commit"
    /\ ~broken
    /\ db' = [docs |-> docs, mark |-> mark]
    /\ EndPass
    /\ UNCHANGED <<wikiVars, sessionVars, faults, crashes, raced>>

CommitRaises ==
    /\ pc = "commit"
    /\ broken
    /\ EndPass
    /\ UNCHANGED <<wikiVars, sessionVars, db, faults, crashes, raced>>

\* The connection breaks during COMMIT: it may have landed or not, and the
\* session may be left usable or not.
CommitBreaks ==
    /\ pc = "commit"
    /\ ~broken
    /\ faults < MaxFaults
    /\ faults' = faults + 1
    /\ db' \in {db, [docs |-> docs, mark |-> mark]}
    /\ docs' = db'.docs
    /\ mark' = db'.mark
    /\ broken' \in BOOLEAN
    /\ EndPass
    /\ UNCHANGED <<wikiVars, crashes, raced>>

\* The process dies and is started again with a new session.
Crash ==
    /\ crashes < MaxCrashes
    /\ crashes' = crashes + 1
    /\ docs' = db.docs
    /\ mark' = db.mark
    /\ broken' = FALSE
    /\ EndPass
    /\ UNCHANGED <<wikiVars, db, faults, raced>>

-----------------------------------------------------------------------------
Users == \E p \in Pages : Edit(p) \/ Delete(p)

Listing == MoreAnswers \/ NextQuery \/ Listed

Scheduler ==
    \/ BeginPass
    \/ Listing
    \/ \E p \in todo : PageIngested(p) \/ PageRejected(p)
    \/ NextSpace
    \/ NextSpaceFails
    \/ LastSpace
    \/ Commit
    \/ CommitRaises

Faults ==
    \/ ListingFails
    \/ \E p \in todo : PageFails(p) \/ PageBreaks(p)
    \/ AdvanceBreaks
    \/ CommitBreaks
    \/ Crash

Next == Users \/ Scheduler \/ PassFails \/ Faults

Spec == Init /\ [][Next]_vars

\* SchedulerLoop.run() starts a pass every interval and nothing blocks it.  A
\* page the database refuses is not an accident but the only thing that can
\* happen to it.
Fairness == WF_vars(Scheduler \/ \E p \in Bad : PageBreaks(p))

FairSpec == Spec /\ Fairness

-----------------------------------------------------------------------------
(* Properties.                                                             *)

UpToDate(p) == CurrentVersion(db.docs, p) = wiki[p]

Raced(p) == \E i \in DOMAIN Spaces : <<i, p>> \in raced

\* A committed watermark never runs past a page that was not ingested: every
\* page of the space last edited before it is a document at its latest
\* revision, whatever failed, crashed or was left in the session on the way
\* ("failed pages remain eligible for retry", xwiki_ingestion.py:102).  Excepted
\* are the pages that were edited, or could be skipped by the paging because
\* another one was deleted, while the cycle ran: the watermark is the time at
\* the end of the cycle, and those can stay behind for good.
WatermarkCovers ==
    \A i \in DOMAIN Spaces, p \in Pages :
        /\ InSpace(p, i)
        /\ wiki[p] # Absent
        /\ <<i, p>> \notin raced
        /\ db.mark[i] # NoMark
        /\ wiki[p] <= db.mark[i]
        => UpToDate(p)

\* A page that is listed again, because another page of its cycle failed or
\* because a commit was lost, gets no second version of the same content, and
\* no version older than one it has (ingest() compares checksums).
VersionsFollowEdits ==
    \A p \in Pages : \A m, n \in DOMAIN db.docs[p] :
        m < n => db.docs[p][m] < db.docs[p][n]

\* A page that a project owns and that no cycle overtook becomes up to date
\* again after every edit and every failure of the wiki, as long as the
\* session works.
StaleIsTemporary ==
    \A p \in Pages :
        (Resolved(p) /\ \E i \in DOMAIN Spaces : InSpace(p, i)) =>
            []<>(UpToDate(p) \/ wiki[p] = Absent \/ Raced(p) \/ broken)

\* "One broken page never aborts the cycle" (reconciliation.py:180), "one bad
\* page must not abort the whole cycle" (xwiki_ingestion.py:228): pages that
\* have nothing wrong with them are ingested, whatever page is next to them.
BadPageIsIsolated ==
    \A p \in Pages \ Bad :
        (Resolved(p) /\ \E i \in DOMAIN Spaces : InSpace(p, i)) =>
            []<>(UpToDate(p) \/ wiki[p] = Absent \/ Raced(p))
=============================================================================
