----------------------- MODULE DocumentationSyncProofs -----------------------
(***************************************************************************)
(* Types, versions and watermarks of the documentation, for every set of   *)
(* pages and spaces, every size of an answer and every bound on edits and  *)
(* failures.                                                               *)
(*                                                                         *)
(* VersionsFollowEdits alone is not inductive: ingest() compares the page  *)
(* only with the current version, so one has to know that no version is    *)
(* newer than the page, nor, while the page does not exist, than the clock *)
(* a new page will be stamped with; and all this of the session as well as *)
(* of the database, because each becomes the other.  WatermarkCovers needs *)
(* in addition what a cycle has listed, is going to list and has ingested  *)
(* so far: see MarkInv.                                                    *)
(***************************************************************************)
EXTENDS DocumentationSync, FiniteSetTheorems, SequenceTheorems, TLAPS

\* The versions d are in order and none is newer than its page in wiki w,
\* or than the clock c.
Followed(d, w, c) ==
    /\ d \in [Pages -> Seq(Nat)]
    /\ \A p \in Pages :
          /\ \A m, n \in DOMAIN d[p] : m < n => d[p][m] < d[p][n]
          /\ \A n \in DOMAIN d[p] :
                d[p][n] <= c /\ (w[p] = Absent \/ d[p][n] <= w[p])

WikiInv ==
    /\ clock \in Nat
    /\ wiki \in [Pages -> Nat]
    /\ \A p \in Pages : wiki[p] <= clock

VersionInv ==
    /\ WikiInv
    /\ Followed(docs, wiki, clock)
    /\ Followed(db.docs, wiki, clock)

-----------------------------------------------------------------------------
(* What edits, deletions and ingest() keep.                                *)

\* A page is stamped with a later number than any version has.
LEMMA EditKeepsFollowed ==
    ASSUME NEW c \in Nat, NEW w \in [Pages -> Nat], NEW p \in Pages, NEW d,
           Followed(d, w, c)
    PROVE  Followed(d, [w EXCEPT ![p] = c + 1], c + 1)
  <1> DEFINE v == [w EXCEPT ![p] = c + 1]
  <1>1. ASSUME NEW q \in Pages, NEW n \in DOMAIN d[q]
        PROVE  d[q][n] <= c + 1 /\ (v[q] = Absent \/ d[q][n] <= v[q])
    <2>1. d[q] \in Seq(Nat) /\ d[q][n] \in Nat
      BY <1>1 DEF Followed
    <2>2. d[q][n] <= c /\ (w[q] = Absent \/ d[q][n] <= w[q])
      BY <1>1 DEF Followed
    <2> QED
      BY <2>1, <2>2
  <1> QED
    BY <1>1 DEF Followed

\* Nothing is asked of the versions of a page that does not exist.
LEMMA DeleteKeepsFollowed ==
    ASSUME NEW c \in Nat, NEW w \in [Pages -> Nat], NEW p \in Pages, NEW d,
           Followed(d, w, c)
    PROVE  Followed(d, [w EXCEPT ![p] = Absent], c)
  BY DEF Followed

\* ingest() adds the page's revision only after an older one.
LEMMA IngestKeepsFollowed ==
    ASSUME NEW p \in Pages, WikiInv, Followed(docs, wiki, clock),
           wiki[p] # Absent
    PROVE  Followed(Ingest(docs, p), wiki, clock)
  <1>1. CASE CurrentVersion(docs, p) = wiki[p]
    BY <1>1 DEF Ingest
  <1>2. CASE CurrentVersion(docs, p) # wiki[p]
    <2> DEFINE s == docs[p]
               longer == Append(s, wiki[p])
               d == [docs EXCEPT ![p] = longer]
    <2>1. Ingest(docs, p) = d
      BY <1>2 DEF Ingest
    <2>2. s \in Seq(Nat) /\ wiki[p] \in Nat /\ wiki[p] <= clock /\ clock \in Nat
      BY DEF Followed, WikiInv
    <2>3. /\ longer \in Seq(Nat)
          /\ Len(longer) = Len(s) + 1
          /\ \A i \in 1 .. Len(s) : longer[i] = s[i]
          /\ longer[Len(s) + 1] = wiki[p]
      BY <2>2, AppendProperties
    <2>4. /\ DOMAIN s = 1 .. Len(s)
          /\ DOMAIN longer = 1 .. Len(s) + 1
          /\ Len(s) \in Nat
          /\ \A i \in DOMAIN s : s[i] \in Nat
      BY <2>2, <2>3
    <2>5. /\ \A m, n \in DOMAIN s : m < n => s[m] < s[n]
          /\ \A n \in DOMAIN s : s[n] <= clock /\ s[n] <= wiki[p]
      BY DEF Followed
    <2>6. \A n \in DOMAIN s : s[n] < wiki[p]
      <3> SUFFICES ASSUME NEW n \in DOMAIN s PROVE s[n] < wiki[p]
        OBVIOUS
      <3>1. s # <<>> /\ Len(s) \in DOMAIN s
        BY <2>4
      <3>2. s[Len(s)] # wiki[p]
        BY <1>2, <3>1 DEF CurrentVersion, Last
      <3>3. s[Len(s)] < wiki[p]
        BY <2>2, <2>4, <2>5, <3>1, <3>2
      <3> QED
        BY <2>2, <2>4, <2>5, <3>1, <3>3
    <2> HIDE DEF longer
    <2>7. \A m, n \in DOMAIN longer : m < n => longer[m] < longer[n]
      <3> SUFFICES ASSUME NEW m \in 1 .. Len(s) + 1, NEW n \in 1 .. Len(s) + 1,
                          m < n
                   PROVE  longer[m] < longer[n]
        BY <2>4
      <3>1. m \in 1 .. Len(s) /\ longer[m] = s[m]
        BY <2>3, <2>4
      <3>2. CASE n = Len(s) + 1
        BY <3>1, <3>2, <2>3, <2>4, <2>6
      <3>3. CASE n # Len(s) + 1
        <4>1. n \in 1 .. Len(s)
          BY <3>3, <2>4
        <4>2. longer[n] = s[n]
          BY <4>1, <2>3
        <4> QED
          BY <3>1, <4>1, <4>2, <2>4, <2>5
      <3> QED
        BY <3>2, <3>3
    <2>8. \A n \in DOMAIN longer : longer[n] <= clock /\ longer[n] <= wiki[p]
      <3> SUFFICES ASSUME NEW n \in 1 .. Len(s) + 1
                   PROVE  longer[n] <= clock /\ longer[n] <= wiki[p]
        BY <2>4
      <3>1. CASE n = Len(s) + 1
        BY <3>1, <2>2, <2>3
      <3>2. CASE n # Len(s) + 1
        <4>1. n \in 1 .. Len(s) /\ longer[n] = s[n]
          BY <3>2, <2>3, <2>4
        <4> QED
          BY <4>1, <2>4, <2>5
      <3> QED
        BY <3>1, <3>2
    <2>9. d \in [Pages -> Seq(Nat)]
      BY <2>3 DEF Followed
    <2>10. ASSUME NEW q \in Pages
           PROVE  /\ \A m, n \in DOMAIN d[q] : m < n => d[q][m] < d[q][n]
                  /\ \A n \in DOMAIN d[q] :
                        d[q][n] <= clock
                        /\ (wiki[q] = Absent \/ d[q][n] <= wiki[q])
      <3>1. CASE q = p
        <4>1. d[q] = longer
          BY <3>1 DEF Followed
        <4> QED
          BY <3>1, <4>1, <2>7, <2>8
      <3>2. CASE q # p
        <4>1. d[q] = docs[q]
          BY <3>2 DEF Followed
        <4> QED
          BY <4>1 DEF Followed
      <3> QED
        BY <3>1, <3>2
    <2> QED
      BY <2>1, <2>9, <2>10 DEF Followed
  <1> QED
    BY <1>1, <1>2

-----------------------------------------------------------------------------
(* The invariant holds initially and is kept by every step.                *)

LEMMA VersionInit == ASSUME Init PROVE VersionInv
  <1>1. Existing \in Seq(Pages) /\ Len(Existing) \in Nat
    BY DocumentationAssumption
  <1>2. ASSUME NEW p \in Pages
        PROVE  wiki[p] \in 0 .. Len(Existing)
    <2>1. CASE p \in Range(Existing)
      <3>1. \E n \in DOMAIN Existing : Existing[n] = p
        BY <2>1 DEF Range
      <3>2. wiki[p] \in DOMAIN Existing
        BY <1>2, <2>1, <3>1 DEF Init
      <3> QED
        BY <3>2, <1>1
    <2>2. CASE p \notin Range(Existing)
      BY <1>1, <1>2, <2>2 DEF Init, Absent
    <2> QED
      BY <2>1, <2>2
  <1>3. WikiInv
    <2>1. wiki \in [Pages -> Nat]
      <3>1. wiki = [p \in Pages |-> wiki[p]]
        BY DEF Init
      <3> QED
        BY <1>1, <1>2, <3>1
    <2>2. clock = Len(Existing)
      BY DEF Init
    <2>3. \A p \in Pages : wiki[p] <= clock
      BY <1>1, <1>2, <2>2
    <2> QED
      BY <1>1, <2>1, <2>2, <2>3 DEF WikiInv
  <1>4. docs = [p \in Pages |-> <<>>] /\ db.docs = docs
    BY DEF Init
  <1>5. Followed(docs, wiki, clock)
    BY <1>4 DEF Followed
  <1> QED
    BY <1>3, <1>4, <1>5 DEF VersionInv

LEMMA VersionStep == ASSUME VersionInv, [Next]_vars PROVE VersionInv'
  <1> USE DEF VersionInv
  <1>1. ASSUME NEW p \in Pages, Edit(p) PROVE VersionInv'
    <2>1. /\ clock' = clock + 1
          /\ wiki' = [wiki EXCEPT ![p] = clock + 1]
          /\ docs' = docs /\ db' = db
      BY <1>1 DEF Edit, sessionVars
    <2>2. WikiInv'
      BY <2>1 DEF WikiInv
    <2>3. Followed(docs', wiki', clock') /\ Followed(db'.docs, wiki', clock')
      BY <2>1, EditKeepsFollowed DEF WikiInv
    <2> QED
      BY <2>2, <2>3
  <1>2. ASSUME NEW p \in Pages, Delete(p) PROVE VersionInv'
    <2>1. /\ clock' = clock
          /\ wiki' = [wiki EXCEPT ![p] = Absent]
          /\ docs' = docs /\ db' = db
      BY <1>2 DEF Delete, sessionVars
    <2>2. WikiInv'
      BY <2>1 DEF WikiInv, Absent
    <2>3. Followed(docs', wiki', clock') /\ Followed(db'.docs, wiki', clock')
      BY <2>1, DeleteKeepsFollowed DEF WikiInv
    <2> QED
      BY <2>2, <2>3
  <1>3. ASSUME NEW p \in todo, PageIngested(p) PROVE VersionInv'
    <2>1. /\ clock' = clock /\ wiki' = wiki /\ db' = db
          /\ wiki[p] # Absent
          /\ docs' = Ingest(docs, p)
      BY <1>3 DEF PageIngested, PageStep, wikiVars
    <2>2. CASE p \in Pages
      BY <2>1, <2>2, IngestKeepsFollowed DEF WikiInv
    <2>3. CASE p \notin Pages
      <3>1. docs' = docs
        BY <2>1, <2>3 DEF Ingest, Followed
      <3> QED
        BY <2>1, <3>1 DEF WikiInv
    <2> QED
      BY <2>2, <2>3
  <1>4. ASSUME clock' = clock, wiki' = wiki,
               docs' \in {docs, db.docs}, db'.docs \in {docs, db.docs}
        PROVE  VersionInv'
    BY <1>4 DEF WikiInv
  <1>5. CASE Commit
    BY <1>4, <1>5 DEF Commit, wikiVars, sessionVars
  <1>6. CASE CommitBreaks
    BY <1>4, <1>6 DEF CommitBreaks, wikiVars
  <1>7. ASSUME NEW p \in todo, PageBreaks(p) PROVE VersionInv'
    BY <1>4, <1>7 DEF PageBreaks, PageStep, Breaks, wikiVars
  <1>8. CASE AdvanceBreaks
    BY <1>4, <1>8 DEF AdvanceBreaks, Breaks, wikiVars
  <1>9. CASE Crash
    BY <1>4, <1>9 DEF Crash, wikiVars
  <1>10. CASE BeginPass \/ Listing \/ ListingFails \/ PassFails \/ CommitRaises
    BY <1>4, <1>10 DEF BeginPass, Listing, MoreAnswers, NextQuery, Listed,
       ListingFails, PassFails, CommitRaises, wikiVars, sessionVars, vars
  <1>11. ASSUME NEW p \in todo, PageRejected(p) \/ PageFails(p) PROVE VersionInv'
    BY <1>4, <1>11 DEF PageRejected, PageFails, PageStep, wikiVars, sessionVars
  <1>12. CASE NextSpace \/ NextSpaceFails \/ LastSpace
    BY <1>4, <1>12 DEF NextSpace, NextSpaceFails, LastSpace, SpaceDone, wikiVars
  <1>13. CASE UNCHANGED vars
    BY <1>4, <1>13 DEF vars
  <1> QED
    BY <1>1, <1>2, <1>3, <1>5, <1>6, <1>7, <1>8, <1>9, <1>10, <1>11, <1>12,
       <1>13 DEF Next, Users, Scheduler, Faults

\* Whatever fails, is undone, listed again or left in the session, a document
\* never gets two versions of one revision, nor an older one after a newer one
\* (DocumentIngestionService.ingest under XWikiDocumentationSyncService).
THEOREM DocumentsFollowEdits == Spec => []VersionsFollowEdits
  <1>1. VersionInv => VersionsFollowEdits
    BY DEF VersionInv, Followed, VersionsFollowEdits
  <1> QED
    BY <1>1, VersionInit, VersionStep, PTL DEF Spec

-----------------------------------------------------------------------------
(* Type correctness.                                                       *)

\* What the assumption says of the constants, as the proofs use it.
LEMMA ConstantTypes ==
    /\ IsFiniteSet(Pages)
    /\ Len(Existing) \in Nat /\ MaxClock \in Nat /\ Len(Existing) <= MaxClock
    /\ MaxEdits \in Nat /\ MaxDeletes \in Nat /\ MaxFaults \in Nat /\ MaxCrashes \in Nat
    /\ PageSize \in Nat /\ PageSize > 0
    /\ NoMark \notin Nat
    /\ Len(Spaces) \in Nat /\ DOMAIN Spaces = 1 .. Len(Spaces) /\ 1 \in DOMAIN Spaces
  <1>1. Existing \in Seq(Pages) /\ Spaces \in Seq(Range(Spaces)) /\ Spaces # <<>>
    BY DocumentationAssumption
  <1>2. Len(Existing) \in Nat /\ MaxEdits \in Nat
    BY <1>1, DocumentationAssumption
  <1>3. Len(Spaces) \in Nat /\ DOMAIN Spaces = 1 .. Len(Spaces) /\ Len(Spaces) # 0
    BY <1>1, EmptySeq, LenProperties
  <1> QED
    BY <1>2, <1>3, DocumentationAssumption DEF MaxClock

WikiTypes ==
    /\ wiki \in [Pages -> 0..MaxClock]
    /\ clock \in Len(Existing)..MaxClock
    /\ deletes \in 0..MaxDeletes

SessionTypes ==
    /\ docs \in Documents /\ mark \in Watermarks /\ broken \in BOOLEAN
    /\ db \in [docs : Documents, mark : Watermarks]

CycleTypes ==
    /\ pc \in {"idle", "list", "page", "commit"}
    /\ at \in DOMAIN Spaces
    /\ since \in Marks
    /\ query \in {1, 2}
    /\ start \in Nat
    /\ found \in SUBSET Pages
    /\ todo \in SUBSET Pages
    /\ failed \in BOOLEAN

BoundTypes ==
    /\ faults \in 0..MaxFaults
    /\ crashes \in 0..MaxCrashes
    /\ raced \subseteq (DOMAIN Spaces) \X Pages

LEMMA TypeParts == TypeOK <=> WikiTypes /\ SessionTypes /\ CycleTypes /\ BoundTypes
  BY DEF TypeOK, WikiTypes, SessionTypes, CycleTypes, BoundTypes

LEMMA TypeInit == ASSUME Init PROVE TypeOK
  <1>1. wiki \in [Pages -> 0..MaxClock]
    <2>1. ASSUME NEW p \in Pages PROVE wiki[p] \in 0 .. Len(Existing)
      <3>1. DOMAIN Existing = 1 .. Len(Existing)
        BY DocumentationAssumption
      <3>2. CASE p \in Range(Existing)
        <4>1. \E n \in DOMAIN Existing : Existing[n] = p
          BY <3>2 DEF Range
        <4>2. wiki[p] \in DOMAIN Existing
          BY <3>2, <4>1 DEF Init
        <4> QED
          BY <3>1, <4>2, ConstantTypes
      <3>3. CASE p \notin Range(Existing)
        BY <3>3, ConstantTypes DEF Init, Absent
      <3> QED
        BY <3>2, <3>3
    <2>2. wiki = [p \in Pages |-> wiki[p]]
      BY DEF Init
    <2> QED
      BY <2>1, <2>2, ConstantTypes
  <1>2. docs = [p \in Pages |-> <<>>] /\ docs \in Documents
    BY DEF Init, Documents
  <1>3. mark \in Watermarks
    BY DEF Init, Watermarks, Marks
  <1>4. SessionTypes
    BY <1>2, <1>3 DEF Init, SessionTypes
  <1>5. WikiTypes
    BY <1>1, ConstantTypes DEF Init, WikiTypes
  <1>6. CycleTypes
    BY ConstantTypes DEF Init, CycleTypes, Marks
  <1>7. BoundTypes
    BY ConstantTypes DEF Init, BoundTypes
  <1> QED
    BY <1>4, <1>5, <1>6, <1>7, TypeParts

\* EndPass and StartSpace leave a cycle of the declared type.
LEMMA EndPassTypes == ASSUME CycleTypes, EndPass PROVE CycleTypes'
  BY ConstantTypes DEF CycleTypes, EndPass, NoRequest, Marks

LEMMA StartSpaceTypes ==
    ASSUME TypeOK, NEW i \in DOMAIN Spaces, StartSpace(i)
    PROVE  CycleTypes' /\ raced' \in SUBSET raced
  BY DEF TypeOK, CycleTypes, StartSpace, NoRequest, Watermarks

LEMMA IngestTypes ==
    ASSUME TypeOK, NEW p \in Pages, wiki[p] # Absent
    PROVE  Ingest(docs, p) \in Documents
  <1>1. wiki[p] \in 1 .. MaxClock
    BY ConstantTypes DEF TypeOK, Absent
  <1>2. docs \in [Pages -> Seq(1 .. MaxClock)]
    BY DEF TypeOK, Documents
  <1>3. Append(docs[p], wiki[p]) \in Seq(1 .. MaxClock)
    BY <1>1, <1>2
  <1> QED
    BY <1>2, <1>3 DEF Ingest, Documents

\* The step of a page only touches what the cycle keeps of it.
LEMMA PageStepTypes ==
    ASSUME TypeOK, NEW p \in todo, PageStep(p), failed' \in BOOLEAN,
           faults' \in 0 .. MaxFaults,
           docs' \in Documents, mark' \in Watermarks, broken' \in BOOLEAN
    PROVE  TypeOK'
  <1>1. WikiTypes'
    BY DEF TypeOK, WikiTypes, PageStep, wikiVars
  <1>2. CycleTypes'
    BY DEF TypeOK, CycleTypes, PageStep
  <1>3. SessionTypes' /\ BoundTypes'
    BY DEF TypeOK, SessionTypes, BoundTypes, PageStep
  <1> QED
    BY <1>1, <1>2, <1>3, TypeParts, PTL

\* The watermark of a finished space is a time.
LEMMA SpaceDoneTypes ==
    ASSUME TypeOK, SpaceDone
    PROVE  WikiTypes' /\ SessionTypes' /\ faults' = faults /\ crashes' = crashes
  <1>1. clock \in Marks
    BY ConstantTypes DEF TypeOK, Marks
  <1>2. mark' \in Watermarks
    BY <1>1 DEF TypeOK, SpaceDone, Watermarks
  <1> QED
    BY <1>2 DEF TypeOK, WikiTypes, SessionTypes, SpaceDone, wikiVars

LEMMA TypeStep == ASSUME TypeOK, [Next]_vars PROVE TypeOK'
  <1>0. WikiTypes /\ SessionTypes /\ CycleTypes /\ BoundTypes
    BY TypeParts
  <1> SUFFICES WikiTypes' /\ SessionTypes' /\ CycleTypes' /\ BoundTypes'
    BY TypeParts, PTL
  <1>1. ASSUME NEW p \in Pages, Edit(p)
        PROVE  WikiTypes' /\ SessionTypes' /\ CycleTypes' /\ BoundTypes'
    <2>1. clock' \in Len(Existing) .. MaxClock /\ clock' \in 0 .. MaxClock
      BY <1>0, <1>1, ConstantTypes DEF Edit, WikiTypes
    <2>2. WikiTypes'
      BY <1>0, <1>1, <2>1 DEF Edit, WikiTypes
    <2>3. BoundTypes'
      BY <1>0, <1>1 DEF Edit, BoundTypes, CycleTypes
    <2> QED
      BY <1>0, <1>1, <2>2, <2>3 DEF Edit, SessionTypes, CycleTypes, sessionVars, cycleVars
  <1>2. ASSUME NEW p \in Pages, Delete(p)
        PROVE  WikiTypes' /\ SessionTypes' /\ CycleTypes' /\ BoundTypes'
    <2>1. WikiTypes'
      BY <1>0, <1>2, ConstantTypes DEF Delete, WikiTypes, Absent
    <2>2. BoundTypes'
      BY <1>0, <1>2 DEF Delete, BoundTypes, CycleTypes
    <2> QED
      BY <1>0, <1>2, <2>1, <2>2
         DEF Delete, SessionTypes, CycleTypes, sessionVars, cycleVars
  <1>3. CASE BeginPass
    <2>1. CycleTypes' /\ raced' \in SUBSET raced
      BY <1>3, ConstantTypes, StartSpaceTypes DEF BeginPass
    <2> QED
      BY <1>0, <1>3, <2>1
         DEF BeginPass, WikiTypes, SessionTypes, BoundTypes, wikiVars, sessionVars
  <1>4. CASE Listing
    <2>1. CycleTypes'
      <3>1. Recent \in SUBSET Pages
        BY DEF Recent, Answer, Hits
      <3>2. start + PageSize \in Nat
        BY <1>0, ConstantTypes DEF CycleTypes
      <3> QED
        BY <1>0, <1>4, <3>1, <3>2
           DEF Listing, MoreAnswers, NextQuery, Listed, NoRequest, CycleTypes
    <2> QED
      BY <1>0, <1>4, <2>1 DEF Listing, MoreAnswers, NextQuery, Listed, WikiTypes,
         SessionTypes, BoundTypes, wikiVars, sessionVars
  <1>5. ASSUME NEW p \in todo,
               PageIngested(p) \/ PageRejected(p) \/ PageFails(p) \/ PageBreaks(p)
        PROVE  WikiTypes' /\ SessionTypes' /\ CycleTypes' /\ BoundTypes'
    <2> SUFFICES TypeOK'
      BY TypeParts, PTL
    <2>0. PageStep(p) /\ p \in Pages
      BY <1>0, <1>5
         DEF PageIngested, PageRejected, PageFails, PageBreaks, CycleTypes
    <2>1. CASE PageIngested(p)
      BY <1>0, <2>0, <2>1, IngestTypes, PageStepTypes
         DEF PageIngested, SessionTypes, CycleTypes, BoundTypes
    <2>2. CASE PageRejected(p) \/ PageFails(p) \/ PageBreaks(p)
      <3>1. faults' \in 0 .. MaxFaults
        BY <1>0, <2>2, ConstantTypes DEF PageRejected, PageFails, PageBreaks, BoundTypes
      <3>2. docs' \in Documents /\ mark' \in Watermarks /\ broken' \in BOOLEAN
        BY <1>0, <2>2
           DEF PageRejected, PageFails, PageBreaks, Breaks, SessionTypes, sessionVars
      <3>3. failed' \in BOOLEAN
        BY <2>2 DEF PageRejected, PageFails, PageBreaks
      <3> QED
        BY <2>0, <3>1, <3>2, <3>3, PageStepTypes
    <2> QED
      BY <1>5, <2>1, <2>2
  <1>6. CASE NextSpace
    <2>1. at + 1 \in DOMAIN Spaces /\ SpaceDone /\ StartSpace(at + 1)
      BY <1>0, <1>6, ConstantTypes DEF NextSpace, CycleTypes
    <2>2. WikiTypes' /\ SessionTypes' /\ faults' = faults /\ crashes' = crashes
      BY <2>1, SpaceDoneTypes
    <2>3. CycleTypes' /\ raced' \in SUBSET raced
      BY <2>1, StartSpaceTypes
    <2> QED
      BY <1>0, <2>2, <2>3 DEF BoundTypes
  <1>7. CASE NextSpaceFails \/ LastSpace
    <2>1. SpaceDone /\ raced' = raced
      BY <1>7 DEF NextSpaceFails, LastSpace
    <2>2. CycleTypes'
      BY <1>0, <1>7, EndPassTypes DEF NextSpaceFails, LastSpace, CycleTypes
    <2> QED
      BY <1>0, <2>1, <2>2, SpaceDoneTypes DEF BoundTypes
  <1>8. CASE ListingFails \/ AdvanceBreaks \/ Commit \/ CommitRaises \/ CommitBreaks \/ Crash
    <2>1. CycleTypes'
      BY <1>0, <1>8, EndPassTypes
         DEF ListingFails, AdvanceBreaks, Commit, CommitRaises, CommitBreaks, Crash
    <2>2. WikiTypes'
      BY <1>0, <1>8 DEF ListingFails, AdvanceBreaks, Commit, CommitRaises, CommitBreaks,
         Crash, WikiTypes, wikiVars
    <2>3. BoundTypes'
      BY <1>0, <1>8, ConstantTypes DEF ListingFails, AdvanceBreaks, Commit, CommitRaises,
         CommitBreaks, Crash, BoundTypes
    <2>4. SessionTypes'
      <3>1. CASE CommitBreaks
        <4>1. db' = db \/ db' = [docs |-> docs, mark |-> mark]
          BY <3>1 DEF CommitBreaks
        <4>2. db' \in [docs : Documents, mark : Watermarks]
          BY <1>0, <4>1 DEF SessionTypes
        <4> QED
          BY <3>1, <4>2 DEF CommitBreaks, SessionTypes
      <3>2. CASE AdvanceBreaks \/ Crash
        <4>1. broken' \in BOOLEAN /\ docs' = db.docs /\ mark' = db.mark /\ db' = db
          BY <3>2 DEF AdvanceBreaks, Crash, Breaks
        <4> QED
          BY <1>0, <4>1 DEF SessionTypes
      <3>3. CASE Commit
        <4>1. docs' = docs /\ mark' = mark /\ broken' = broken
          BY <3>3 DEF Commit, sessionVars
        <4>2. db' = [docs |-> docs, mark |-> mark]
          BY <3>3 DEF Commit
        <4>3. db' \in [docs : Documents, mark : Watermarks]
          BY <1>0, <4>2 DEF SessionTypes
        <4> QED
          BY <1>0, <4>1, <4>3 DEF SessionTypes
      <3>4. CASE ListingFails \/ CommitRaises
        BY <1>0, <3>4 DEF ListingFails, CommitRaises, SessionTypes, sessionVars
      <3> QED
        BY <1>8, <3>1, <3>2, <3>3, <3>4
    <2> QED
      BY <2>1, <2>2, <2>3, <2>4
  <1>9. CASE PassFails \/ UNCHANGED vars
    BY <1>0, <1>9
       DEF PassFails, vars, WikiTypes, SessionTypes, CycleTypes, BoundTypes
  <1> QED
    BY <1>1, <1>2, <1>3, <1>4, <1>5, <1>6, <1>7, <1>8, <1>9
       DEF Next, Users, Scheduler, Faults

\* The types of the wiki, of what the process holds and of what is committed.
THEOREM DocumentationTypes == Spec => []TypeOK
  BY TypeInit, TypeStep, PTL DEF Spec

-----------------------------------------------------------------------------
(* Watermarks.                                                             *)
(*                                                                         *)
(* WatermarkCovers speaks of committed documents and watermarks.  It holds *)
(* because it holds of the session's as well, because the cycle that moves *)
(* a watermark has listed every page that the new watermark passes and the *)
(* old one does not, and because a page leaves the listing only when it is *)
(* ingested or fails the cycle.  The paging loses none: an answer that     *)
(* ends a query contains all results that are due and were not listed yet. *)

\* What the watermarks m have passed is up to date in the documents d.
Covers(d, m, w, r) ==
    \A i \in DOMAIN Spaces, p \in Pages :
        /\ InSpace(p, i)
        /\ w[p] # Absent
        /\ <<i, p>> \notin r
        /\ m[i] # NoMark
        /\ w[p] <= m[i]
        => CurrentVersion(d, p) = w[p]

\* The committed watermarks are not ahead of the session's, nor those of time.
MarksInOrder ==
    \A i \in DOMAIN Spaces :
        /\ mark[i] # NoMark => mark[i] <= clock
        /\ db.mark[i] # NoMark => mark[i] # NoMark /\ db.mark[i] <= mark[i]

\* The pages that the cycle under way has to take care of.
Due(p) ==
    /\ InSpace(p, at)
    /\ wiki[p] # Absent
    /\ <<at, p>> \notin raced
    /\ Wanted(p)

\* A page that is due is listed already, or is among the results to come.
ListInv ==
    pc = "list" =>
        /\ since = mark[at]
        /\ \A p \in Pages : Due(p) =>
              /\ Matches(p, at, query) => p \in found \/ start <= Rank(p)
              /\ query = 2 /\ Matches(p, at, 1) => p \in found

\* A page that is due is still to do, or is ingested.
PageInv ==
    pc = "page" /\ ~failed =>
        /\ since = mark[at]
        /\ \A p \in Pages : Due(p) => p \in todo \/ CurrentVersion(docs, p) = wiki[p]

MarkInv ==
    /\ MarksInOrder
    /\ Covers(docs, mark, wiki, raced)
    /\ Covers(db.docs, db.mark, wiki, raced)
    /\ ListInv
    /\ PageInv

-----------------------------------------------------------------------------
(* The paging.                                                             *)

RankInv ==
    /\ IsFiniteSet(Hits) /\ Cardinality(Hits) \in Nat
    /\ \A p \in Pages : Rank(p) \in Nat /\ Rank(p) <= Cardinality(Hits)

LEMMA RankTypes == RankInv
  <1>1. IsFiniteSet(Hits)
    BY ConstantTypes, FS_Subset DEF Hits
  <1>2. ASSUME NEW p \in Pages
        PROVE  Rank(p) \in Nat /\ Rank(p) <= Cardinality(Hits)
    BY <1>1, FS_Subset, FS_CardinalityType DEF Rank
  <1> QED
    BY <1>1, <1>2, FS_CardinalityType DEF RankInv

\* Fewer results come before a younger page.
LEMMA YoungerComesFirst ==
    ASSUME TypeOK, NEW p \in Pages, NEW u \in Pages, wiki[u] <= wiki[p]
    PROVE  Rank(p) <= Rank(u)
  <1> DEFINE before(x) == {h \in Hits : wiki[h] > wiki[x]}
  <1>1. \A x \in Pages : wiki[x] \in Nat
    BY ConstantTypes DEF TypeOK
  <1>2. before(p) \subseteq before(u)
    BY <1>1 DEF Hits
  <1>3. IsFiniteSet(before(u))
    BY RankTypes, FS_Subset DEF RankInv
  <1> QED
    BY <1>2, <1>3, FS_Subset DEF Rank

LEMMA AnsweredOrLater ==
    ASSUME TypeOK, NEW p \in Pages, Due(p), Matches(p, at, query), start <= Rank(p)
    PROVE  p \in Recent \/ start + PageSize <= Rank(p)
  <1>1. Rank(p) \in Nat /\ start \in Nat /\ PageSize \in Nat
    BY RankTypes, ConstantTypes DEF TypeOK, RankInv
  <1> QED
    BY <1>1 DEF Recent, Answer, Hits, Due

\* The answer that ends a query holds what is left.
LEMMA LastAnswerHoldsRest ==
    ASSUME TypeOK, NEW p \in Pages, Due(p), Matches(p, at, query), start <= Rank(p),
           LastAnswer
    PROVE  p \in Recent
  <1>1. /\ Rank(p) \in Nat /\ start \in Nat /\ PageSize \in Nat
        /\ Cardinality(Hits) \in Nat /\ Rank(p) <= Cardinality(Hits)
    BY RankTypes, ConstantTypes DEF TypeOK, RankInv
  <1>2. CASE Recent # Answer
    <2>1. PICK u \in Answer : ~Wanted(u)
      BY <1>2 DEF Recent
    <2>2. u \in Pages /\ Rank(u) < start + PageSize
      BY <2>1 DEF Answer, Hits
    <2>3. wiki[u] \in Nat /\ wiki[p] \in Nat /\ (since = NoMark \/ since \in Nat)
      BY <2>2, ConstantTypes DEF TypeOK, Marks
    <2>4. wiki[u] <= wiki[p]
      BY <2>1, <2>3 DEF Wanted, Due
    <2>5. Rank(p) <= Rank(u) /\ Rank(u) \in Nat
      BY <2>2, <2>4, YoungerComesFirst, RankTypes DEF RankInv
    <2> QED
      BY <1>1, <2>2, <2>5, AnsweredOrLater
  <1>3. CASE Cardinality(Hits) < start + PageSize
    BY <1>1, <1>3, AnsweredOrLater
  <1> QED
    BY <1>2, <1>3 DEF LastAnswer

-----------------------------------------------------------------------------
(* What each kind of step does to the pages covered.                       *)

\* A watermark is a time that is over, or none.
LEMMA MarkTypes ==
    ASSUME TypeOK
    PROVE  /\ clock \in Nat /\ \A p \in Pages : wiki[p] \in Nat
           /\ \A i \in DOMAIN Spaces : /\ mark[i] = NoMark \/ mark[i] \in Nat
                                       /\ db.mark[i] = NoMark \/ db.mark[i] \in Nat
           /\ since = NoMark \/ since \in Nat
  BY ConstantTypes DEF TypeOK, Watermarks, Marks

\* An edit is younger than every watermark.
LEMMA EditKeepsCovers ==
    ASSUME TypeOK, NEW p \in Pages, Edit(p), NEW d, NEW m,
           \A i \in DOMAIN Spaces : m[i] # NoMark => m[i] \in Nat /\ m[i] <= clock,
           Covers(d, m, wiki, raced)
    PROVE  Covers(d, m, wiki', raced')
  <1>1. wiki \in [Pages -> 0 .. MaxClock] /\ wiki' = [wiki EXCEPT ![p] = clock + 1]
    BY DEF TypeOK, Edit
  <1>2. \A r \in raced : r[2] # p => r \in raced'
    BY DEF Edit
  <1> SUFFICES ASSUME NEW i \in DOMAIN Spaces, NEW q \in Pages,
                      InSpace(q, i), wiki'[q] # Absent, <<i, q>> \notin raced',
                      m[i] # NoMark, wiki'[q] <= m[i]
               PROVE  CurrentVersion(d, q) = wiki'[q]
    BY DEF Covers
  <1>3. q # p
    BY <1>1, MarkTypes
  <1>4. <<i, q>> \notin raced /\ wiki'[q] = wiki[q]
    BY <1>1, <1>2, <1>3
  <1> QED
    BY <1>4 DEF Covers

LEMMA DeleteKeepsCovers ==
    ASSUME TypeOK, NEW p \in Pages, Delete(p), NEW d, NEW m,
           Covers(d, m, wiki, raced)
    PROVE  Covers(d, m, wiki', raced')
  <1>1. wiki \in [Pages -> 0 .. MaxClock] /\ wiki' = [wiki EXCEPT ![p] = Absent]
        /\ raced \subseteq raced'
    BY DEF TypeOK, Delete
  <1> QED
    BY <1>1 DEF Covers

\* A cycle that starts takes care only of pages its watermark has not passed.
LEMMA StartKeepsCovers ==
    ASSUME TypeOK, NEW i \in DOMAIN Spaces, StartSpace(i), NEW d, NEW m,
           m[i] # NoMark => m[i] \in Nat /\ mark[i] # NoMark /\ m[i] <= mark[i],
           Covers(d, m, wiki, raced)
    PROVE  Covers(d, m, wiki, raced')
  <1> SUFFICES ASSUME NEW j \in DOMAIN Spaces, NEW q \in Pages,
                      InSpace(q, j), wiki[q] # Absent, <<j, q>> \notin raced',
                      m[j] # NoMark, wiki[q] <= m[j]
               PROVE  CurrentVersion(d, q) = wiki[q]
    BY DEF Covers
  <1>1. <<j, q>> \notin raced
    <2> SUFFICES ASSUME <<j, q>> \in raced PROVE FALSE
      OBVIOUS
    <2>1. j = i /\ ~(since' # NoMark /\ wiki[q] <= since') /\ since' = mark[i]
      BY DEF StartSpace
    <2> QED
      BY <2>1, MarkTypes
  <1> QED
    BY <1>1 DEF Covers

\* What ingest() does for the current version of each document.
LEMMA IngestMakesCurrent ==
    ASSUME TypeOK, NEW p \in Pages, wiki[p] # Absent
    PROVE  /\ CurrentVersion(Ingest(docs, p), p) = wiki[p]
           /\ \A q \in Pages : q # p =>
                 CurrentVersion(Ingest(docs, p), q) = CurrentVersion(docs, q)
  <1>1. CASE CurrentVersion(docs, p) = wiki[p]
    BY <1>1 DEF Ingest
  <1>2. CASE CurrentVersion(docs, p) # wiki[p]
    <2> DEFINE longer == Append(docs[p], wiki[p])
    <2>1. Ingest(docs, p) = [docs EXCEPT ![p] = longer]
      BY <1>2 DEF Ingest
    <2>2. docs \in [Pages -> Seq(1 .. MaxClock)] /\ wiki[p] \in 1 .. MaxClock
      BY ConstantTypes DEF TypeOK, Documents, Absent
    <2>3. longer \in Seq(1 .. MaxClock) /\ Len(longer) = Len(docs[p]) + 1
          /\ longer[Len(docs[p]) + 1] = wiki[p] /\ Len(docs[p]) \in Nat
      BY <2>2, AppendProperties
    <2>4. longer # <<>>
      BY <2>3
    <2> HIDE DEF longer
    <2>5. Ingest(docs, p)[p] = longer
          /\ \A q \in Pages : q # p => Ingest(docs, p)[q] = docs[q]
      BY <2>1, <2>2
    <2>6. Last(longer) = wiki[p]
      BY <2>3 DEF Last
    <2> QED
      BY <2>4, <2>5, <2>6 DEF CurrentVersion
  <1> QED
    BY <1>1, <1>2

LEMMA IngestKeepsCovers ==
    ASSUME TypeOK, NEW p \in Pages, wiki[p] # Absent, NEW m,
           Covers(docs, m, wiki, raced)
    PROVE  Covers(Ingest(docs, p), m, wiki, raced)
  BY IngestMakesCurrent DEF Covers

\* A cycle without failures has ingested what the new watermark passes.
LEMMA SpaceDoneCovers ==
    ASSUME TypeOK, MarkInv, SpaceDone
    PROVE  MarksInOrder' /\ Covers(docs, mark', wiki, raced)
  <1>1. at \in DOMAIN Spaces /\ mark \in [DOMAIN Spaces -> Marks]
    BY DEF TypeOK, Watermarks
  <1>2. CASE ~Advances
    <2>1. mark' = mark /\ db' = db /\ clock' = clock
      BY <1>2 DEF SpaceDone, wikiVars
    <2> QED
      BY <2>1 DEF MarkInv, MarksInOrder
  <1>3. CASE Advances
    <2>1. mark' = [mark EXCEPT ![at] = clock] /\ db' = db /\ clock' = clock
      BY <1>3 DEF SpaceDone, wikiVars
    <2>2. MarksInOrder'
      <3> SUFFICES ASSUME NEW i \in DOMAIN Spaces
                   PROVE  /\ mark'[i] # NoMark => mark'[i] <= clock
                          /\ db.mark[i] # NoMark =>
                                mark'[i] # NoMark /\ db.mark[i] <= mark'[i]
        BY <2>1 DEF MarksInOrder
      <3>1. mark[i] # NoMark => mark[i] <= clock
        BY DEF MarkInv, MarksInOrder
      <3>2. db.mark[i] # NoMark => mark[i] # NoMark /\ db.mark[i] <= mark[i]
        BY DEF MarkInv, MarksInOrder
      <3>3. clock # NoMark
        BY MarkTypes, ConstantTypes
      <3> QED
        BY <1>1, <2>1, <3>1, <3>2, <3>3, MarkTypes
    <2>3. ASSUME NEW i \in DOMAIN Spaces, NEW q \in Pages,
                 InSpace(q, i), wiki[q] # Absent, <<i, q>> \notin raced,
                 mark'[i] # NoMark, wiki[q] <= mark'[i]
          PROVE  CurrentVersion(docs, q) = wiki[q]
      <3>1. CASE i # at
        <4>1. mark'[i] = mark[i]
          BY <1>1, <2>1, <3>1
        <4> QED
          BY <2>3, <4>1 DEF MarkInv, Covers
      <3>2. CASE i = at
        <4>1. pc = "page" /\ ~failed /\ todo = {}
          BY <1>3 DEF SpaceDone, Advances
        <4>2. since = mark[at]
          BY <4>1 DEF MarkInv, PageInv
        <4>3. CASE Wanted(q)
          BY <2>3, <3>2, <4>1, <4>3 DEF MarkInv, PageInv, Due
        <4>4. CASE ~Wanted(q)
          <5>1. mark[at] # NoMark /\ wiki[q] <= mark[at]
            BY <4>2, <4>4, MarkTypes DEF Wanted
          <5> QED
            BY <2>3, <3>2, <5>1 DEF MarkInv, Covers
        <4> QED
          BY <4>3, <4>4
      <3> QED
        BY <3>1, <3>2
    <2> QED
      BY <2>2, <2>3 DEF Covers
  <1> QED
    BY <1>2, <1>3

-----------------------------------------------------------------------------
(* The invariant of the watermarks holds initially and is kept.            *)

LEMMA MarkInit == ASSUME Init PROVE MarkInv
  <1>1. \A i \in DOMAIN Spaces : mark[i] = NoMark /\ db.mark[i] = NoMark
    BY DEF Init
  <1> QED
    BY <1>1 DEF Init, MarkInv, MarksInOrder, Covers, ListInv, PageInv

\* Outside of a cycle nothing is asked of it.
LEMMA NoCycle ==
    ASSUME pc' \notin {"list", "page"} \/ (pc' = "page" /\ failed' = TRUE)
    PROVE  ListInv' /\ PageInv'
  BY DEF ListInv, PageInv

\* A cycle starts with everything still to come.
LEMMA StartIsComplete ==
    ASSUME NEW i \in DOMAIN Spaces, StartSpace(i), mark'[i] = mark[i]
    PROVE  ListInv' /\ PageInv'
  <1>1. pc' = "list" /\ at' = i /\ since' = mark'[at'] /\ query' = 1 /\ start' = 0
    BY DEF StartSpace, NoRequest
  <1>2. RankInv'
    BY RankTypes, PTL
  <1>3. ASSUME NEW p \in Pages PROVE start' <= Rank(p)'
    BY <1>1, <1>2 DEF RankInv
  <1> QED
    BY <1>1, <1>3 DEF ListInv, PageInv

\* An edit moves its page to the front of the results; all others stay behind
\* those they were behind.
LEMMA EditKeepsCycle ==
    ASSUME TypeOK, VersionInv, MarkInv, NEW p \in Pages, Edit(p)
    PROVE  ListInv' /\ PageInv'
  <1>1. wiki \in [Pages -> Nat] /\ clock \in Nat /\ (\A q \in Pages : wiki[q] <= clock)
        /\ wiki' = [wiki EXCEPT ![p] = clock + 1]
    BY DEF VersionInv, WikiInv, Edit
  <1>2. /\ pc' = pc /\ at' = at /\ since' = since /\ query' = query /\ start' = start
        /\ found' = found /\ todo' = todo /\ failed' = failed
        /\ mark' = mark /\ docs' = docs
    BY DEF Edit, sessionVars, cycleVars
  <1>3. ASSUME NEW q \in Pages, Due(q)', pc \in {"list", "page"}
        PROVE  q # p /\ Due(q) /\ wiki'[q] = wiki[q]
    <2>1. InSpace(q, at) /\ <<at, q>> \notin raced'
      BY <1>2, <1>3 DEF Due, InSpace, Matches
    <2>2. q # p
      BY <1>3, <2>1 DEF Edit
    <2>3. <<at, q>> \notin raced
      BY <2>1, <2>2 DEF Edit
    <2>4. wiki'[q] = wiki[q]
      BY <1>1, <2>2
    <2> QED
      BY <1>2, <1>3, <2>1, <2>2, <2>3, <2>4 DEF Due, Wanted
  <1>4. ASSUME NEW q \in Pages, wiki'[q] = wiki[q]
        PROVE  Rank(q) <= Rank(q)' /\ Rank(q)' \in Nat /\ Rank(q) \in Nat
    <2> DEFINE before == {h \in Hits : wiki[h] > wiki[q]}
               after == {h \in Hits' : wiki'[h] > wiki'[q]}
    <2>0. RankInv'
      BY RankTypes, PTL
    <2>1. before \subseteq after
      <3> SUFFICES ASSUME NEW h \in Hits, wiki[h] > wiki[q]
                   PROVE  h \in Hits' /\ wiki'[h] > wiki'[q]
        OBVIOUS
      <3>1. h \in Pages /\ wiki[h] # Absent /\ Matches(h, at, query)
        BY DEF Hits
      <3>2. wiki'[h] = wiki[h] \/ wiki'[h] = clock + 1
        BY <1>1, <3>1
      <3>3. wiki'[h] # Absent /\ wiki'[h] > wiki'[q]
        BY <1>1, <1>4, <3>1, <3>2 DEF Absent
      <3> QED
        BY <1>2, <3>1, <3>3 DEF Hits, Matches
    <2>2. IsFiniteSet(after)
      BY <2>0, FS_Subset DEF RankInv
    <2>3. Rank(q) = Cardinality(before) /\ Rank(q)' = Cardinality(after)
      BY DEF Rank
    <2> HIDE DEF before, after
    <2> QED
      BY <2>0, <2>1, <2>2, <2>3, FS_Subset, RankTypes DEF RankInv
  <1>5. ASSUME NEW q \in Pages, pc \in {"list", "page"}, Due(q)'
        PROVE  /\ Matches(q, at, query)' <=> Matches(q, at, query)
               /\ Matches(q, at, 1)' <=> Matches(q, at, 1)
               /\ CurrentVersion(docs, q)' = CurrentVersion(docs, q)
    BY <1>2 DEF Matches, CurrentVersion
  <1>6. ListInv'
    <2> SUFFICES ASSUME pc = "list", NEW q \in Pages, Due(q)'
                 PROVE  /\ Matches(q, at, query)' => q \in found' \/ start' <= Rank(q)'
                        /\ query' = 2 /\ Matches(q, at, 1)' => q \in found'
      BY <1>2 DEF ListInv, MarkInv
    <2>1. Due(q) /\ wiki'[q] = wiki[q]
      BY <1>3
    <2>2. /\ Matches(q, at, query) => q \in found \/ start <= Rank(q)
          /\ query = 2 /\ Matches(q, at, 1) => q \in found
      BY <2>1 DEF MarkInv, ListInv
    <2>3. Rank(q) <= Rank(q)' /\ Rank(q)' \in Nat /\ Rank(q) \in Nat /\ start \in Nat
      BY <1>4, <2>1 DEF TypeOK
    <2> QED
      BY <1>2, <1>5, <2>2, <2>3
  <1>7. PageInv'
    <2> SUFFICES ASSUME pc = "page", ~failed, NEW q \in Pages, Due(q)'
                 PROVE  q \in todo' \/ CurrentVersion(docs, q)' = wiki'[q]
      BY <1>2 DEF PageInv, MarkInv
    <2>1. Due(q) /\ wiki'[q] = wiki[q]
      BY <1>3
    <2> QED
      BY <1>2, <1>5, <2>1 DEF MarkInv, PageInv
  <1> QED
    BY <1>6, <1>7

\* A deletion in the space excuses all its pages; any other changes nothing for
\* them.
LEMMA DeleteKeepsCycle ==
    ASSUME TypeOK, MarkInv, NEW p \in Pages, Delete(p)
    PROVE  ListInv' /\ PageInv'
  <1>1. wiki \in [Pages -> 0 .. MaxClock] /\ wiki' = [wiki EXCEPT ![p] = Absent]
    BY DEF TypeOK, Delete
  <1>2. /\ pc' = pc /\ at' = at /\ since' = since /\ query' = query /\ start' = start
        /\ found' = found /\ todo' = todo /\ failed' = failed
        /\ mark' = mark /\ docs' = docs
    BY DEF Delete, sessionVars, cycleVars
  <1>3. ASSUME NEW q \in Pages, Due(q)'
        PROVE  /\ Due(q) /\ wiki'[q] = wiki[q]
               /\ pc = "list" => ~InSpace(p, at)
    <2>1. InSpace(q, at) /\ <<at, q>> \notin raced' /\ wiki'[q] # Absent
      BY <1>2, <1>3 DEF Due, InSpace, Matches
    <2>2. <<at, q>> \notin raced /\ (pc = "list" => ~InSpace(p, at))
      BY <2>1 DEF Delete
    <2>3. wiki'[q] = wiki[q]
      BY <1>1, <2>1
    <2> QED
      BY <1>2, <1>3, <2>1, <2>2, <2>3 DEF Due, Wanted
  <1>4. ASSUME NEW q \in Pages, Due(q)'
        PROVE  /\ Matches(q, at, query)' <=> Matches(q, at, query)
               /\ Matches(q, at, 1)' <=> Matches(q, at, 1)
               /\ CurrentVersion(docs, q)' = CurrentVersion(docs, q)
    BY <1>2 DEF Matches, CurrentVersion
  <1>5. ListInv'
    <2> SUFFICES ASSUME pc = "list", NEW q \in Pages, Due(q)'
                 PROVE  /\ Matches(q, at, query)' => q \in found' \/ start' <= Rank(q)'
                        /\ query' = 2 /\ Matches(q, at, 1)' => q \in found'
      BY <1>2 DEF ListInv, MarkInv
    <2>1. Due(q) /\ wiki'[q] = wiki[q] /\ ~InSpace(p, at)
      BY <1>3
    <2>2. \A h \in Pages : Matches(h, at, query) => h # p
      BY <2>1 DEF InSpace, TypeOK
    <2>3. Hits' = Hits /\ \A h \in Hits : wiki'[h] = wiki[h]
      BY <1>1, <1>2, <2>2 DEF Hits, Matches
    <2>4. Rank(q)' = Rank(q)
      <3>1. {h \in Hits' : wiki'[h] > wiki'[q]} = {h \in Hits : wiki[h] > wiki[q]}
        BY <2>1, <2>3
      <3> QED
        BY <3>1 DEF Rank
    <2>5. /\ Matches(q, at, query) => q \in found \/ start <= Rank(q)
          /\ query = 2 /\ Matches(q, at, 1) => q \in found
      BY <2>1 DEF MarkInv, ListInv
    <2> QED
      BY <1>2, <1>4, <2>4, <2>5
  <1>6. PageInv'
    <2> SUFFICES ASSUME pc = "page", ~failed, NEW q \in Pages, Due(q)'
                 PROVE  q \in todo' \/ CurrentVersion(docs, q)' = wiki'[q]
      BY <1>2 DEF PageInv, MarkInv
    <2>1. Due(q) /\ wiki'[q] = wiki[q]
      BY <1>3
    <2> QED
      BY <1>2, <1>4, <2>1 DEF MarkInv, PageInv
  <1> QED
    BY <1>5, <1>6

\* No answer loses a page that is due.
LEMMA ListingKeepsCycle ==
    ASSUME TypeOK, MarkInv, Listing
    PROVE  ListInv' /\ PageInv'
  <1>1. /\ pc = "list" /\ found' = found \cup Recent
        /\ at' = at /\ since' = since /\ wiki' = wiki /\ raced' = raced
        /\ mark' = mark /\ docs' = docs
    BY DEF Listing, MoreAnswers, NextQuery, Listed, wikiVars, sessionVars
  <1>2. \A q \in Pages : Due(q)' => Due(q)
    BY <1>1 DEF Due, Wanted, InSpace, Matches
  <1>3. since = mark[at]
    BY <1>1 DEF MarkInv, ListInv
  <1>4. ASSUME NEW q \in Pages, Due(q)
        PROVE  /\ Matches(q, at, query) => q \in found \/ start <= Rank(q)
               /\ query = 2 /\ Matches(q, at, 1) => q \in found
    BY <1>1, <1>4 DEF MarkInv, ListInv
  <1>5. ASSUME NEW q \in Pages, Due(q), LastAnswer, Matches(q, at, query)
        PROVE  q \in found'
    BY <1>1, <1>4, <1>5, LastAnswerHoldsRest
  <1>6. CASE MoreAnswers
    <2>1. query' = query /\ start' = start + PageSize /\ pc' = "list"
      BY <1>1, <1>6 DEF MoreAnswers
    <2> SUFFICES ASSUME NEW q \in Pages, Due(q)'
                 PROVE  /\ Matches(q, at, query)' => q \in found' \/ start' <= Rank(q)'
                        /\ query' = 2 /\ Matches(q, at, 1)' => q \in found'
      BY <1>1, <1>3, <2>1 DEF ListInv, PageInv
    <2>2. Due(q)
      BY <1>2
    <2>3. /\ Matches(q, at, query)' <=> Matches(q, at, query)
          /\ Matches(q, at, 1)' <=> Matches(q, at, 1)
      BY <1>1, <2>1 DEF Matches
    <2>4. Rank(q)' = Rank(q)
      <3>1. Hits' = Hits
        BY <1>1, <2>1 DEF Hits, Matches
      <3> QED
        BY <1>1, <3>1 DEF Rank
    <2>5. Matches(q, at, query) => q \in found' \/ start' <= Rank(q)
      BY <1>1, <1>4, <2>1, <2>2, AnsweredOrLater
    <2> QED
      BY <1>1, <1>4, <2>1, <2>2, <2>3, <2>4, <2>5
  <1>7. CASE NextQuery
    <2>1. LastAnswer /\ query = 1 /\ query' = 2 /\ start' = 0 /\ pc' = "list"
      BY <1>1, <1>7 DEF NextQuery
    <2> SUFFICES ASSUME NEW q \in Pages, Due(q)'
                 PROVE  /\ Matches(q, at, query)' => q \in found' \/ start' <= Rank(q)'
                        /\ query' = 2 /\ Matches(q, at, 1)' => q \in found'
      BY <1>1, <1>3, <2>1 DEF ListInv, PageInv
    <2>2. start' <= Rank(q)'
      <3>1. RankInv'
        BY RankTypes, PTL
      <3> QED
        BY <2>1, <3>1 DEF RankInv
    <2>3. Matches(q, at, 1)' <=> Matches(q, at, query)
      BY <1>1, <2>1 DEF Matches
    <2> QED
      BY <1>2, <1>5, <2>1, <2>2, <2>3
  <1>8. CASE Listed
    <2>1. LastAnswer /\ query = 2 /\ todo' = found' /\ pc' = "page"
      BY <1>1, <1>8 DEF Listed
    <2>2. ASSUME NEW q \in Pages, Due(q) PROVE q \in found'
      <3>1. Matches(q, at, 1) \/ Matches(q, at, query)
        BY <2>1, <2>2 DEF Due, InSpace
      <3> QED
        BY <1>1, <1>4, <1>5, <2>1, <2>2, <3>1
    <2> QED
      BY <1>1, <1>2, <1>3, <2>1, <2>2 DEF ListInv, PageInv
  <1> QED
    BY <1>6, <1>7, <1>8 DEF Listing

\* A page leaves the listing only when its document is current.
LEMMA PageStepKeepsCycle ==
    ASSUME TypeOK, MarkInv, NEW p \in todo,
           PageIngested(p) \/ PageRejected(p) \/ PageFails(p) \/ PageBreaks(p)
    PROVE  ListInv' /\ PageInv'
  <1>1. PageStep(p) /\ p \in Pages
    BY DEF PageIngested, PageRejected, PageFails, PageBreaks, TypeOK
  <1>2. /\ pc = "page" /\ pc' = pc /\ at' = at /\ since' = since /\ wiki' = wiki
        /\ raced' = raced /\ todo' = todo \ {p}
    BY <1>1 DEF PageStep, wikiVars
  <1>3. CASE PageRejected(p) \/ PageFails(p) \/ PageBreaks(p)
    <2>1. failed' = TRUE
      BY <1>3 DEF PageRejected, PageFails, PageBreaks
    <2> QED
      BY <1>2, <2>1, NoCycle
  <1>4. CASE PageIngested(p)
    <2>1. failed' = failed /\ mark' = mark /\ docs' = Ingest(docs, p)
          /\ wiki[p] # Absent
      BY <1>4 DEF PageIngested
    <2>2. \A q \in Pages : Due(q)' => Due(q)
      BY <1>2 DEF Due, Wanted, InSpace, Matches
    <2>3. /\ CurrentVersion(docs', p) = wiki[p]
          /\ \A q \in Pages : q # p => CurrentVersion(docs', q) = CurrentVersion(docs, q)
      BY <1>1, <2>1, IngestMakesCurrent
    <2>4. ASSUME ~failed, NEW q \in Pages, Due(q)
          PROVE  q \in todo' \/ CurrentVersion(docs', q) = wiki[q]
      <3>1. q \in todo \/ CurrentVersion(docs, q) = wiki[q]
        BY <1>2, <2>4 DEF MarkInv, PageInv
      <3> QED
        BY <1>2, <2>3, <3>1
    <2>5. ~failed => since = mark[at]
      BY <1>2 DEF MarkInv, PageInv
    <2> QED
      BY <1>2, <2>1, <2>2, <2>4, <2>5 DEF ListInv, PageInv
  <1> QED
    BY <1>3, <1>4

\* The session falls back to what is committed.
LEMMA FallBack ==
    ASSUME TypeOK, MarkInv, docs' = db.docs, mark' = db.mark, db' = db,
           wiki' = wiki, clock' = clock, raced' = raced
    PROVE  MarksInOrder' /\ Covers(docs', mark', wiki', raced')
           /\ Covers(db'.docs, db'.mark, wiki', raced')
  <1>1. MarksInOrder'
    <2> SUFFICES ASSUME NEW i \in DOMAIN Spaces
                 PROVE  db.mark[i] # NoMark => db.mark[i] <= clock /\ db.mark[i] <= db.mark[i]
      BY DEF MarksInOrder
    <2> QED
      BY MarkTypes DEF MarkInv, MarksInOrder
  <1> QED
    BY <1>1 DEF MarkInv

\* What the session holds becomes committed.
LEMMA CommitAll ==
    ASSUME TypeOK, MarkInv, docs' = docs, mark' = mark,
           db' = [docs |-> docs, mark |-> mark],
           wiki' = wiki, clock' = clock, raced' = raced
    PROVE  MarksInOrder' /\ Covers(docs', mark', wiki', raced')
           /\ Covers(db'.docs, db'.mark, wiki', raced')
  BY MarkTypes DEF MarkInv, MarksInOrder

LEMMA Undisturbed ==
    ASSUME TypeOK, MarkInv, docs' = docs, mark' = mark, db' = db,
           wiki' = wiki, clock' = clock, raced' = raced
    PROVE  MarksInOrder' /\ Covers(docs', mark', wiki', raced')
           /\ Covers(db'.docs, db'.mark, wiki', raced')
  BY DEF MarkInv, MarksInOrder

LEMMA MarkStep ==
    ASSUME TypeOK, VersionInv, MarkInv, [Next]_vars
    PROVE  MarkInv'
  <1> DEFINE Covered == /\ Covers(docs, mark, wiki, raced)
                        /\ Covers(db.docs, db.mark, wiki, raced)
  <1>0. MarksInOrder /\ Covered
    BY DEF MarkInv
  <1> SUFFICES MarksInOrder' /\ Covered' /\ ListInv' /\ PageInv'
    BY DEF MarkInv
  <1>1. ASSUME NEW p \in Pages, Edit(p)
        PROVE  MarksInOrder' /\ Covered' /\ ListInv' /\ PageInv'
    <2>1. clock' = clock + 1 /\ docs' = docs /\ mark' = mark /\ db' = db
      BY <1>1 DEF Edit, sessionVars
    <2>2. \A i \in DOMAIN Spaces :
             /\ mark[i] # NoMark => mark[i] \in Nat /\ mark[i] <= clock
             /\ db.mark[i] # NoMark => db.mark[i] \in Nat /\ db.mark[i] <= clock
      BY <1>0, MarkTypes DEF MarksInOrder
    <2>3. MarksInOrder'
      BY <1>0, <2>1, <2>2, MarkTypes DEF MarksInOrder
    <2>4. Covered'
      BY <1>0, <1>1, <2>1, <2>2, EditKeepsCovers
    <2> QED
      BY <1>1, <2>3, <2>4, EditKeepsCycle
  <1>2. ASSUME NEW p \in Pages, Delete(p)
        PROVE  MarksInOrder' /\ Covered' /\ ListInv' /\ PageInv'
    <2>1. clock' = clock /\ docs' = docs /\ mark' = mark /\ db' = db
      BY <1>2 DEF Delete, sessionVars
    <2>2. MarksInOrder'
      BY <1>0, <2>1 DEF MarksInOrder
    <2>3. Covered'
      BY <1>0, <1>2, <2>1, DeleteKeepsCovers
    <2> QED
      BY <1>2, <2>2, <2>3, DeleteKeepsCycle
  <1>3. CASE BeginPass
    <2>1. /\ StartSpace(1) /\ 1 \in DOMAIN Spaces
          /\ wiki' = wiki /\ clock' = clock
          /\ docs' = docs /\ mark' = mark /\ db' = db
      BY <1>3, ConstantTypes DEF BeginPass, wikiVars, sessionVars
    <2>2. MarksInOrder'
      BY <1>0, <2>1 DEF MarksInOrder
    <2>3. Covers(docs, mark, wiki, raced') /\ Covers(db.docs, db.mark, wiki, raced')
      BY <1>0, <2>1, StartKeepsCovers, MarkTypes DEF MarksInOrder
    <2> QED
      BY <2>1, <2>2, <2>3, StartIsComplete
  <1>4. CASE Listing
    <2>1. UNCHANGED <<wiki, clock, docs, mark, db, raced>>
      BY <1>4 DEF Listing, MoreAnswers, NextQuery, Listed, wikiVars, sessionVars
    <2> QED
      BY <1>4, <2>1, Undisturbed, ListingKeepsCycle
  <1>5. ASSUME NEW p \in todo, PageIngested(p)
        PROVE  MarksInOrder' /\ Covered' /\ ListInv' /\ PageInv'
    <2>1. /\ p \in Pages /\ wiki[p] # Absent /\ docs' = Ingest(docs, p)
          /\ UNCHANGED <<wiki, clock, mark, db, raced>>
      BY <1>5 DEF PageIngested, PageStep, wikiVars, TypeOK
    <2>2. MarksInOrder'
      BY <1>0, <2>1 DEF MarksInOrder
    <2>3. Covered'
      BY <1>0, <2>1, IngestKeepsCovers
    <2> QED
      BY <1>5, <2>2, <2>3, PageStepKeepsCycle
  <1>6. ASSUME NEW p \in todo, PageRejected(p) \/ PageFails(p)
        PROVE  MarksInOrder' /\ Covered' /\ ListInv' /\ PageInv'
    <2>1. UNCHANGED <<wiki, clock, docs, mark, db, raced>>
      BY <1>6 DEF PageRejected, PageFails, PageStep, wikiVars, sessionVars
    <2> QED
      BY <1>6, <2>1, Undisturbed, PageStepKeepsCycle
  <1>7. ASSUME NEW p \in todo, PageBreaks(p)
        PROVE  MarksInOrder' /\ Covered' /\ ListInv' /\ PageInv'
    <2>1. docs' = db.docs /\ mark' = db.mark /\ UNCHANGED <<wiki, clock, db, raced>>
      BY <1>7 DEF PageBreaks, Breaks, PageStep, wikiVars
    <2> QED
      BY <1>7, <2>1, FallBack, PageStepKeepsCycle
  <1>8. CASE NextSpace
    <2>1. /\ SpaceDone /\ StartSpace(at + 1) /\ at + 1 \in DOMAIN Spaces
          /\ wiki' = wiki /\ docs' = docs /\ db' = db
      BY <1>8, ConstantTypes DEF NextSpace, SpaceDone, TypeOK, wikiVars
    <2>2. MarksInOrder' /\ Covers(docs, mark', wiki, raced)
      BY <2>1, SpaceDoneCovers
    <2>3. mark \in [DOMAIN Spaces -> Marks] /\ at \in 1 .. Len(Spaces)
      BY ConstantTypes DEF TypeOK, Watermarks
    <2>4. mark'[at + 1] = mark[at + 1]
      BY <2>1, <2>3 DEF SpaceDone
    <2>5. mark'[at + 1] # NoMark =>
             /\ mark'[at + 1] \in Nat /\ mark[at + 1] # NoMark
             /\ mark'[at + 1] <= mark[at + 1]
      BY <2>1, <2>4, MarkTypes
    <2>6. Covers(docs, mark', wiki, raced')
      BY <2>1, <2>2, <2>5, StartKeepsCovers
    <2>7. Covers(db.docs, db.mark, wiki, raced')
      BY <1>0, <2>1, StartKeepsCovers, MarkTypes DEF MarksInOrder
    <2> QED
      BY <2>1, <2>2, <2>4, <2>6, <2>7, StartIsComplete
  <1>9. CASE NextSpaceFails \/ LastSpace
    <2>1. /\ SpaceDone /\ raced' = raced /\ pc' \notin {"list", "page"}
          /\ wiki' = wiki /\ docs' = docs /\ db' = db
      BY <1>9 DEF NextSpaceFails, LastSpace, EndPass, SpaceDone, wikiVars
    <2> QED
      BY <1>0, <2>1, SpaceDoneCovers, NoCycle
  <1>10. CASE ListingFails \/ CommitRaises
    <2>1. pc' = "idle" /\ UNCHANGED <<wiki, clock, docs, mark, db, raced>>
      BY <1>10 DEF ListingFails, CommitRaises, EndPass, wikiVars, sessionVars
    <2> QED
      BY <2>1, Undisturbed, NoCycle
  <1>11. CASE AdvanceBreaks \/ Crash
    <2>1. /\ pc' = "idle" /\ docs' = db.docs /\ mark' = db.mark
          /\ UNCHANGED <<wiki, clock, db, raced>>
      BY <1>11 DEF AdvanceBreaks, Crash, Breaks, EndPass, wikiVars
    <2> QED
      BY <2>1, FallBack, NoCycle
  <1>12. CASE Commit
    <2>1. /\ pc' = "idle" /\ db' = [docs |-> docs, mark |-> mark]
          /\ UNCHANGED <<wiki, clock, docs, mark, raced>>
      BY <1>12 DEF Commit, EndPass, wikiVars, sessionVars
    <2> QED
      BY <2>1, CommitAll, NoCycle
  <1>13. CASE CommitBreaks
    <2>1. /\ pc' = "idle" /\ docs' = db'.docs /\ mark' = db'.mark
          /\ db' = db \/ db' = [docs |-> docs, mark |-> mark]
          /\ UNCHANGED <<wiki, clock, raced>>
      BY <1>13 DEF CommitBreaks, EndPass, wikiVars
    <2>2. CASE db' = db
      BY <2>1, <2>2, FallBack, NoCycle
    <2>3. CASE db' = [docs |-> docs, mark |-> mark]
      BY <2>1, <2>3, CommitAll, NoCycle
    <2> QED
      BY <2>1, <2>2, <2>3
  <1>14. CASE PassFails \/ UNCHANGED vars
    <2>1. UNCHANGED vars
      BY <1>14 DEF PassFails
    <2>2. UNCHANGED <<wiki, clock, docs, mark, db, raced>>
      BY <2>1 DEF vars
    <2>3. ListInv' /\ PageInv'
      BY <2>1 DEF vars, MarkInv, ListInv, PageInv, Due, Wanted, Rank, Hits, InSpace,
         Matches, CurrentVersion
    <2> QED
      BY <2>2, <2>3, Undisturbed
  <1> QED
    BY <1>1, <1>2, <1>3, <1>4, <1>5, <1>6, <1>7, <1>8, <1>9, <1>10, <1>11, <1>12,
       <1>13, <1>14 DEF Next, Users, Scheduler, Faults

\* "Failed pages remain eligible for retry" (XWikiWatermarks): a committed
\* watermark never runs past a page that was not ingested, however many edits,
\* failed pages, lost transactions and answers of the search come before it.
THEOREM WatermarksCover == Spec => []WatermarkCovers
  <1>1. MarkInv => WatermarkCovers
    BY DEF MarkInv, Covers, WatermarkCovers, UpToDate
  <1> QED
    BY <1>1, MarkInit, MarkStep, TypeInit, TypeStep, VersionInit, VersionStep, PTL
       DEF Spec
=============================================================================
