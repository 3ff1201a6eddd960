----------------------- MODULE ProjectBootstrapProofs -----------------------
(***************************************************************************)
(* READY means a complete import, for every listing, hierarchy and page    *)
(* size and any number of runs and crashes.                                *)
(*                                                                         *)
(* ReadyIsComplete says nothing of a run under way.  The invariant adds    *)
(* what each stage of bootstrap() has achieved so far, and the reason why  *)
(* no page is skipped although failed runs leave checkpoints behind:       *)
(* the last_page that a run starts from is 0 until the import is complete, *)
(* since every status that bootstrap() itself saves writes back the one it *)
(* has loaded.                                                             *)
(***************************************************************************)
EXTENDS ProjectBootstrap, SequenceTheorems, TLAPS

\* The stages after the pages have been fetched, and those after them.
Fetched == {"relate", "link", "comment", "graph", "baseline", "complete"}
Linked == {"comment", "graph", "baseline", "complete"}
Discussed == {"graph", "baseline", "complete"}
Discovered == Fetched \cup {"fetch", "ingest"}

Stored(state, k) == k \in state.items /\ k \in state.attached /\ k \in state.baseline

Connected(state, k) ==
    /\ Parent[k] \in Listed(Listing) \ {k} => k \in state.linked
    /\ Relatable(k, Listed(Listing)) \subseteq state.related

Finished(state) ==
    /\ state.watermark
    /\ state.projects = Projects
    /\ \A k \in Listed(Listing) : Imported(state, k)

StartsFromPageOne ==
    /\ lastPage = 0
    /\ db.last_page = 0
    /\ pc = "idle" => session.last_page = 0
    /\ offset \in Nat \ {0}

ListingGrows ==
    /\ Len(Listing) <= Len(listing)
    /\ \A i \in 1 .. Len(Listing) : listing[i] = Listing[i]

\* The pages: what is behind the offset has been fetched, what has been
\* fetched is stored.
PagesInv ==
    /\ pc \in Discovered =>
          session.projects = Projects /\ \A k \in Listed(snapshots) : Stored(session, k)
    /\ pc = "fetch" =>
          \A i \in 1 .. Len(Listing) : i < offset => Listing[i] \in Listed(snapshots)
    /\ pc = "ingest" =>
          /\ \A i \in 1 .. Len(Listing) :
                i < offset + PageSize => Listing[i] \in Listed(snapshots) \cup Listed(todo)
          /\ size < PageSize => Len(Listing) < offset + PageSize
    /\ pc \in Fetched => Listed(Listing) \subseteq Listed(snapshots)

\* The second passes: what is not left to do has been done.
PassesInv ==
    /\ pc = "link" => \A k \in Listed(Listing) : k \in Listed(todo) \/ Connected(session, k)
    /\ pc \in Linked => \A k \in Listed(Listing) : Connected(session, k)
    /\ pc = "comment" =>
          \A k \in Listed(Listing) : k \in Listed(todo) \/ k \in session.commented
    /\ pc \in Discussed => Listed(Listing) \subseteq session.commented
    /\ pc = "complete" => session.watermark

\* Only a finished import is READY, and then no run is under way.
ReadyInv ==
    /\ session.status = "ready" => pc = "idle" /\ Finished(session)
    /\ db.status = "ready" => session.status = "ready" /\ Finished(db)

ImportInv ==
    /\ TypeOK
    /\ StartsFromPageOne
    /\ ListingGrows
    /\ PagesInv
    /\ PassesInv
    /\ ReadyInv

-----------------------------------------------------------------------------
(* Sequences of packages and what is listed in them.                        *)

LEMMA ListedEmpty == Listed(<< >>) = {}
  BY DEF Listed

LEMMA ListedHead ==
    ASSUME NEW s \in Seq(Packages), s # << >>
    PROVE  /\ Head(s) \in Packages
           /\ Head(s) \in Listed(s)
           /\ Tail(s) \in Seq(Packages)
           /\ Listed(s) \subseteq {Head(s)} \cup Listed(Tail(s))
  <1>1. /\ Head(s) \in Packages
        /\ Tail(s) \in Seq(Packages)
        /\ Len(Tail(s)) = Len(s) - 1
        /\ \A i \in 1 .. Len(Tail(s)) : Tail(s)[i] = s[i + 1]
    BY HeadTailProperties
  <1>2. Len(s) \in Nat \ {0} /\ DOMAIN s = 1 .. Len(s) /\ Head(s) = s[1]
    BY EmptySeq
  <1>3. ASSUME NEW i \in 1 .. Len(s), i # 1
        PROVE  s[i] \in Listed(Tail(s))
    <2>1. i - 1 \in 1 .. Len(Tail(s)) /\ Tail(s)[i - 1] = s[i]
      BY <1>1, <1>2, <1>3
    <2>2. DOMAIN Tail(s) = 1 .. Len(Tail(s))
      BY <1>1
    <2> QED
      BY <2>1, <2>2 DEF Listed
  <1> QED
    BY <1>1, <1>2, <1>3 DEF Listed

LEMMA ListedAppend ==
    ASSUME NEW s \in Seq(Packages), NEW k \in Packages
    PROVE  /\ Append(s, k) \in Seq(Packages)
           /\ Listed(Append(s, k)) = Listed(s) \cup {k}
  <1> DEFINE t == Append(s, k)
  <1>1. /\ t \in Seq(Packages)
        /\ Len(t) = Len(s) + 1
        /\ \A i \in 1 .. Len(s) : t[i] = s[i]
        /\ t[Len(s) + 1] = k
    BY AppendProperties
  <1>2. DOMAIN t = 1 .. Len(s) + 1 /\ DOMAIN s = 1 .. Len(s) /\ Len(s) \in Nat
    BY <1>1
  <1> HIDE DEF t
  <1>3. Listed(t) \subseteq Listed(s) \cup {k}
    BY <1>1, <1>2 DEF Listed
  <1>4. Listed(s) \cup {k} \subseteq Listed(t)
    BY <1>1, <1>2 DEF Listed
  <1> QED
    BY <1>1, <1>3, <1>4 DEF t

LEMMA ListedType ==
    ASSUME NEW s \in Seq(Packages)
    PROVE  Listed(s) \subseteq Packages
  BY DEF Listed

\* list_work_packages returns what is listed from the offset on, and less than
\* a page only at the end of the list.
LEMMA PageProperties ==
    ASSUME listing \in Seq(Packages), offset \in Nat \ {0}
    PROVE  /\ Page \in Seq(Packages)
           /\ Len(Page) \in 0 .. PageSize
           /\ \A i \in 1 .. Len(listing) :
                 offset <= i /\ i < offset + PageSize => listing[i] \in Listed(Page)
           /\ Len(Page) < PageSize => Len(listing) < offset + PageSize
  <1> DEFINE last == offset + PageSize - 1
             end == IF last < Len(listing) THEN last ELSE Len(listing)
  <1>1. PageSize \in Nat \ {0} /\ Len(listing) \in Nat
    BY BootstrapAssumption
  <1>2. end \in Nat /\ end <= Len(listing) /\ last \in Nat
    BY <1>1
  <1>3. Page = SubSeq(listing, offset, end)
    BY DEF Page
  <1>4. \A i \in offset .. end : listing[i] \in Packages
    BY <1>2
  <1> HIDE DEF end
  <1>5. /\ Page \in Seq(Packages)
        /\ Len(Page) = IF offset <= end THEN end - offset + 1 ELSE 0
        /\ \A i \in 1 .. end - offset + 1 : Page[i] = listing[offset + i - 1]
    BY <1>2, <1>3, <1>4, SubSeqProperties
  <1>6. ASSUME NEW i \in 1 .. Len(listing), offset <= i, i < offset + PageSize
        PROVE  listing[i] \in Listed(Page)
    <2>1. i <= end
      BY <1>1, <1>6 DEF end
    <2>2. /\ i - offset + 1 \in 1 .. end - offset + 1
          /\ i - offset + 1 \in 1 .. Len(Page)
      BY <1>2, <1>5, <1>6, <2>1
    <2>3. Page[i - offset + 1] = listing[offset + (i - offset + 1) - 1]
      BY <1>5, <2>2
    <2>4. offset + (i - offset + 1) - 1 = i
      BY <1>6
    <2> QED
      BY <1>5, <2>2, <2>3, <2>4 DEF Listed
  <1>7. Len(Page) \in 0 .. PageSize
    BY <1>1, <1>2, <1>5 DEF end
  <1>8. Len(Page) < PageSize => Len(listing) < offset + PageSize
    BY <1>1, <1>2, <1>5 DEF end
  <1> QED
    BY <1>5, <1>6, <1>7, <1>8

-----------------------------------------------------------------------------
(* The bootstrap state and the imported rows.                               *)

\* What is imported is the same in both.
SameImport(s, t) ==
    /\ s.projects = t.projects /\ s.nested = t.nested
    /\ s.items = t.items /\ s.linked = t.linked /\ s.related = t.related
    /\ s.attached = t.attached /\ s.baseline = t.baseline
    /\ s.commented = t.commented /\ s.watermark = t.watermark

\* _bootstrap_states.save leaves the import alone.
LEMMA SaveKeepsImport ==
    ASSUME session \in State, NEW st \in Statuses, NEW page \in Nat,
           Save(st, page)
    PROVE  /\ session' \in State
           /\ session'.status = st
           /\ session'.last_page = page
           /\ SameImport(session', session)
  BY DEF Save, State, SameImport

LEMMA UpsertedType ==
    ASSUME session \in State, NEW n \in 0 .. Len(Hierarchy)
    PROVE  /\ Upserted(n) \in State
           /\ n = Len(Hierarchy) => Upserted(n).projects = Projects
           /\ Upserted(n).status = session.status
  <1> DEFINE ps == {Hierarchy[i] : i \in 1 .. n}
  <1>1. DOMAIN Hierarchy = 1 .. Len(Hierarchy)
    BY BootstrapAssumption
  <1>2. ps \subseteq Projects
    BY <1>1 DEF Projects
  <1>3. n = Len(Hierarchy) => ps = Projects
    BY <1>1 DEF Projects
  <1>4. session.projects \subseteq Projects /\ session.nested \subseteq Projects
    BY DEF State
  <1> DEFINE ns == {Hierarchy[i] : i \in {j \in 1 .. n :
                        Above[Hierarchy[j]] \in session.projects
                                \cup {Hierarchy[m] : m \in 1 .. (j - 1)}}}
  <1>5. ns \subseteq ps
    OBVIOUS
  <1>6. Upserted(n) = [session EXCEPT !.projects = @ \cup ps, !.nested = @ \cup ns]
    BY DEF Upserted
  <1> HIDE DEF ps, ns
  <1> QED
    BY <1>2, <1>3, <1>4, <1>5, <1>6 DEF State

LEMMA IngestedType ==
    ASSUME session \in State, NEW k \in Packages
    PROVE  /\ ItemIngested(k) \in State
           /\ ItemIngested(k).projects = session.projects
           /\ ItemIngested(k).items = session.items \cup {k}
           /\ ItemIngested(k).attached = session.attached \cup {k}
           /\ ItemIngested(k).baseline = session.baseline
           /\ ItemIngested(k).status = session.status
           /\ ItemIngested(k).last_page = session.last_page
  <1>1. Linkable({k}) \subseteq Packages
    BY DEF Linkable
  <1>2. Relatable(k, session.items \cup {k}) \subseteq Relations
    BY DEF Relatable
  <1> QED
    BY <1>1, <1>2 DEF ItemIngested, State

-----------------------------------------------------------------------------
(* The invariant.                                                           *)

LEMMA ImportInit == ASSUME Init PROVE ImportInv
  <1>1. Empty \in State
    BY DEF Empty, State, Statuses
  <1>2. TypeOK
    BY <1>1, BootstrapAssumption DEF Init, TypeOK
  <1> QED
    BY <1>2, BootstrapAssumption
       DEF Init, ImportInv, StartsFromPageOne, ListingGrows, PagesInv, PassesInv,
           ReadyInv, Empty, Discovered, Fetched, Linked, Discussed

\* Steps that end the run, or begin one: nothing is claimed of a stage.
LEMMA OutsideStages ==
    ASSUME ImportInv, pc' \in {"idle", "discover"},
           listing' = listing, offset' = offset, lastPage' = lastPage,
           size' = size, todo' = todo, snapshots' = snapshots,
           visible' \in BOOLEAN, checkpoint' \in Nat, runs' \in 0 .. MaxRuns,
           faults' \in 0 .. MaxFaults,
           session' \in State, db' \in State,
           db'.last_page = 0, pc' = "idle" => session'.last_page = 0,
           ReadyInv'
    PROVE  ImportInv'
  BY DEF ImportInv, TypeOK, StartsFromPageOne, ListingGrows, PagesInv, PassesInv,
         Discovered, Fetched, Linked, Discussed

LEMMA StartStep == ASSUME ImportInv, Start PROVE ImportInv'
  <1>1. /\ session \in State /\ session.last_page = 0 /\ runs' \in 0 .. MaxRuns
        /\ lastPage' = 0 /\ lastPage = 0 /\ db.last_page = 0 /\ db \in State
        /\ Save("discovering", 0) /\ pc' = "discover" /\ session.status # "ready"
    BY BootstrapAssumption
       DEF Start, Begin, ImportInv, TypeOK, StartsFromPageOne, State
  <1>2. session' \in State /\ session'.status = "discovering"
    BY <1>1, SaveKeepsImport DEF Statuses
  <1>3. ReadyInv'
    BY <1>1, <1>2 DEF Start, ImportInv, ReadyInv
  <1> QED
    BY <1>1, <1>2, <1>3, OutsideStages DEF Start, ImportInv, TypeOK

LEMMA StartReadyStep == ASSUME ImportInv, StartReady PROVE ImportInv'
  <1>1. /\ pc' = "idle" /\ runs' \in 0 .. MaxRuns /\ UNCHANGED session
        /\ db' = session /\ session \in State /\ session.last_page = 0
    BY BootstrapAssumption
       DEF StartReady, Begin, ImportInv, TypeOK, StartsFromPageOne
  <1>2. ReadyInv'
    BY <1>1 DEF StartReady, ImportInv, ReadyInv, Finished, Imported, Connected
  <1> QED
    BY <1>1, <1>2, OutsideStages DEF StartReady, ImportInv, TypeOK, local

\* A run under way is not READY, in the session nor in the database.
LEMMA RunIsNotReady ==
    ASSUME ImportInv, pc # "idle"
    PROVE  session.status # "ready" /\ db.status # "ready"
  BY DEF ImportInv, ReadyInv

LEMMA NotVisibleStep == ASSUME ImportInv, NotVisible PROVE ImportInv'
  <1>1. /\ session \in State /\ lastPage = 0 /\ Save("failed", 0) /\ db' = session'
        /\ pc' = "idle"
    BY DEF NotVisible, ImportInv, TypeOK, StartsFromPageOne
  <1>2. session' \in State /\ session'.status = "failed" /\ session'.last_page = 0
    BY <1>1, SaveKeepsImport DEF Statuses
  <1>3. ReadyInv'
    BY <1>1, <1>2 DEF ReadyInv
  <1> QED
    BY <1>1, <1>2, <1>3, OutsideStages DEF NotVisible, ImportInv, TypeOK, local

\* Every failure writes the loaded last_page, 0, back.
LEMMA FailureStep ==
    ASSUME ImportInv, Raise \/ TextRaises \/ TextAborts
                      \/ \E n \in DOMAIN Hierarchy : DiscoverRaises(n)
    PROVE  ImportInv'
  <1>1. /\ session \in State /\ db \in State /\ lastPage = 0 /\ db.last_page = 0
        /\ todo \in Seq(Packages)
    BY DEF ImportInv, TypeOK, StartsFromPageOne
  <1>2. /\ pc # "idle" /\ pc' = "idle" /\ db' = db
        /\ UNCHANGED <<listing, visible, local, runs, faults>>
    BY DEF Raise, TextRaises, TextAborts, DiscoverRaises
  <1>3. /\ session' \in State /\ session'.last_page = 0
        /\ session'.status # "ready" /\ checkpoint' \in Nat
    <2>1. CASE Raise
      <3>1. Save("failed", 0) /\ checkpoint' = checkpoint
        BY <2>1, <1>1 DEF Raise
      <3> QED
        BY <3>1, <1>1, SaveKeepsImport DEF Statuses, ImportInv, TypeOK
    <2>2. CASE TextRaises
      <3>1. Head(todo) \in Packages
        BY <1>1, <2>2, ListedHead DEF TextRaises
      <3>2. /\ session' = [ItemIngested(Head(todo)) EXCEPT
                              !.status = "failed", !.last_page = 0]
            /\ checkpoint' = checkpoint
        BY <1>1, <2>2 DEF TextRaises
      <3> QED
        BY <1>1, <3>1, <3>2, IngestedType DEF State, Statuses, ImportInv, TypeOK
    <2>3. CASE TextAborts
      BY <1>1, <1>2, <2>3, RunIsNotReady DEF TextAborts, State
    <2>4. ASSUME NEW n \in DOMAIN Hierarchy, DiscoverRaises(n)
          PROVE  /\ session' \in State /\ session'.last_page = 0
                 /\ session'.status # "ready" /\ checkpoint' \in Nat
      <3>1. n \in 0 .. Len(Hierarchy)
        BY <2>4, BootstrapAssumption
      <3>2. /\ session' = [Upserted(n) EXCEPT !.status = "failed", !.last_page = 0]
            /\ checkpoint' = checkpoint
        BY <1>1, <2>4 DEF DiscoverRaises
      <3> QED
        BY <1>1, <3>1, <3>2, UpsertedType DEF State, Statuses, ImportInv, TypeOK
    <2> QED
      BY <2>1, <2>2, <2>3, <2>4
  <1>4. ReadyInv'
    BY <1>2, <1>3, RunIsNotReady DEF ReadyInv
  <1> QED
    BY <1>1, <1>2, <1>3, <1>4, OutsideStages DEF ImportInv, TypeOK, local

LEMMA AroundStep ==
    ASSUME ImportInv, OtherCommit \/ Crash PROVE ImportInv'
  <1>1. /\ session \in State /\ db \in State /\ db.last_page = 0
        /\ pc = "idle" => session.last_page = 0
    BY DEF ImportInv, TypeOK, StartsFromPageOne
  <1>2. CASE OtherCommit
    <2>1. /\ UNCHANGED <<listing, visible, session, pc, local, checkpoint, runs,
                         faults>>
          /\ pc = "idle" /\ db' = session
      BY <1>2 DEF OtherCommit
    <2>2. ReadyInv'
      BY <2>1 DEF ImportInv, ReadyInv, Finished, Imported
    <2> QED
      BY <1>1, <2>1, <2>2, OutsideStages DEF ImportInv, TypeOK, local
  <1>3. CASE Crash
    <2>1. /\ UNCHANGED <<listing, visible, db, local, runs>>
          /\ pc' = "idle" /\ session' = db
          /\ faults' \in 0 .. MaxFaults /\ checkpoint' \in Nat
      BY <1>1, <1>3, BootstrapAssumption DEF Crash, ImportInv, TypeOK
    <2>2. ReadyInv'
      BY <2>1 DEF ImportInv, ReadyInv, Finished, Imported
    <2> QED
      BY <1>1, <2>1, <2>2, OutsideStages DEF ImportInv, TypeOK, local
  <1> QED
    BY <1>2, <1>3

-----------------------------------------------------------------------------
(* The stages.                                                              *)

\* What a stage has to establish: the rest of the invariant is kept as long as
\* the database, the loaded state and the listing are.
LEMMA StageStep ==
    ASSUME ImportInv, pc # "idle", pc' \in Discovered,
           UNCHANGED <<listing, visible, db, lastPage, runs, faults>>,
           session' \in State, session'.status # "ready",
           offset' \in Nat \ {0}, size' \in 0 .. PageSize,
           todo' \in Seq(Packages), snapshots' \in Seq(Packages),
           checkpoint' \in Nat, PagesInv', PassesInv'
    PROVE  ImportInv'
  <1>1. TypeOK'
    BY DEF ImportInv, TypeOK, Discovered, Fetched
  <1>2. StartsFromPageOne' /\ ListingGrows'
    BY DEF ImportInv, StartsFromPageOne, ListingGrows, Discovered, Fetched
  <1>3. ReadyInv'
    BY RunIsNotReady DEF ReadyInv
  <1> QED
    BY <1>1, <1>2, <1>3 DEF ImportInv

LEMMA DiscoverStep == ASSUME ImportInv, Discover PROVE ImportInv'
  <1>1. /\ pc = "discover" /\ pc' = "fetch" /\ offset' = 1 /\ snapshots' = << >>
        /\ UNCHANGED <<listing, visible, db, lastPage, size, todo, checkpoint,
                       runs, faults>>
        /\ session' = [Upserted(Len(Hierarchy)) EXCEPT
                          !.status = "ingesting", !.last_page = 0]
        /\ session \in State
    BY DEF Discover, ImportInv, TypeOK, StartsFromPageOne
  <1>2. Len(Hierarchy) \in 0 .. Len(Hierarchy)
    BY BootstrapAssumption
  <1>3. /\ session' \in State /\ session'.status = "ingesting"
        /\ session'.projects = Projects
    BY <1>1, <1>2, UpsertedType DEF State, Statuses
  <1>4. PagesInv'
    BY <1>1, <1>3, ListedEmpty DEF PagesInv, Fetched
  <1>5. PassesInv'
    BY <1>1 DEF PassesInv, Linked, Discussed
  <1> QED
    BY <1>1, <1>3, <1>4, <1>5, StageStep DEF ImportInv, TypeOK, Discovered

LEMMA FetchStep == ASSUME ImportInv, Fetch PROVE ImportInv'
  <1>1. /\ pc = "fetch" /\ pc' = "ingest" /\ todo' = Page /\ size' = Len(Page)
        /\ UNCHANGED <<listing, visible, session, db, lastPage, offset,
                       snapshots, checkpoint, runs, faults>>
        /\ listing \in Seq(Packages) /\ offset \in Nat \ {0}
        /\ PageSize \in Nat \ {0} /\ Len(Listing) \in Nat /\ Len(listing) \in Nat
    BY BootstrapAssumption DEF Fetch, ImportInv, TypeOK, StartsFromPageOne
  <1>2. /\ Page \in Seq(Packages)
        /\ Len(Page) \in 0 .. PageSize
        /\ \A i \in 1 .. Len(listing) :
              offset <= i /\ i < offset + PageSize => listing[i] \in Listed(Page)
        /\ Len(Page) < PageSize => Len(listing) < offset + PageSize
    BY <1>1, PageProperties
  <1>3. /\ Len(Listing) <= Len(listing)
        /\ \A i \in 1 .. Len(Listing) : listing[i] = Listing[i]
    BY DEF ImportInv, ListingGrows
  <1>4. /\ session.projects = Projects
        /\ \A k \in Listed(snapshots) : Stored(session, k)
        /\ \A i \in 1 .. Len(Listing) : i < offset => Listing[i] \in Listed(snapshots)
    BY <1>1 DEF ImportInv, PagesInv, Discovered
  <1>5. ASSUME NEW i \in 1 .. Len(Listing), i < offset + PageSize
        PROVE  Listing[i] \in Listed(snapshots) \cup Listed(Page)
    <2>1. CASE i < offset
      BY <1>4, <2>1
    <2>2. CASE offset <= i
      BY <1>1, <1>2, <1>3, <1>5, <2>2
    <2> QED
      BY <1>1, <2>1, <2>2
  <1>6. PagesInv'
    <2>1. size' < PageSize => Len(Listing) < offset + PageSize
      BY <1>1, <1>2, <1>3
    <2>2. Listed(snapshots') = Listed(snapshots) /\ Listed(todo') = Listed(Page)
      BY <1>1
    <2> QED
      BY <1>1, <1>4, <1>5, <2>1, <2>2 DEF PagesInv, Fetched, Stored
  <1>7. PassesInv'
    BY <1>1 DEF PassesInv, Linked, Discussed
  <1> QED
    BY <1>1, <1>2, <1>6, <1>7, StageStep, RunIsNotReady
       DEF ImportInv, TypeOK, Discovered

LEMMA IngestOneStep == ASSUME ImportInv, IngestOne PROVE ImportInv'
  <1> DEFINE k == Head(todo)
  <1>1. /\ pc = "ingest" /\ todo # << >> /\ todo' = Tail(todo)
        /\ snapshots' = Append(snapshots, k)
        /\ session' = [ItemIngested(k) EXCEPT !.baseline = @ \cup {k}]
        /\ UNCHANGED <<listing, visible, db, pc, lastPage, offset, size,
                       checkpoint, runs, faults>>
        /\ session \in State /\ todo \in Seq(Packages) /\ snapshots \in Seq(Packages)
    BY DEF IngestOne, ImportInv, TypeOK
  <1>2. /\ k \in Packages /\ Tail(todo) \in Seq(Packages)
        /\ Listed(todo) \subseteq {k} \cup Listed(Tail(todo))
    BY <1>1, ListedHead
  <1>3. /\ snapshots' \in Seq(Packages)
        /\ Listed(snapshots') = Listed(snapshots) \cup {k}
    BY <1>1, <1>2, ListedAppend
  <1> HIDE DEF k
  <1>4. /\ session' \in State
        /\ session'.projects = session.projects
        /\ session'.items = session.items \cup {k}
        /\ session'.attached = session.attached \cup {k}
        /\ session'.baseline = session.baseline \cup {k}
        /\ session'.status = session.status
    BY <1>1, <1>2, IngestedType DEF State
  <1>5. /\ session.projects = Projects
        /\ \A j \in Listed(snapshots) : Stored(session, j)
        /\ \A i \in 1 .. Len(Listing) :
              i < offset + PageSize => Listing[i] \in Listed(snapshots) \cup Listed(todo)
        /\ size < PageSize => Len(Listing) < offset + PageSize
    BY <1>1 DEF ImportInv, PagesInv, Discovered
  <1>6. \A j \in Listed(snapshots') : Stored(session', j)
    BY <1>3, <1>4, <1>5 DEF Stored
  <1>7. \A i \in 1 .. Len(Listing) :
           i < offset + PageSize => Listing[i] \in Listed(snapshots') \cup Listed(todo')
    BY <1>1, <1>2, <1>3, <1>5
  <1>8. PagesInv'
    BY <1>1, <1>4, <1>5, <1>6, <1>7 DEF PagesInv, Fetched
  <1>9. PassesInv'
    BY <1>1 DEF PassesInv, Linked, Discussed
  <1>10. session'.status # "ready"
    BY <1>1, <1>4, RunIsNotReady
  <1>11. /\ todo' \in Seq(Packages)
         /\ pc' \in Discovered /\ offset' \in Nat \ {0} /\ size' \in 0 .. PageSize
         /\ checkpoint' \in Nat
    BY <1>1, <1>2 DEF ImportInv, TypeOK, StartsFromPageOne, Discovered
  <1> QED
    BY <1>1, <1>3, <1>4, <1>8, <1>9, <1>10, <1>11, StageStep

\* A status is saved: what is imported stays.
LEMMA SavedStage ==
    ASSUME ImportInv, pc # "idle", NEW st \in Statuses, NEW page \in Nat,
           Save(st, page)
    PROVE  /\ session' \in State /\ session'.status = st
           /\ session'.projects = session.projects
           /\ session'.commented = session.commented
           /\ \A k : Stored(session', k) = Stored(session, k)
           /\ \A k : Connected(session', k) = Connected(session, k)
  <1>1. session \in State
    BY DEF ImportInv, TypeOK
  <1>2. session' \in State /\ session'.status = st /\ SameImport(session', session)
    BY <1>1, SaveKeepsImport
  <1> QED
    BY <1>2 DEF SameImport, Stored, Connected

LEMMA PageDoneStep == ASSUME ImportInv, PageDone PROVE ImportInv'
  <1>1. /\ pc = "ingest" /\ todo = << >> /\ Save("ingesting", offset)
        /\ checkpoint' = offset /\ offset \in Nat \ {0} /\ PageSize \in Nat \ {0}
        /\ UNCHANGED <<listing, visible, db, lastPage, size, todo, snapshots,
                       runs, faults>>
        /\ Len(Listing) \in Nat /\ size \in 0 .. PageSize
    BY BootstrapAssumption DEF PageDone, ImportInv, TypeOK, StartsFromPageOne
  <1>2. /\ session.projects = Projects
        /\ \A j \in Listed(snapshots) : Stored(session, j)
        /\ \A i \in 1 .. Len(Listing) : i < offset + PageSize => Listing[i] \in Listed(snapshots)
        /\ size < PageSize => Len(Listing) < offset + PageSize
    BY <1>1, ListedEmpty DEF ImportInv, PagesInv, Discovered
  <1>3. /\ session' \in State /\ session'.status = "ingesting"
        /\ session'.projects = session.projects
        /\ \A j : Stored(session', j) = Stored(session, j)
    BY <1>1, SavedStage DEF Statuses
  <1>4. CASE size < PageSize
    <2>1. pc' = "relate" /\ offset' = offset
      BY <1>4 DEF PageDone
    <2>2. DOMAIN Listing = 1 .. Len(Listing)
      BY BootstrapAssumption
    <2>3. Listed(Listing) \subseteq Listed(snapshots)
      BY <1>1, <1>2, <1>4, <2>2 DEF Listed
    <2>4. PagesInv'
      BY <1>1, <1>2, <1>3, <2>1, <2>3 DEF PagesInv
    <2>5. PassesInv'
      BY <2>1 DEF PassesInv, Linked, Discussed
    <2> QED
      BY <1>1, <1>3, <2>1, <2>4, <2>5, StageStep
         DEF ImportInv, TypeOK, Discovered, Fetched
  <1>5. CASE ~(size < PageSize)
    <2>1. pc' = "fetch" /\ offset' = offset + PageSize
      BY <1>5 DEF PageDone
    <2>2. PagesInv'
      BY <1>1, <1>2, <1>3, <2>1 DEF PagesInv, Fetched
    <2>3. PassesInv'
      BY <2>1 DEF PassesInv, Linked, Discussed
    <2> QED
      BY <1>1, <1>3, <2>1, <2>2, <2>3, StageStep
         DEF ImportInv, TypeOK, Discovered, Fetched
  <1> QED
    BY <1>4, <1>5

\* After the pages, everything listed at first is stored.
LEMMA AllStored ==
    ASSUME ImportInv, pc \in Fetched
    PROVE  /\ session.projects = Projects
           /\ Listed(Listing) \subseteq Listed(snapshots)
           /\ \A k \in Listed(snapshots) : Stored(session, k)
  BY DEF ImportInv, PagesInv, Discovered

\* A stage that stores nothing new keeps what the pages brought.
LEMMA PagesKept ==
    ASSUME ImportInv, pc \in Fetched, pc' \in Fetched, UNCHANGED snapshots,
           session'.projects = session.projects,
           \A k : Stored(session, k) => Stored(session', k)
    PROVE  PagesInv'
  <1>1. pc' \notin {"fetch", "ingest"}
    BY DEF Fetched
  <1> QED
    BY <1>1, AllStored DEF PagesInv

LEMMA RelateStep == ASSUME ImportInv, Relate PROVE ImportInv'
  <1>1. /\ pc = "relate" /\ pc' = "link" /\ Save("ingesting", lastPage)
        /\ todo' = snapshots
        /\ UNCHANGED <<listing, visible, db, lastPage, offset, size, snapshots,
                       checkpoint, runs, faults>>
    BY DEF Relate
  <1>2. /\ session' \in State /\ session'.status = "ingesting"
        /\ session'.projects = session.projects
        /\ \A k : Stored(session', k) = Stored(session, k)
    BY <1>1, SavedStage DEF Statuses, ImportInv, TypeOK
  <1>3. PagesInv'
    BY <1>1, <1>2, PagesKept DEF Fetched
  <1>4. PassesInv'
    BY <1>1, AllStored DEF PassesInv, Fetched, Linked, Discussed
  <1> QED
    BY <1>1, <1>2, <1>3, <1>4, StageStep
       DEF ImportInv, TypeOK, StartsFromPageOne, Discovered, Fetched

\* The package at hand is linked to its parent and its relations: both ends are
\* imported by now.
LEMMA LinkConnects ==
    ASSUME ImportInv, LinkOne
    PROVE  /\ session' \in State
           /\ session'.status = session.status
           /\ session'.projects = session.projects
           /\ \A k : Stored(session, k) => Stored(session', k)
           /\ \A k : Connected(session, k) => Connected(session', k)
           /\ Head(todo) \in Listed(Listing) => Connected(session', Head(todo))
  <1> DEFINE h == Head(todo)
             linkable == Linkable({h} \cap session.items)
             relatable == Relatable(h, session.items)
  <1>1. /\ session \in State /\ pc \in Fetched
        /\ session' = [session EXCEPT !.linked = @ \cup linkable,
                                      !.related = @ \cup relatable]
    BY DEF LinkOne, ImportInv, TypeOK, Fetched
  <1>2. linkable \subseteq Packages /\ relatable \subseteq Relations
    BY <1>1 DEF Linkable, Relatable, State
  <1>3. h \in Listed(Listing) =>
           /\ Parent[h] \in Listed(Listing) \ {h} => h \in linkable
           /\ Relatable(h, Listed(Listing)) \subseteq relatable
    <2> SUFFICES ASSUME h \in Listed(Listing)
                 PROVE  /\ Parent[h] \in Listed(Listing) \ {h} => h \in linkable
                        /\ Relatable(h, Listed(Listing)) \subseteq relatable
      OBVIOUS
    <2>1. Listed(Listing) \subseteq session.items
      BY <1>1, AllStored DEF Stored
    <2> QED
      BY <2>1 DEF Linkable, Relatable
  <1> HIDE DEF linkable, relatable
  <1>4. /\ session' \in State /\ session'.status = session.status
        /\ session'.projects = session.projects
        /\ session'.items = session.items /\ session'.attached = session.attached
        /\ session'.baseline = session.baseline
        /\ session'.linked = session.linked \cup linkable
        /\ session'.related = session.related \cup relatable
    BY <1>1, <1>2 DEF State
  <1> HIDE DEF h
  <1>5. h \in Listed(Listing) => Connected(session', h)
    BY <1>3, <1>4 DEF Connected
  <1> QED
    BY <1>4, <1>5 DEF Stored, Connected, h

LEMMA LinkOneStep == ASSUME ImportInv, LinkOne PROVE ImportInv'
  <1>1. /\ pc = "link" /\ pc' = "link" /\ todo # << >> /\ todo' = Tail(todo)
        /\ UNCHANGED <<listing, visible, db, pc, lastPage, offset, size, snapshots,
                       checkpoint, runs, faults>>
        /\ todo \in Seq(Packages)
    BY DEF LinkOne, ImportInv, TypeOK
  <1>2. /\ Tail(todo) \in Seq(Packages)
        /\ Listed(todo) \subseteq {Head(todo)} \cup Listed(Tail(todo))
    BY <1>1, ListedHead
  <1>3. PagesInv'
    BY <1>1, LinkConnects, PagesKept DEF Fetched
  <1>4. \A k \in Listed(Listing) : k \in Listed(todo) \/ Connected(session, k)
    BY <1>1 DEF ImportInv, PassesInv
  <1>5. \A k \in Listed(Listing) : k \in Listed(todo') \/ Connected(session', k)
    BY <1>1, <1>2, <1>4, LinkConnects
  <1>6. PassesInv'
    BY <1>1, <1>5 DEF PassesInv, Linked, Discussed
  <1> QED
    BY <1>1, <1>2, <1>3, <1>6, LinkConnects, StageStep, RunIsNotReady
       DEF ImportInv, TypeOK, StartsFromPageOne, Discovered, Fetched

LEMMA LinkDoneStep == ASSUME ImportInv, LinkDone PROVE ImportInv'
  <1>1. /\ pc = "link" /\ pc' = "comment" /\ Save("ingesting", lastPage)
        /\ todo = << >> /\ todo' = snapshots
        /\ UNCHANGED <<listing, visible, db, lastPage, offset, size, snapshots,
                       checkpoint, runs, faults>>
    BY DEF LinkDone
  <1>2. /\ session' \in State /\ session'.status = "ingesting"
        /\ session'.projects = session.projects
        /\ \A k : Stored(session', k) = Stored(session, k)
        /\ \A k : Connected(session', k) = Connected(session, k)
    BY <1>1, SavedStage DEF Statuses, ImportInv, TypeOK
  <1>3. PagesInv'
    BY <1>1, <1>2, PagesKept DEF Fetched
  <1>4. \A k \in Listed(Listing) : Connected(session', k)
    BY <1>1, <1>2, ListedEmpty DEF ImportInv, PassesInv
  <1>5. PassesInv'
    BY <1>1, <1>4, AllStored DEF PassesInv, Fetched, Linked, Discussed
  <1> QED
    BY <1>1, <1>2, <1>3, <1>5, StageStep
       DEF ImportInv, TypeOK, StartsFromPageOne, Discovered, Fetched

LEMMA CommentOneStep == ASSUME ImportInv, CommentOne PROVE ImportInv'
  <1> DEFINE h == Head(todo)
  <1>1. /\ pc = "comment" /\ todo # << >> /\ todo' = Tail(todo)
        /\ session' = [session EXCEPT !.commented = @ \cup ({h} \cap session.items)]
        /\ UNCHANGED <<listing, visible, db, pc, lastPage, offset, size, snapshots,
                       checkpoint, runs, faults>>
        /\ session \in State /\ todo \in Seq(Packages)
    BY DEF CommentOne, Commented, ImportInv, TypeOK
  <1>2. /\ Tail(todo) \in Seq(Packages)
        /\ Listed(todo) \subseteq {h} \cup Listed(Tail(todo))
    BY <1>1, ListedHead
  <1> HIDE DEF h
  <1>3. /\ session' \in State /\ session'.status = session.status
        /\ session'.projects = session.projects
        /\ session'.items = session.items /\ session'.attached = session.attached
        /\ session'.baseline = session.baseline
        /\ session'.linked = session.linked /\ session'.related = session.related
        /\ session'.commented = session.commented \cup ({h} \cap session.items)
    BY <1>1 DEF State
  <1>4. /\ \A k : Stored(session', k) = Stored(session, k)
        /\ \A k : Connected(session', k) = Connected(session, k)
    BY <1>3 DEF Stored, Connected
  <1>5. PagesInv'
    BY <1>1, <1>3, <1>4, PagesKept DEF Fetched
  <1>6. /\ \A k \in Listed(Listing) : Connected(session, k)
        /\ \A k \in Listed(Listing) : k \in Listed(todo) \/ k \in session.commented
    BY <1>1 DEF ImportInv, PassesInv, Linked
  <1>7. Listed(Listing) \subseteq session.items
    BY <1>1, AllStored DEF Stored, Fetched
  <1>8. \A k \in Listed(Listing) : k \in Listed(todo') \/ k \in session'.commented
    BY <1>1, <1>2, <1>3, <1>6, <1>7
  <1>9. PassesInv'
    BY <1>1, <1>4, <1>6, <1>8 DEF PassesInv, Discussed
  <1> QED
    BY <1>1, <1>2, <1>3, <1>5, <1>9, StageStep, RunIsNotReady
       DEF ImportInv, TypeOK, StartsFromPageOne, Discovered, Fetched

LEMMA GraphStep == ASSUME ImportInv, BuildGraph \/ GraphDone PROVE ImportInv'
  <1>1. /\ pc \in Linked /\ pc' \in Discussed \ {"complete"}
        /\ \E st \in Statuses \ {"ready"} : Save(st, lastPage)
        /\ UNCHANGED <<listing, visible, db, lastPage, offset, size, todo,
                       snapshots, checkpoint, runs, faults>>
        /\ lastPage \in Nat
    BY DEF BuildGraph, GraphDone, Linked, Discussed, Statuses, local,
           ImportInv, TypeOK
  <1>2. /\ session' \in State /\ session'.status # "ready"
        /\ session'.projects = session.projects
        /\ session'.commented = session.commented
        /\ \A k : Stored(session', k) = Stored(session, k)
        /\ \A k : Connected(session', k) = Connected(session, k)
    BY <1>1, SavedStage DEF Linked
  <1>3. PagesInv'
    BY <1>1, <1>2, PagesKept DEF Fetched, Linked, Discussed
  <1>4. \A k \in Listed(Listing) : Connected(session, k)
    BY <1>1 DEF ImportInv, PassesInv
  <1>5. Listed(Listing) \subseteq session.commented
    BY ListedEmpty DEF BuildGraph, GraphDone, ImportInv, PassesInv, Discussed
  <1>6. PassesInv'
    BY <1>1, <1>2, <1>4, <1>5 DEF PassesInv, Discussed, Linked
  <1> QED
    BY <1>1, <1>2, <1>3, <1>6, StageStep
       DEF ImportInv, TypeOK, StartsFromPageOne, Discovered, Fetched, Linked,
           Discussed

LEMMA BaselineStep == ASSUME ImportInv, Baseline PROVE ImportInv'
  <1>1. /\ pc = "baseline" /\ pc' = "complete"
        /\ session' = [session EXCEPT !.watermark = TRUE]
        /\ UNCHANGED <<listing, visible, db, lastPage, offset, size, todo,
                       snapshots, checkpoint, runs, faults>>
        /\ session \in State
    BY DEF Baseline, local, ImportInv, TypeOK
  <1>2. /\ session' \in State /\ session'.status = session.status
        /\ session'.projects = session.projects
        /\ session'.items = session.items /\ session'.attached = session.attached
        /\ session'.baseline = session.baseline
        /\ session'.linked = session.linked /\ session'.related = session.related
        /\ session'.commented = session.commented
        /\ session'.watermark = TRUE
    BY <1>1 DEF State
  <1>3. PagesInv'
    BY <1>1, <1>2, PagesKept DEF Fetched, Stored
  <1>4. /\ \A k \in Listed(Listing) : Connected(session, k)
        /\ Listed(Listing) \subseteq session.commented
    BY <1>1 DEF ImportInv, PassesInv, Linked, Discussed
  <1>5. PassesInv'
    BY <1>1, <1>2, <1>4 DEF PassesInv, Connected
  <1> QED
    BY <1>1, <1>2, <1>3, <1>5, StageStep, RunIsNotReady
       DEF ImportInv, TypeOK, StartsFromPageOne, Discovered, Fetched

\* What the stages have established is what READY claims.
LEMMA CompleteStep == ASSUME ImportInv, Complete PROVE ImportInv'
  <1>1. /\ pc = "complete" /\ pc' = "idle" /\ Save("ready", 0) /\ db' = session'
        /\ checkpoint' = 0 /\ UNCHANGED <<listing, visible, local, runs, faults>>
        /\ session \in State
    BY DEF Complete, ImportInv, TypeOK, StartsFromPageOne
  <1>2. /\ session' \in State /\ session'.status = "ready" /\ session'.last_page = 0
        /\ SameImport(session', session)
    BY <1>1, SaveKeepsImport DEF Statuses
  <1>3. /\ session.watermark /\ session.projects = Projects
        /\ \A k \in Listed(Listing) :
              Stored(session, k) /\ Connected(session, k) /\ k \in session.commented
    BY <1>1, AllStored DEF ImportInv, PassesInv, Linked, Discussed, Fetched
  <1>4. Finished(session')
    BY <1>2, <1>3 DEF Finished, Imported, SameImport, Stored, Connected
  <1>5. ReadyInv'
    BY <1>1, <1>4 DEF ReadyInv
  <1> QED
    BY <1>1, <1>2, <1>5, OutsideStages DEF ImportInv, TypeOK, local

\* New packages come last in the listing.
LEMMA ProviderStep ==
    ASSUME ImportInv, Publish \/ \E k \in Packages : CreatePackage(k)
    PROVE  ImportInv'
  <1>1. CASE Publish
    BY <1>1 DEF Publish, local, ImportInv, TypeOK, StartsFromPageOne, ListingGrows,
       PagesInv, PassesInv, ReadyInv
  <1>2. ASSUME NEW k \in Packages, CreatePackage(k) PROVE ImportInv'
    <2>1. /\ listing' = Append(listing, k) /\ listing \in Seq(Packages)
          /\ UNCHANGED <<visible, session, db, pc, local, checkpoint, runs, faults>>
          /\ Listing \in Seq(Packages)
      BY <1>2, BootstrapAssumption DEF CreatePackage, ImportInv, TypeOK
    <2>2. /\ listing' \in Seq(Packages) /\ Len(listing') = Len(listing) + 1
          /\ \A i \in 1 .. Len(listing) : listing'[i] = listing[i]
      BY <2>1, AppendProperties
    <2>3. Len(listing) \in Nat /\ Len(Listing) \in Nat
      BY <2>1
    <2>4. ListingGrows'
      BY <2>2, <2>3 DEF ImportInv, ListingGrows
    <2>5. TypeOK' /\ StartsFromPageOne'
      BY <2>1, <2>2 DEF ImportInv, TypeOK, StartsFromPageOne, local
    <2>6. PagesInv' /\ PassesInv' /\ ReadyInv'
      BY <2>1 DEF ImportInv, PagesInv, PassesInv, ReadyInv, local
    <2> QED
      BY <2>4, <2>5, <2>6 DEF ImportInv
  <1> QED
    BY <1>1, <1>2

LEMMA ImportStep == ASSUME ImportInv, [Next]_vars PROVE ImportInv'
  <1>1. CASE Step
    BY <1>1, NotVisibleStep, DiscoverStep, FetchStep, IngestOneStep, PageDoneStep,
       RelateStep, LinkOneStep, LinkDoneStep, CommentOneStep, GraphStep,
       BaselineStep, CompleteStep DEF Step
  <1>2. CASE UNCHANGED vars
    BY <1>2 DEF vars, ImportInv, TypeOK, StartsFromPageOne, ListingGrows, PagesInv,
       PassesInv, ReadyInv
  <1> QED
    BY <1>1, <1>2, StartStep, StartReadyStep, FailureStep, AroundStep,
       ProviderStep DEF Next

LEMMA ImportCorrect == Spec => []ImportInv
  BY ImportInit, ImportStep, PTL DEF Spec

-----------------------------------------------------------------------------
(* The theorems.                                                            *)

\* Pages, offsets and the bootstrap state stay what bootstrap() takes them for.
THEOREM BootstrapTypes == Spec => []TypeOK
  BY ImportCorrect, PTL DEF ImportInv

\* READY is only said of a project whose packages of the start were imported
\* with everything that belongs to them: no page is skipped by a checkpoint that
\* a failed run left behind, no parent or relation by the order of the pages
\* (OpenProjectProjectBootstrapService.bootstrap).
THEOREM ReadyMeansComplete == Spec => []ReadyIsComplete
  <1>1. ImportInv => ReadyIsComplete
    BY DEF ImportInv, ReadyInv, ReadyIsComplete, Finished
  <1> QED
    BY <1>1, ImportCorrect, PTL

\* A committed READY is never taken back: a later run returns at once, and no
\* run can be under way when it is committed.
THEOREM ReadyStays == Spec => ReadyIsFinal
  <1>1. ASSUME ImportInv, ImportInv', [Next]_vars, db.status = "ready"
        PROVE  db'.status = "ready"
    <2>1. pc = "idle" /\ session.status = "ready"
      BY <1>1 DEF ImportInv, ReadyInv
    <2> QED
      BY <1>1, <2>1 DEF Next, Step, vars, Start, StartReady, NotVisible, Discover,
         Fetch, IngestOne, PageDone, Relate, LinkOne, LinkDone, CommentOne,
         BuildGraph, GraphDone, Baseline, Complete, Raise, OtherCommit, Crash,
         DiscoverRaises, TextRaises, TextAborts, Publish, CreatePackage
  <1>2. ImportInv /\ ImportInv' /\ [Next]_vars
           => [db.status = "ready" => db'.status = "ready"]_vars
    BY <1>1
  <1> QED
    BY <1>2, ImportCorrect, PTL DEF Spec, ReadyIsFinal
=============================================================================
