-------------------------- MODULE ProjectBootstrap --------------------------
(***************************************************************************)
(* The import of an existing OpenProject project                           *)
(* (src/brain/application/openproject_bootstrap.py), run by the worker as  *)
(* BOOTSTRAP_PROJECT: discover the projects, fetch the work packages page  *)
(* by page, link parents and relations in a second pass, import comments,  *)
(* set the watermark.  Any step may raise; the worker then runs the        *)
(* command again in the same session, or gives it up, and a later command  *)
(* commits what is left.  (The nodes that the import puts into the graph   *)
(* decide nothing here: see KnowledgeGraph.)                               *)
(*                                                                         *)
(* offset is the 1-based index of the first package of a page, as the      *)
(* repository's fakes of the provider have it.  Packages keep their order  *)
(* in the listing and new ones come last.                                  *)
(***************************************************************************)
EXTENDS Naturals, Sequences, FiniteSets

CONSTANTS
    Packages,       \* work packages
    Listing,        \* those of the project at first, in listing order
    Parent,         \* the parent of a package, or NoParent
    NoParent,
    Relations,      \* relations as the packages list them
    TextAttachments,\* packages with a text file attached
    Hierarchy,      \* the projects that the API user sees, in listing order
    Above,          \* the parent of a project, or NoParent
    PageSize,       \* page_size
    MaxRuns,        \* bound on runs of the command
    MaxFaults       \* bound on crashes

Projects == {Hierarchy[i] : i \in DOMAIN Hierarchy}

ASSUME BootstrapAssumption ==
    /\ Listing \in Seq(Packages)
    /\ Parent \in [Packages -> Packages \cup {NoParent}]
    /\ Relations \subseteq [on : Packages, source : Packages,
                            target : Packages, mapped : BOOLEAN]
    /\ TextAttachments \subseteq Packages
    /\ Hierarchy \in Seq(Projects)
    /\ Above \in [Projects -> Projects \cup {NoParent}]
    /\ PageSize \in Nat \ {0}
    /\ MaxRuns \in Nat
    /\ MaxFaults \in Nat

VARIABLES
    listing,    \* the project's packages in OpenProject
    visible,    \* the project exists for the API user
    session,    \* bootstrap state and imported rows, as the worker sees them
    db,         \* the same as committed
    pc,         \* where bootstrap() is
    lastPage,   \* last_page of its variable state
    offset,     \* offset of _fetch_all_work_packages
    size,       \* length of the page it fetched last
    todo,       \* packages the current loop has yet to handle
    snapshots,  \* packages fetched by this run, in their order
    checkpoint, \* history: the last page this process saved
    runs,       \* runs so far
    faults      \* crashes so far

local == <<lastPage, offset, size, todo, snapshots>>
vars == <<listing, visible, session, db, pc, lastPage, offset, size, todo,
          snapshots, checkpoint, runs, faults>>

Statuses == {"none", "connected", "discovering", "ingesting",
             "building_graph", "establishing_baseline", "ready", "failed"}

\* ProviderBootstrapState; the projects, and those of them that know their
\* parent; the work items, those of them linked to their parent, the relations,
\* the packages whose attachments, snapshot and comments are stored; and
\* whether the watermark is set.
State == [status : Statuses, last_page : Nat, projects : SUBSET Projects,
          nested : SUBSET Projects, items : SUBSET Packages,
          linked : SUBSET Packages, related : SUBSET Relations,
          attached : SUBSET Packages, baseline : SUBSET Packages,
          commented : SUBSET Packages, watermark : BOOLEAN]

TypeOK ==
    /\ listing \in Seq(Packages)
    /\ visible \in BOOLEAN
    /\ session \in State
    /\ db \in State
    /\ pc \in {"idle", "discover", "fetch", "ingest", "relate", "link",
               "comment", "graph", "baseline", "complete"}
    /\ lastPage \in Nat
    /\ offset \in Nat
    /\ size \in 0..PageSize
    /\ todo \in Seq(Packages)
    /\ snapshots \in Seq(Packages)
    /\ checkpoint \in Nat
    /\ runs \in 0..MaxRuns
    /\ faults \in 0..MaxFaults

Listed(list) == {list[i] : i \in DOMAIN list}

Empty == [status |-> "none", last_page |-> 0, projects |-> {}, nested |-> {},
          items |-> {}, linked |-> {}, related |-> {}, attached |-> {},
          baseline |-> {}, commented |-> {}, watermark |-> FALSE]

Init ==
    /\ listing = Listing
    /\ visible \in BOOLEAN
    /\ session = Empty
    /\ db = Empty
    /\ pc = "idle"
    /\ lastPage = 0
    /\ offset = 1
    /\ size = 0
    /\ todo = << >>
    /\ snapshots = << >>
    /\ checkpoint = 0
    /\ runs = 0
    /\ faults = 0

Save(status, page) ==
    session' = [session EXCEPT !.status = status, !.last_page = page]

-----------------------------------------------------------------------------
(* OpenProject, while the import runs.                                      *)

CreatePackage(k) ==
    /\ k \notin Listed(listing)
    /\ listing' = Append(listing, k)
    /\ UNCHANGED <<visible, session, db, pc, local, checkpoint, runs, faults>>

Publish ==
    /\ ~visible
    /\ visible' = TRUE
    /\ UNCHANGED <<listing, session, db, pc, local, checkpoint, runs, faults>>

-----------------------------------------------------------------------------
(* bootstrap(), from the beginning on every run.                            *)

Begin ==
    /\ runs < MaxRuns
    /\ runs' = runs + 1
    /\ pc = "idle"

\* Mutant: a finished import is run again.
StartAlways ==
    /\ Begin
    /\ lastPage' = session.last_page
    /\ Save("discovering", session.last_page)
    /\ pc' = "discover"
    /\ UNCHANGED <<listing, visible, db, offset, size, todo, snapshots,
                   checkpoint, faults>>

\* Loads or creates the state.
Start ==
    /\ Begin
    /\ session.status # "ready"
    /\ lastPage' = session.last_page
    /\ Save("discovering", session.last_page)
    /\ pc' = "discover"
    /\ UNCHANGED <<listing, visible, db, offset, size, todo, snapshots,
                   checkpoint, faults>>

\* "bootstrap already completed; set force to re-run": the worker commits.
StartReady ==
    /\ Begin
    /\ session.status = "ready"
    /\ db' = session
    /\ UNCHANGED <<listing, visible, session, pc, local, checkpoint, faults>>

\* _fail_definitive returns, so that the worker commits.
NotVisible ==
    /\ pc = "discover"
    /\ ~visible
    /\ Save("failed", lastPage)
    /\ db' = session'
    /\ pc' = "idle"
    /\ UNCHANGED <<listing, visible, local, checkpoint, runs, faults>>

\* upsert_project for the first n projects of the listing: the parent of a
\* project is looked up when it is its turn.
Upserted(n) ==
    LET before(i) == session.projects \cup {Hierarchy[j] : j \in 1..(i - 1)}
    IN  [session EXCEPT
           !.projects = @ \cup {Hierarchy[i] : i \in 1..n},
           !.nested = @ \cup {Hierarchy[i] :
                        i \in {j \in 1..n : Above[Hierarchy[j]] \in before(j)}}]

Discover ==
    /\ pc = "discover"
    /\ visible
    /\ session' = [Upserted(Len(Hierarchy)) EXCEPT
                      !.status = "ingesting", !.last_page = lastPage]
    /\ offset' = IF lastPage > 1 THEN lastPage ELSE 1
    /\ snapshots' = << >>
    /\ pc' = "fetch"
    /\ UNCHANGED <<listing, visible, db, lastPage, size, todo, checkpoint,
                   runs, faults>>

\* The graph does not answer: unlike that of a work item, the node of a project
\* is no best effort (_upsert_project_node).
DiscoverRaises(n) ==
    /\ pc = "discover"
    /\ visible
    /\ session' = [Upserted(n) EXCEPT !.status = "failed", !.last_page = lastPage]
    /\ pc' = "idle"
    /\ UNCHANGED <<listing, visible, db, local, checkpoint, runs, faults>>

\* Mutant: the page has one package too many.
PageTooLong ==
    LET last == offset + PageSize
    IN  SubSeq(listing, offset, IF last < Len(listing) THEN last
                                                       ELSE Len(listing))

\* list_work_packages.
Page ==
    LET last == offset + PageSize - 1
    IN  SubSeq(listing, offset, IF last < Len(listing) THEN last
                                                       ELSE Len(listing))

Fetch ==
    /\ pc = "fetch"
    /\ todo' = Page
    /\ size' = Len(Page)
    /\ pc' = "ingest"
    /\ UNCHANGED <<listing, visible, session, db, lastPage, offset, snapshots,
                   checkpoint, runs, faults>>

\* The packages of a set whose parent is imported: _resolve_parent finds it.
Linkable(set) == {k \in set : Parent[k] \in session.items \ {k}}

\* The relations a package lists whose type is known (_map_relation_type) and
\* whose two ends are different imported packages.
Relatable(k, items) ==
    {r \in Relations : /\ r.on = k /\ r.mapped
                       /\ r.source # r.target
                       /\ {r.source, r.target} \subseteq items}

\* The work item, the links and relations to packages imported already, and
\* the rows of its attachments.
ItemIngested(k) ==
    [session EXCEPT
       !.items = @ \cup {k},
       !.linked = @ \cup Linkable({k}),
       !.related = @ \cup Relatable(k, session.items \cup {k}),
       !.attached = @ \cup {k}]

\* ingest_work_item_snapshot in BOOTSTRAP mode.
IngestOne ==
    /\ pc = "ingest"
    /\ todo # << >>
    /\ session' = [ItemIngested(Head(todo)) EXCEPT !.baseline = @ \cup {Head(todo)}]
    /\ snapshots' = Append(snapshots, Head(todo))
    /\ todo' = Tail(todo)
    /\ UNCHANGED <<listing, visible, db, pc, lastPage, offset, size,
                   checkpoint, runs, faults>>

\* The text of a new attachment cannot be ingested as a document: the snapshot
\* is not saved, and the next run finds the attachment and leaves its text out.
TextRaises ==
    /\ pc = "ingest"
    /\ todo # << >>
    /\ Head(todo) \in TextAttachments \ session.attached
    /\ session' = [ItemIngested(Head(todo)) EXCEPT
                      !.status = "failed", !.last_page = lastPage]
    /\ pc' = "idle"
    /\ UNCHANGED <<listing, visible, db, local, checkpoint, runs, faults>>

\* The text is ingested, and the attachment is created once more, with its own
\* id, to say so: the insert fails, PostgreSQL undoes the transaction and
\* FAILED cannot be saved in it.
TextAborts ==
    /\ pc = "ingest"
    /\ todo # << >>
    /\ Head(todo) \in TextAttachments \ session.attached
    /\ session' = db
    /\ pc' = "idle"
    /\ checkpoint' = db.last_page
    /\ UNCHANGED <<listing, visible, db, local, runs, faults>>

\* Mutant: after a full page the pages are fetched again from the first on, into
\* a new list.
PageDoneStartsOver ==
    /\ pc = "ingest"
    /\ todo = << >>
    /\ Save("ingesting", offset)
    /\ checkpoint' = offset
    /\ IF size < PageSize
       THEN pc' = "relate" /\ UNCHANGED <<offset, snapshots>>
       ELSE pc' = "fetch" /\ offset' = 1 /\ snapshots' = << >>
    /\ UNCHANGED <<listing, visible, db, lastPage, size, todo, runs, faults>>

\* The checkpoint, and the next page unless this one was short.
PageDone ==
    /\ pc = "ingest"
    /\ todo = << >>
    /\ Save("ingesting", offset)
    /\ checkpoint' = offset
    /\ IF size < PageSize
       THEN pc' = "relate" /\ UNCHANGED offset
       ELSE pc' = "fetch" /\ offset' = offset + PageSize
    /\ UNCHANGED <<listing, visible, db, lastPage, size, todo, snapshots, runs,
                   faults>>

\* bootstrap() goes on with its own copy of the state, whose last_page is the
\* one it loaded.
Relate ==
    /\ pc = "relate"
    /\ Save("ingesting", lastPage)
    /\ todo' = snapshots
    /\ pc' = "link"
    /\ UNCHANGED <<listing, visible, db, lastPage, offset, size, snapshots,
                   checkpoint, runs, faults>>

\* resolve_relationships.
LinkOne ==
    /\ pc = "link"
    /\ todo # << >>
    /\ session' = [session EXCEPT
         !.linked = @ \cup Linkable({Head(todo)} \cap session.items),
         !.related = @ \cup Relatable(Head(todo), session.items)]
    /\ todo' = Tail(todo)
    /\ UNCHANGED <<listing, visible, db, pc, lastPage, offset, size, snapshots,
                   checkpoint, runs, faults>>

LinkDone ==
    /\ pc = "link"
    /\ todo = << >>
    /\ Save("ingesting", lastPage)
    /\ todo' = snapshots
    /\ pc' = "comment"
    /\ UNCHANGED <<listing, visible, db, lastPage, offset, size, snapshots,
                   checkpoint, runs, faults>>

\* ingest_comment in BOOTSTRAP mode: a comment that is stored is left alone, a
\* new one is stored as context and announced to nobody.
Commented(k) == [session EXCEPT !.commented = @ \cup ({k} \cap session.items)]

\* _ingest_comments.
CommentOne ==
    /\ pc = "comment"
    /\ todo # << >>
    /\ session' = Commented(Head(todo))
    /\ todo' = Tail(todo)
    /\ UNCHANGED <<listing, visible, db, pc, lastPage, offset, size, snapshots,
                   checkpoint, runs, faults>>

\* The graph was projected with the entities: the stage only has a status.
BuildGraph ==
    /\ pc = "comment"
    /\ todo = << >>
    /\ Save("building_graph", lastPage)
    /\ pc' = "graph"
    /\ UNCHANGED <<listing, visible, db, local, checkpoint, runs, faults>>

GraphDone ==
    /\ pc = "graph"
    /\ Save("establishing_baseline", lastPage)
    /\ pc' = "baseline"
    /\ UNCHANGED <<listing, visible, db, local, checkpoint, runs, faults>>

\* _establish_baseline sets last_synced_at and bootstrap_completed_at.
Baseline ==
    /\ pc = "baseline"
    /\ session' = [session EXCEPT !.watermark = TRUE]
    /\ pc' = "complete"
    /\ UNCHANGED <<listing, visible, db, local, checkpoint, runs, faults>>

\* READY, and the commit of the worker.
Complete ==
    /\ pc = "complete"
    /\ Save("ready", lastPage)
    /\ db' = session'
    /\ checkpoint' = 0
    /\ pc' = "idle"
    /\ UNCHANGED <<listing, visible, local, runs, faults>>

\* Mutant: the failure keeps the checkpoint of the pages fetched so far.
RaiseKeepsPage ==
    /\ pc # "idle"
    /\ Save("failed", session.last_page)
    /\ pc' = "idle"
    /\ UNCHANGED <<listing, visible, db, local, checkpoint, runs, faults>>

\* A step raised: FAILED is saved with bootstrap()'s own copy of the state,
\* the rows stay in the session, and the worker may try again.
Raise ==
    /\ pc # "idle"
    /\ Save("failed", lastPage)
    /\ pc' = "idle"
    /\ UNCHANGED <<listing, visible, db, local, checkpoint, runs, faults>>

-----------------------------------------------------------------------------
(* Around it.                                                               *)

\* Another command of the worker succeeds and commits what is in the session.
OtherCommit ==
    /\ pc = "idle"
    /\ db # session
    /\ db' = session
    /\ UNCHANGED <<listing, visible, session, pc, local, checkpoint, runs,
                   faults>>

\* The worker dies, or a database error undoes its transaction.
Crash ==
    /\ faults < MaxFaults
    /\ faults' = faults + 1
    /\ session' = db
    /\ pc' = "idle"
    /\ checkpoint' = db.last_page
    /\ UNCHANGED <<listing, visible, db, local, runs>>

-----------------------------------------------------------------------------
Step ==
    \/ NotVisible \/ Discover \/ Fetch \/ IngestOne \/ PageDone \/ Relate
    \/ LinkOne \/ LinkDone \/ CommentOne \/ BuildGraph \/ GraphDone
    \/ Baseline \/ Complete

Next ==
    \/ Start \/ StartReady \/ Step \/ Raise \/ OtherCommit \/ Crash
    \/ \E n \in DOMAIN Hierarchy : DiscoverRaises(n)
    \/ TextRaises \/ TextAborts
    \/ Publish \/ \E k \in Packages : CreatePackage(k)

\* A run that began goes on.
Fairness == WF_vars(Step)

Spec == Init /\ [][Next]_vars
FairSpec == Spec /\ Fairness

-----------------------------------------------------------------------------
(* Properties.                                                              *)

Imported(state, k) ==
    /\ k \in state.items
    /\ k \in state.attached
    /\ k \in state.baseline
    /\ k \in state.commented
    /\ Parent[k] \in Listed(Listing) \ {k} => k \in state.linked
    /\ Relatable(k, Listed(Listing)) \subseteq state.related

\* However many runs failed half-way and whatever they left behind, READY says
\* that every project is there, and every package the project had is imported,
\* with its attachments and comments, the snapshot it is later compared with,
\* its parent and its relations, also when the other package came on a later
\* page.
ReadyIsComplete ==
    \A state \in {session, db} :
        state.status = "ready" =>
            /\ state.watermark
            /\ state.projects = Projects
            /\ \A k \in Listed(Listing) : Imported(state, k)

\* No crash and no second command takes a committed READY back.
ReadyIsFinal == [][db.status = "ready" => db'.status = "ready"]_vars

\* Every run ends, also when the number of packages is a multiple of the page
\* size.
RunsEnd == pc # "idle" ~> pc = "idle"

-----------------------------------------------------------------------------
(* A claim of the repository that the code does not keep.                   *)

\* openproject_bootstrap.py: "so an interrupted bootstrap resumes from its last
\* checkpoint instead of re-importing everything".
ResumesFromCheckpoint == pc = "fetch" => offset >= checkpoint
=============================================================================
