---------------------------- MODULE WorkItemSync ----------------------------
(***************************************************************************)
(* How OpenProject work packages reach the brain's database: webhooks in   *)
(* the API process (src/brain/api/routes/webhooks.py) and the periodic     *)
(* pull in the worker (src/brain/application/work_management_sync.py), both *)
(* through the ingestion of OpenProjectIngestion.tla.                      *)
(*                                                                         *)
(* Each process has one SQL session.  The worker commits its own after     *)
(* every successful command; nothing commits the session of the API        *)
(* process, which keeps the locks of the rows it wrote until it goes away. *)
(* The rows of one package (snapshot, work item, external reference) are   *)
(* written by every ingestion and are locked together.  A database error   *)
(* in the worker is here the loss of its transaction; WorkerLoop.tla has   *)
(* the time until the process restarts.  The project is known, and so are  *)
(* the actors packages are assigned to.                                    *)
(***************************************************************************)
EXTENDS OpenProjectIngestion, Sequences, FiniteSets

CONSTANTS
    Packages,       \* work packages of one project
    ByTitle,        \* the same as a sequence, in the order of their titles
    Historical,     \* those that exist before the project is connected
    Absent,         \* the package does not exist (yet) in OpenProject
    NoMark,         \* no watermark
    NoRequest,      \* the API process handles no webhook
    SweepLimit,     \* sweep_limit
    MaxEdits,       \* bound on the edits of all packages together
    MaxDay,         \* bound on the calendar
    MaxHooks,       \* bound on webhook deliveries
    MaxFaults       \* bound on failures of the worker and its surroundings

Hook == [pkg : Packages, snap : Snapshot, action : {"created", "updated"}]
Run == [pkg : Packages, id : ItemId, snap : Snapshot]
Request == [hook : Hook, before : Entries]

ASSUME SyncAssumption ==
    /\ Historical \subseteq Packages
    /\ {ByTitle[i] : i \in DOMAIN ByTitle} = Packages
    /\ Absent \notin Snapshot
    /\ NoRequest \notin Request
    /\ SweepLimit \in Nat
    /\ MaxEdits \in Nat
    /\ MaxDay \in Nat
    /\ MaxHooks \in Nat
    /\ MaxFaults \in 0..MaxGen

VARIABLES
    provider,   \* the packages in OpenProject
    updated,    \* the day of their updatedAt
    today,
    edits,      \* edits so far
    hooks,      \* webhooks under way
    handled,    \* webhooks handled so far
    db,         \* committed rows of each package
    mark,       \* committed watermark: the day of last_synced_at
    api,        \* rows written by the open transaction of the API process
    request,    \* the webhook it handles and the rows it read for it
    refused,    \* its session is unusable after an IntegrityError
    wpc,        \* the worker: "idle", "pull" or "sweep"
    tx,         \* rows written by the worker's open transaction
    batch,      \* snapshots fetched and not yet ingested
    seen,       \* packages ingested by this pull
    plan,       \* packages the sweep has yet to fetch
    gen,        \* transactions the worker has lost
    queue,      \* RUN_WORK_ITEM commands, oldest first
    faults

providerVars == <<provider, updated, today, edits>>
apiVars == <<api, request, refused>>
pullVars == <<wpc, batch, seen, plan>>
vars == <<provider, updated, today, edits, hooks, handled, db, mark, api,
          request, refused, wpc, tx, batch, seen, plan, gen, queue, faults>>

Rows == [Packages -> Entries]

TypeOK ==
    /\ provider \in [Packages -> Snapshot \cup {Absent}]
    /\ updated \in [Packages -> 0..MaxDay]
    /\ today \in 0..MaxDay
    /\ edits \in 0..MaxEdits
    /\ hooks \in SUBSET Hook
    /\ handled \in 0..MaxHooks
    /\ db \in Rows /\ api \in Rows /\ tx \in Rows
    /\ mark \in 0..MaxDay \cup {NoMark}
    /\ request \in Request \cup {NoRequest}
    /\ refused \in BOOLEAN
    /\ wpc \in {"idle", "pull", "sweep"}
    /\ DOMAIN batch \subseteq Packages
    /\ \A k \in DOMAIN batch : batch[k] \in Snapshot
    /\ seen \in SUBSET Packages
    /\ plan \in SUBSET Packages
    /\ gen \in 0..MaxGen
    /\ queue \in Seq(Run)
    /\ faults \in 0..MaxFaults

Nothing == [k \in Packages |-> NoEntry]
NoBatch == [k \in {} |-> NoSnapshot]

\* What bootstrap leaves of a package that existed before.
Bootstrapped(snap) ==
    [snap |-> snap,
     item |-> AppliedItem(NoEntry, snap, [by |-> "worker", gen |-> 0]),
     told |-> IF snap.assignee = BrainActor THEN "historical" ELSE "no"]

\* Either a bootstrapped project, or one just connected and still empty.
Init ==
    /\ \/ /\ \E who \in [Historical -> Assignees] :
               provider = [k \in Packages |->
                  IF k \in Historical THEN [rev |-> 1, assignee |-> who[k]]
                  ELSE Absent]
          /\ db = [k \in Packages |->
                  IF k \in Historical THEN Bootstrapped(provider[k])
                  ELSE NoEntry]
          /\ mark = 0
       \/ /\ provider = [k \in Packages |-> Absent]
          /\ db = Nothing
          /\ mark = NoMark
    /\ updated = [k \in Packages |-> 0]
    /\ today = 0
    /\ edits = 0
    /\ hooks = {}
    /\ handled = 0
    /\ api = Nothing
    /\ request = NoRequest
    /\ refused = FALSE
    /\ wpc = "idle"
    /\ tx = Nothing
    /\ batch = NoBatch
    /\ seen = {}
    /\ plan = {}
    /\ gen = 0
    /\ queue = << >>
    /\ faults = 0

\* What a session reads: its own uncommitted rows, else the committed ones.
View(rows, k) == IF rows[k] # NoEntry THEN rows[k] ELSE db[k]

Fault ==
    /\ faults < MaxFaults
    /\ faults' = faults + 1

RunOf(k, entry) == [pkg |-> k, id |-> entry.item.id, snap |-> entry.snap]

-----------------------------------------------------------------------------
(* OpenProject: people create, edit and assign packages.  Every change may  *)
(* or may not produce a webhook; those beyond the bound are lost.           *)

Notify(k, action) ==
    LET hook == [pkg |-> k, snap |-> provider'[k], action |-> action]
    IN  \/ UNCHANGED hooks
        \/ handled < MaxHooks /\ hooks' = hooks \cup {hook}

Create(k) ==
    /\ provider[k] = Absent
    /\ \E who \in Assignees :
         provider' = [provider EXCEPT ![k] = [rev |-> 1, assignee |-> who]]
    /\ updated' = [updated EXCEPT ![k] = today]
    /\ Notify(k, "created")
    /\ UNCHANGED <<today, edits, handled, db, mark, apiVars, pullVars, tx, gen,
                   queue, faults>>

Edit(k) ==
    /\ provider[k] # Absent
    /\ provider[k].rev < MaxRev
    /\ edits < MaxEdits
    /\ edits' = edits + 1
    /\ \E who \in Assignees :
         provider' = [provider EXCEPT ![k] =
                        [rev |-> provider[k].rev + 1, assignee |-> who]]
    /\ updated' = [updated EXCEPT ![k] = today]
    /\ Notify(k, "updated")
    /\ UNCHANGED <<today, handled, db, mark, apiVars, pullVars, tx, gen, queue,
                   faults>>

NextDay ==
    /\ today < MaxDay
    /\ today' = today + 1
    /\ UNCHANGED <<provider, updated, edits, hooks, handled, db, mark, apiVars,
                   pullVars, tx, gen, queue, faults>>

-----------------------------------------------------------------------------
(* The API process: one webhook at a time, in any order, some of them twice *)
(* (the sender repeats a delivery it got no answer for).                    *)

\* A request arrives and reads the rows of its package.
ApiRequest(h) ==
    /\ request = NoRequest
    /\ handled < MaxHooks
    /\ handled' = handled + 1
    /\ \E rest \in {hooks, hooks \ {h}} :
         hooks' = IF handled + 1 = MaxHooks THEN {} ELSE rest
    /\ request' = IF refused THEN NoRequest
                  ELSE [hook |-> h, before |-> View(api, h.pkg)]
    /\ UNCHANGED <<providerVars, db, mark, api, refused, pullVars, tx, gen,
                   queue, faults>>

Requested == request # NoRequest /\ tx[request.hook.pkg] = NoEntry

\* Mutant: the route commits its session.
ApiWriteCommits ==
    /\ Requested
    /\ LET k == request.hook.pkg
           after == Ingested(request.before, request.hook.snap,
                             request.hook.action, [by |-> "api", gen |-> 0])
       IN  /\ db' = [db EXCEPT ![k] = after]
           /\ queue' = IF Announces(request.before, request.hook.snap,
                                    request.hook.action)
                       THEN Append(queue, RunOf(k, after)) ELSE queue
    /\ request' = NoRequest
    /\ UNCHANGED <<providerVars, hooks, handled, mark, api, refused, pullVars,
                   tx, gen, faults>>

\* It waited for the worker's lock on the package, if any, and writes; the
\* assignment handler enqueues RUN_WORK_ITEM.
ApiWrite ==
    /\ Requested
    /\ LET k == request.hook.pkg
           after == Ingested(request.before, request.hook.snap,
                             request.hook.action, [by |-> "api", gen |-> 0])
       IN  /\ api' = [api EXCEPT ![k] = after]
           /\ queue' = IF Announces(request.before, request.hook.snap,
                                    request.hook.action)
                       THEN Append(queue, RunOf(k, after)) ELSE queue
    /\ request' = NoRequest
    /\ UNCHANGED <<providerVars, hooks, handled, db, mark, refused, pullVars,
                   tx, gen, faults>>

\* It waited while the worker inserted and committed the same snapshot row:
\* IntegrityError.  Nothing rolls the session back, so it stays unusable.
ApiConflict ==
    /\ Requested
    /\ Baseline(request.before) = NoSnapshot
    /\ Baseline(db[request.hook.pkg]) # NoSnapshot
    /\ api' = Nothing
    /\ refused' = TRUE
    /\ request' = NoRequest
    /\ UNCHANGED <<providerVars, hooks, handled, db, mark, pullVars, tx, gen,
                   queue, faults>>

\* A restart of the API process undoes its transaction.
ApiRestart ==
    /\ api # Nothing \/ refused \/ request # NoRequest
    /\ api' = Nothing
    /\ refused' = FALSE
    /\ request' = NoRequest
    /\ UNCHANGED <<providerVars, hooks, handled, db, mark, pullVars, tx, gen,
                   queue, faults>>

-----------------------------------------------------------------------------
(* The worker: SYNC_WORK_MANAGEMENT, which the scheduler enqueues all the   *)
(* time, and RUN_WORK_ITEM.                                                 *)

\* _since: the day of the watermark, or since_days=1 before today.
Since == IF mark = NoMark THEN today - 1 ELSE mark

\* list_changed_work_packages, in one page.
PullStart ==
    /\ wpc = "idle"
    /\ wpc' = "pull"
    /\ batch' = [k \in {p \in Packages : /\ provider[p] # Absent
                                         /\ updated[p] >= Since}
                   |-> provider[k]]
    /\ seen' = {}
    /\ plan' = {}
    /\ UNCHANGED <<providerVars, hooks, handled, db, mark, apiVars, tx, gen,
                   queue, faults>>

WorkerId == [by |-> "worker", gen |-> gen]

\* The API process does not hold the lock on the package.
Unlocked(k) == api[k] = NoEntry

\* Mutant: the baseline is saved before the work item, and the item of a
\* package the pull has seen before is left for later.
IngestBaselineFirst(k) ==
    /\ k \in DOMAIN batch
    /\ Unlocked(k)
    /\ tx' = [tx EXCEPT ![k] =
         IF View(tx, k) = NoEntry
         THEN Ingested(NoEntry, batch[k], "none", WorkerId)
         ELSE [Ingested(View(tx, k), batch[k], "none", WorkerId)
                 EXCEPT !.item = View(tx, k).item]]
    /\ batch' = [j \in DOMAIN batch \ {k} |-> batch[j]]
    /\ seen' = seen \cup {k}
    /\ UNCHANGED <<providerVars, hooks, handled, db, mark, apiVars, wpc, plan,
                   gen, queue, faults>>

\* ingest_work_item_snapshot for one package of the batch.
Ingest(k) ==
    /\ k \in DOMAIN batch
    /\ Unlocked(k)
    /\ LET before == View(tx, k)
           after == Ingested(before, batch[k], "none", WorkerId)
       IN  /\ tx' = [tx EXCEPT ![k] = after]
           /\ queue' = IF Announces(before, batch[k], "none")
                       THEN Append(queue, RunOf(k, after)) ELSE queue
    /\ batch' = [j \in DOMAIN batch \ {k} |-> batch[j]]
    /\ seen' = seen \cup {k}
    /\ UNCHANGED <<providerVars, hooks, handled, db, mark, apiVars, wpc, plan,
                   gen, faults>>

\* The command failed: what it flushed stays in the session, and the next
\* attempt or the next command starts from it.
GiveUp ==
    /\ wpc' = "idle"
    /\ batch' = NoBatch
    /\ seen' = {}
    /\ plan' = {}

\* The call raises before it saves the snapshot, or when it publishes.
IngestFails(k) ==
    /\ k \in DOMAIN batch
    /\ Unlocked(k)
    /\ Fault
    /\ LET before == View(tx, k)
       IN  \E after \in {IngestedHalf(before, batch[k], WorkerId),
                         IngestedSilently(before, batch[k], WorkerId)} :
             tx' = [tx EXCEPT ![k] = after]
    /\ GiveUp
    /\ UNCHANGED <<providerVars, hooks, handled, db, mark, apiVars, gen,
                   queue>>

\* Mutant: the handler rolls its session back when it fails.
PullFailsRollsBack ==
    /\ wpc # "idle"
    /\ Fault
    /\ GiveUp
    /\ tx' = Nothing
    /\ UNCHANGED <<providerVars, hooks, handled, db, mark, apiVars, gen,
                   queue>>

\* OpenProject does not answer.
PullFails ==
    /\ wpc # "idle"
    /\ Fault
    /\ GiveUp
    /\ UNCHANGED <<providerVars, hooks, handled, db, mark, apiVars, tx, gen,
                   queue>>

\* Mutant: no sweep.
SweepNothing == {}

\* Mutant: the sweep asks for packages whether they are known or not.
SweepEverything == {k \in Packages : k \notin seen}

Precedes(j, k) ==
    \E m, n \in DOMAIN ByTitle : m < n /\ ByTitle[m] = j /\ ByTitle[n] = k

\* The packages the brain knows and the batch did not contain.
Missing == {k \in Packages : View(tx, k) # NoEntry /\ k \notin seen}

\* _sweep_missing: the first SweepLimit of them by title.
SweepPlan ==
    IF mark = NoMark THEN {}
    ELSE {k \in Missing :
             Cardinality({j \in Missing : Precedes(j, k)}) < SweepLimit}

SweepStart ==
    /\ wpc = "pull"
    /\ DOMAIN batch = {}
    /\ wpc' = "sweep"
    /\ plan' = SweepPlan
    /\ UNCHANGED <<providerVars, hooks, handled, db, mark, apiVars, tx, batch,
                   seen, gen, queue, faults>>

\* get_work_package_snapshot; the ingestion follows as for the batch.
SweepFetch ==
    /\ wpc = "sweep"
    /\ DOMAIN batch = {}
    /\ \E k \in plan :
         /\ \A j \in plan : ~Precedes(j, k)
         /\ batch' = [p \in {k} |-> provider[p]]
         /\ plan' = plan \ {k}
    /\ UNCHANGED <<providerVars, hooks, handled, db, mark, apiVars, wpc, tx,
                   seen, gen, queue, faults>>

Committed == [k \in Packages |-> View(tx, k)]

\* The watermark is saved with the time now, and the worker commits.
PullFinish ==
    /\ wpc = "sweep"
    /\ DOMAIN batch = {}
    /\ plan = {}
    /\ mark' = today
    /\ db' = Committed
    /\ tx' = Nothing
    /\ GiveUp
    /\ UNCHANGED <<providerVars, hooks, handled, apiVars, gen, queue,
                   faults>>

\* _run_work_item looks the work item up in the worker's session.
Found(run) ==
    LET entry == View(tx, run.pkg)
    IN  entry # NoEntry /\ entry.item.id = run.id

\* _run_work_item, which returns "not_found" or runs the workflow, and the
\* commit after it: also of what a failed pull left.
RunWorkItem ==
    /\ wpc = "idle"
    /\ queue # << >>
    /\ queue' = Tail(queue)
    /\ db' = Committed
    /\ tx' = Nothing
    /\ UNCHANGED <<providerVars, hooks, handled, mark, apiVars, pullVars, gen,
                   faults>>

\* The worker or its transaction is lost.
WorkerLoses ==
    /\ Fault
    /\ tx' = Nothing
    /\ gen' = gen + 1
    /\ GiveUp
    /\ UNCHANGED <<providerVars, hooks, handled, db, mark, apiVars, queue>>

-----------------------------------------------------------------------------
PullStep ==
    \/ PullStart \/ SweepStart \/ SweepFetch \/ PullFinish
    \/ \E k \in Packages : Ingest(k)

Next ==
    \/ \E k \in Packages : Create(k) \/ Edit(k) \/ IngestFails(k)
    \/ NextDay
    \/ \E h \in hooks : ApiRequest(h)
    \/ ApiWrite \/ ApiConflict \/ ApiRestart
    \/ PullStep \/ PullFails \/ RunWorkItem \/ WorkerLoses

\* The scheduler enqueues a pull every minute and the worker runs what is
\* queued.  Nothing makes the API process restart, or a webhook arrive.
Fairness == WF_vars(PullStep) /\ WF_vars(RunWorkItem)

Spec == Init /\ [][Next]_vars
FairSpec == Spec /\ Fairness

-----------------------------------------------------------------------------
(* Properties.                                                              *)

\* Webhooks may come late, twice or out of order: the committed baseline of a
\* package never goes back to an earlier revision, and the work item behind it
\* is never replaced by another one.
CommittedMovesForward ==
    [][\A k \in Packages : db[k] # NoEntry =>
         /\ db'[k] # NoEntry
         /\ db'[k].item.id = db[k].item.id
         /\ Baseline(db[k]) # NoSnapshot =>
              /\ Baseline(db'[k]) # NoSnapshot
              /\ db'[k].snap.rev >= db[k].snap.rev]_vars

\* Whatever a failed pull leaves behind, a revision in the committed baseline
\* has been applied to the work item: later pulls treat it as done.
BaselineIsApplied ==
    \A k \in Packages :
        Baseline(db[k]) # NoSnapshot =>
            /\ db[k].item.rev >= db[k].snap.rev
            /\ db[k].item.rev = db[k].snap.rev
                 /\ db[k].snap.assignee # Nobody
                   => db[k].item.assignee = db[k].snap.assignee

\* A package committed as assigned to the brain was announced for execution,
\* unless the assignment is older than the bootstrap or the call that wrote it
\* raised half-way.
AssignmentIsAnnounced ==
    \A k \in Packages :
        Baseline(db[k]) # NoSnapshot /\ db[k].snap.assignee = BrainActor
            => db[k].told # "no"

\* A RUN_WORK_ITEM finds its work item, unless a webhook created it (its row
\* is never committed) or the worker lost the transaction that did.
PulledRunFindsItem ==
    [][queue # << >> /\ queue' = Tail(queue) =>
         \/ Found(Head(queue))
         \/ Head(queue).id.by = "api"
         \/ Head(queue).id.gen < gen]_vars

InSync(k) ==
    provider[k] # Absent => db[k] # NoEntry /\ db[k].snap = provider[k]

\* A package the brain knows is brought up to date in the end, if the API
\* process stops holding its rows: what the date window misses, the sweep
\* finds (when SweepLimit covers the project).
KnownPackagesConverge ==
    \A k \in Packages :
        <>[](db[k] # NoEntry /\ api = Nothing) => <>[]InSync(k)

-----------------------------------------------------------------------------
(* Claims of the repository's documents that the code does not keep.        *)

\* reconciliation.py: "this periodic pull provides eventual consistency
\* (missed webhooks, comment-only changes, closed items)".
EventualConsistency == \A k \in Packages : <>[]InSync(k)

\* README.md, Idempotency: "Processing the same webhook or historical record
\* multiple times must not create duplicate entities or commands."
NoDuplicateCommands ==
    \A i, j \in DOMAIN queue :
        queue[i].pkg = queue[j].pkg /\ queue[i].snap = queue[j].snap => i = j
=============================================================================
