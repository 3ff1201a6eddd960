------------------------ MODULE OpenProjectIngestion ------------------------
(***************************************************************************)
(* What one call of ingest_work_item_snapshot                              *)
(* (src/brain/application/openproject_ingestion.py) does to the rows of one *)
(* work package: the durable snapshot that later calls are compared with,  *)
(* and the canonical work item.  Only the diff of the assignee decides     *)
(* anything, so a snapshot is its assignee and a revision number that      *)
(* stands for the other compared fields.                                   *)
(***************************************************************************)
EXTENDS Integers

CONSTANTS
    BrainActor,     \* OpenProject user of the brain (brain_actor_id)
    OtherActors,    \* everybody else a package can be assigned to
    Nobody,         \* no assignee
    NoSnapshot,     \* snapshots.get() returned None
    NoEntry,        \* neither a snapshot nor a work item
    MaxRev,         \* bound on the revisions of a package
    MaxGen          \* bound on the transactions a worker loses

Assignees == OtherActors \cup {BrainActor, Nobody}
Snapshot == [rev : 1..MaxRev, assignee : Assignees]

\* Work items get a fresh uuid: one of the API process, or one of the given
\* transaction of the worker.
ItemId == [by : {"api", "worker"}, gen : 0..MaxGen]
Item == [id : ItemId, rev : 1..MaxRev, assignee : Assignees]

\* The rows of a package.  The field told is history: whether the assignment
\* in the snapshot was announced, is older than the bootstrap, or was written
\* by a call that raised before it could announce it.
Told == {"no", "yes", "historical", "interrupted"}
Entry == [snap : Snapshot \cup {NoSnapshot}, item : Item, told : Told]

ASSUME IngestionAssumption ==
    /\ Nobody \notin OtherActors \cup {BrainActor}
    /\ BrainActor \notin OtherActors
    /\ NoSnapshot \notin Snapshot
    /\ NoEntry \notin Entry
    /\ MaxRev \in Nat \ {0}
    /\ MaxGen \in Nat

Entries == Entry \cup {NoEntry}

Baseline(entry) == IF entry = NoEntry THEN NoSnapshot ELSE entry.snap

\* diff_snapshots: nothing to compare with means no change.
Changes(previous, current) ==
    {f \in {"rev", "assignee"} :
        previous # NoSnapshot /\ previous[f] # current[f]}

\* Mutant: changes of the assignee are not compared.
IgnoresReassignment(entry, snap, action) ==
    /\ snap.assignee = BrainActor
    /\ IF action = "none" THEN entry = NoEntry ELSE action = "created"

\* _should_trigger_assignment.  A webhook brings its provider action, a pull
\* none; then it counts whether the call creates the work item.
Triggers(entry, snap, action) ==
    /\ snap.assignee = BrainActor
    /\ \/ IF action = "none" THEN entry = NoEntry ELSE action = "created"
       \/ "assignee" \in Changes(Baseline(entry), snap)

\* Whether the call reaches the announcement: a pull stays silent about a
\* package it knows and that did not change (publish_unchanged=False).
Announces(entry, snap, action) ==
    /\ \/ action # "none"
       \/ entry = NoEntry
       \/ Changes(Baseline(entry), snap) # {}
    /\ Triggers(entry, snap, action)

\* _find_or_create_work_item and _apply_snapshot: a known work item keeps its
\* identity, and its assignee when the package has none any more.
AppliedItem(entry, snap, id) ==
    [id |-> IF entry = NoEntry THEN id ELSE entry.item.id,
     rev |-> snap.rev,
     assignee |-> IF snap.assignee # Nobody THEN snap.assignee
                  ELSE IF entry = NoEntry THEN Nobody
                  ELSE entry.item.assignee]

ToldBefore(entry) == IF entry = NoEntry THEN "no" ELSE entry.told

\* The rows after a complete call.
Ingested(entry, snap, action, id) ==
    [snap |-> snap,
     item |-> AppliedItem(entry, snap, id),
     told |-> IF Announces(entry, snap, action) THEN "yes"
              ELSE IF snap.assignee # BrainActor THEN "no"
              ELSE ToldBefore(entry)]

\* The rows after a call that raised between the work item and the snapshot
\* (ingestion of an attachment's text), which it then did not save.
IngestedHalf(entry, snap, id) ==
    [snap |-> Baseline(entry),
     item |-> AppliedItem(entry, snap, id),
     told |-> "interrupted"]

\* The rows after a call whose event could not be enqueued: the snapshot is
\* saved already.
IngestedSilently(entry, snap, id) ==
    [snap |-> snap,
     item |-> AppliedItem(entry, snap, id),
     told |-> "interrupted"]
=============================================================================
