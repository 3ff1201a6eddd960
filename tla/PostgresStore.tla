---------------------------- MODULE PostgresStore ----------------------------
(***************************************************************************)
(* adapters/postgresql: how the repositories write and look up rows, and   *)
(* what the schema guarantees.  A row has a primary key "id", a natural    *)
(* "key" (an external id, a repository and revision, a dedup_key...) and   *)
(* an "owner" it may also be looked up by.  Two processes work on one      *)
(* table, each with its own session: flushed rows are locked until the     *)
(* commit, and read committed lets a session see committed rows and its    *)
(* own.  The services start once the database is migrated.                 *)
(* adapters/in_memory is the other implementation of the same ports, the   *)
(* reference of the contract tests: dictionaries and lists in one process. *)
(***************************************************************************)
EXTENDS Naturals, FiniteSets, SchemaMigrations

CONSTANTS
    Sessions,   \* processes that commit
    Keys,       \* natural keys
    Owner,      \* the one owner of those keys
    MaxUnits,   \* bound on objects saved by a session
    NoPlan

ASSUME StoreAssumption == MaxUnits \in Nat

\* The parts of a long table, each with names of its own, in one.
Combined(parts) ==
    [name \in UNION {DOMAIN part : part \in parts} |->
       (CHOOSE part \in parts : name \in DOMAIN part)[name]]

-----------------------------------------------------------------------------
(* tables.py: the columns with a unique constraint, for every table.  The   *)
(* rows of external_references are written with their owner's row and are   *)
(* unique per owner only, so they are part of it.                           *)

CoreSchema == [projects |-> Id, repositories |-> Id, actors |-> Id,
               work_items |-> Id, requirements |-> Id]
DocumentSchema == [documents |-> Id, document_versions |-> Id,
                   document_nodes |-> Id, decisions |-> Id, executions |-> Id,
                   artifacts |-> Id, evidence |-> Id,
                   verification_results |-> Id]
EventSchema == [idempotency_keys |-> IdAndKey, event_log |-> IdAndKey,
                repository_snapshots |-> IdAndKey,
                repository_change_sets |-> Id]
CatalogSchema == [software_domains |-> Id, systems |-> Id,
                  software_components |-> Id, interfaces |-> Id,
                  resources |-> Id, topology_claims |-> Id,
                  topology_dependencies |-> Id]
CodeSchema == [code_symbols |-> Id, code_relations |-> Id,
               code_files |-> IdAndKey, context_capsules |-> Id, plans |-> Id,
               verification_runs |-> Id]
WorkSchema == [work_management_mappings |-> IdAndKey, sync_conflicts |-> Id,
               workflow_checkpoints |-> IdAndKey, approvals |-> Id,
               execution_metrics |-> IdAndKey, context_metrics |-> IdAndKey,
               context_outcomes |-> IdAndKey, impact_metrics |-> IdAndKey]
JournalSchema == [runtime_observations |-> Id, executor_quality |-> IdAndKey,
                  context_feedback |-> Id, audit_events |-> Id,
                  command_failures |-> Id, observations |-> Id]
SyncSchema == [comments |-> Id, attachments |-> Id,
               work_item_relations |-> IdAndKey,
               openproject_work_item_snapshots |-> IdAndKey,
               provider_sync_watermarks |-> IdAndKey,
               provider_bootstrap_states |-> IdAndKey]

Schema == Combined(
    {CoreSchema, DocumentSchema, EventSchema, CatalogSchema,
     CodeSchema, WorkSchema, JournalSchema, SyncSchema})
Tables == DOMAIN Schema

\* Columns of these tables that are younger than their table.
LaterColumns == {<<"document_nodes", "unresolved_refs">>,
                 <<"executions", "base_branch">>,
                 <<"executions", "working_branch">>,
                 <<"executions", "worktree_path">>, <<"projects", "parent_id">>}

-----------------------------------------------------------------------------
(* repositories.py: a row is inserted (session.add), or updated if          *)
(* session.get finds its id and inserted otherwise, or upserted on a        *)
(* conflict target.  A lookup by key takes any row ("first") or raises when *)
(* there are several ("one", scalar_one_or_none).                           *)

Inserted == [save |-> "insert", target |-> "id", lookup |-> "none", by |-> "key"]
Merged == [Inserted EXCEPT !.save = "merge"]
Upserted(target) ==
    [save |-> "upsert", target |-> target, lookup |-> "none", by |-> "key"]
FoundFirst(access) == [access EXCEPT !.lookup = "first"]
FoundOnce(access) == [access EXCEPT !.lookup = "one"]

\* Mutant: find_by_external_ref without limit(1).
ProjectAccessStrict == [projects |-> FoundOnce(Merged), repositories |-> Merged]
ProjectAccess == [projects |-> FoundFirst(Merged), repositories |-> Merged]
ItemAccess == [actors |-> Merged, work_items |-> FoundFirst(Merged),
               requirements |-> Merged]
DocumentAccess == [documents |-> FoundOnce(Merged),
                   document_versions |-> Inserted, document_nodes |-> Inserted]
ExecutionAccess == [executions |-> Merged, decisions |-> Merged,
                    evidence |-> Inserted, artifacts |-> Inserted,
                    verification_results |-> Inserted]
EventAccess == [idempotency_keys |-> FoundFirst(Upserted("key")),
                event_log |-> Inserted]
SnapshotAccess == [repository_snapshots |-> FoundOnce(Upserted("key")),
                   repository_change_sets |-> Inserted]
CatalogAccess == [software_domains |-> Merged, systems |-> Merged,
                  software_components |-> Merged, interfaces |-> Merged,
                  resources |-> Merged]
ClaimAccess == [topology_claims |-> Inserted, topology_dependencies |-> Inserted]
SymbolAccess == [code_symbols |-> FoundOnce(Upserted("id")),
                 code_relations |-> Upserted("id")]
CodeFileAccess == [code_files |-> Upserted("key")]
CapsuleAccess == [context_capsules |-> Upserted("id")]
PlanAccess == [plans |-> Upserted("id"), verification_runs |-> Upserted("id")]

\* Mutant: the conflict target of a mapping is its primary key.
MappingAccessById == [work_management_mappings |-> FoundOnce(Upserted("id")),
                      sync_conflicts |-> Inserted]
MappingAccess == [work_management_mappings |-> FoundOnce(Upserted("key")),
                  sync_conflicts |-> Inserted]
CheckpointAccess == [workflow_checkpoints |-> FoundOnce(Upserted("key"))]
ApprovalAccess == [approvals |-> Upserted("id")]
\* Context metrics have the capsule as their key and are looked up by execution.
MetricsAccess == [execution_metrics |-> FoundOnce(Upserted("key")),
                  context_metrics |-> [FoundOnce(Upserted("key")) EXCEPT
                                         !.by = "owner"],
                  context_outcomes |-> FoundOnce(Upserted("key")),
                  impact_metrics |-> FoundOnce(Upserted("key"))]
RuntimeAccess == [runtime_observations |-> Inserted]
QualityAccess == [executor_quality |-> FoundOnce(Upserted("key")),
                  context_feedback |-> Inserted]
FailureAccess == [command_failures |-> Inserted, audit_events |-> Inserted]
ObservationAccess == [observations |-> FoundOnce(Upserted("id"))]
CommentAccess == [comments |-> FoundFirst(Inserted),
                  attachments |-> FoundFirst(Inserted)]
RelationAccess == [work_item_relations |-> Upserted("key")]
WatermarkAccess == [provider_sync_watermarks |-> FoundOnce(Upserted("key")),
                    provider_bootstrap_states |-> FoundOnce(Upserted("key"))]

\* Mutant: a repository for a table that the schema does not have.
ImportAccessUnmigrated == [openproject_work_item_snapshots |-> FoundOnce(Merged),
                           openproject_imports |-> Inserted]
ImportAccess == [openproject_work_item_snapshots |-> FoundOnce(Merged)]

Access == Combined(
    {ProjectAccess, ItemAccess, DocumentAccess, ExecutionAccess,
     EventAccess, SnapshotAccess, CatalogAccess, ClaimAccess,
     SymbolAccess, CodeFileAccess, CapsuleAccess, PlanAccess,
     MappingAccess, CheckpointAccess, ApprovalAccess, MetricsAccess,
     RuntimeAccess, QualityAccess, FailureAccess, ObservationAccess,
     CommentAccess, RelationAccess, WatermarkAccess, ImportAccess})

\* Ids made from the key: actors (uuid5), and the tables whose primary key is
\* the natural key.
DerivedIds == {"actors", "idempotency_keys", "openproject_work_item_snapshots",
               "provider_sync_watermarks"}

\* Tables with a delete.
Deletable == {"projects", "repositories", "actors", "work_items",
              "requirements", "documents", "decisions", "context_capsules",
              "plans", "verification_runs", "workflow_checkpoints",
              "work_item_relations", "code_symbols", "code_relations",
              "code_files"}

-----------------------------------------------------------------------------
(* in_memory: a dictionary by id, by natural key or by owner; a list that   *)
(* keeps every object; or a dictionary that keeps the first of a key.       *)

CoreMemory == EachWith({"projects", "repositories", "actors", "work_items",
                        "requirements"}, "id")
DocumentMemory == EachWith({"documents", "document_versions", "document_nodes"},
                           "id")
ExecutionMemory == EachWith({"executions", "decisions", "evidence", "artifacts",
                             "verification_results"}, "id")
SnapshotMemory == [repository_snapshots |-> "key",
                   repository_change_sets |-> "list"]
CatalogMemory == EachWith({"software_domains", "systems", "software_components",
                           "interfaces", "resources"}, "id")
ClaimMemory == EachWith({"topology_claims", "topology_dependencies"}, "list")
CommentMemory == EachWith({"comments", "attachments"}, "id")
RelationMemory == [work_item_relations |-> "first"]
WatermarkMemory == EachWith({"provider_sync_watermarks",
                             "provider_bootstrap_states"}, "key")
CodeMemory == [code_symbols |-> "key", code_relations |-> "id",
               code_files |-> "key"]
CapsuleMemory == [context_capsules |-> "id"]
PlanMemory == [plans |-> "id"]
VerificationMemory == [verification_runs |-> "id"]
MappingMemory == [work_management_mappings |-> "key", sync_conflicts |-> "list"]
CheckpointMemory == [workflow_checkpoints |-> "key"]
ApprovalMemory == [approvals |-> "id"]
MetricsMemory == [execution_metrics |-> "key", context_metrics |-> "owner",
                  context_outcomes |-> "key", impact_metrics |-> "key"]
RuntimeMemory == [runtime_observations |-> "list"]
QualityMemory == [executor_quality |-> "key", context_feedback |-> "list"]
FailureMemory == [command_failures |-> "list"]
AuditMemory == [audit_events |-> "list"]
ObservationMemory == [observations |-> "id"]
EventMemory == [event_log |-> "list"]
IdempotencyMemory == [idempotency_keys |-> "key"]
ImportMemory == [openproject_work_item_snapshots |-> "key"]

KeptBy == Combined(
    {CoreMemory, DocumentMemory, ExecutionMemory, SnapshotMemory,
     CatalogMemory, ClaimMemory, CommentMemory, RelationMemory,
     WatermarkMemory, CodeMemory, CapsuleMemory, PlanMemory,
     VerificationMemory, MappingMemory, CheckpointMemory,
     ApprovalMemory, MetricsMemory, RuntimeMemory, QualityMemory,
     FailureMemory, AuditMemory, ObservationMemory, EventMemory,
     IdempotencyMemory, ImportMemory})

-----------------------------------------------------------------------------
VARIABLES
    backend,  \* "postgres" or "memory"
    table,    \* the table that is looked at
    rows,     \* committed rows
    pending,  \* rows a session wrote and has not committed
    gone,     \* ids a session deleted and has not committed
    plan,     \* the object a session is about to save, or NoPlan
    units,    \* objects saved by a session so far
    failed    \* how a session failed

storeVars == <<migrationVars, backend, table, rows, pending, gone, plan, units,
               failed>>

FreshId == [by : Sessions, n : 1..MaxUnits]
Row == [id : FreshId \cup Keys, key : Keys, owner : {Owner}]

StoreTypeOK ==
    /\ backend \in {"postgres", "memory"}
    /\ table \in Tables
    /\ DOMAIN Access = Tables /\ DOMAIN KeptBy = Tables
    /\ rows \subseteq Row
    /\ pending \in [Sessions -> SUBSET Row]
    /\ gone \in [Sessions -> SUBSET (FreshId \cup Keys)]
    /\ plan \in [Sessions -> Row \cup {NoPlan}]
    /\ units \in [Sessions -> 0..MaxUnits]
    /\ failed \in [Sessions -> {"no", "integrity", "several", "deadlock",
                                "no constraint"}]

StoreInit ==
    /\ MigrationInit
    /\ backend \in {"postgres", "memory"}
    /\ table \in Tables
    /\ rows = {}
    /\ pending = [s \in Sessions |-> {}]
    /\ gone = [s \in Sessions |-> {}]
    /\ plan = [s \in Sessions |-> NoPlan]
    /\ units = [s \in Sessions |-> 0]
    /\ failed = [s \in Sessions |-> "no"]

\* What a session reads.
Visible(s) == pending[s] \cup {r \in rows :
                  /\ r.id \notin {p.id : p \in pending[s]}
                  /\ r.id \notin gone[s]}

\* The rows a session has locked.
Locked(s) == pending[s] \cup {r \in rows : r.id \in gone[s]}

Fail(s, why) ==
    /\ failed' = [failed EXCEPT ![s] = why]
    /\ plan' = [plan EXCEPT ![s] = NoPlan]

\* The lookup and the object the caller makes of its answer.
Found(s, k) == IF Access[table].by = "key" THEN {r \in Visible(s) : r.key = k}
               ELSE Visible(s)
NewRow(s, k) ==
    [id |-> IF table \in DerivedIds THEN k
            ELSE [by |-> s, n |-> units[s] + 1],
     key |-> k, owner |-> Owner]

\* Nothing is migrated for the in-memory repositories.
ServicesRun == started \/ backend = "memory"

LookUp(s, k) ==
    /\ ServicesRun
    /\ plan[s] = NoPlan /\ failed[s] = "no" /\ units[s] < MaxUnits
    /\ \/ Access[table].lookup # "one" \/ backend = "memory"
       \/ Cardinality(Found(s, k)) <= 1
    /\ \E r \in {x \in Found(s, k) : Access[table].lookup # "none" /\ x.key = k}
                  \cup (IF {x \in Found(s, k) : x.key = k} = {}
                          \/ Access[table].lookup = "none"
                        THEN {NewRow(s, k)} ELSE {}) :
         plan' = [plan EXCEPT ![s] = r]
    /\ units' = [units EXCEPT ![s] = @ + 1]
    /\ UNCHANGED <<migrationVars, backend, table, rows, pending, gone, failed>>

\* scalar_one_or_none raises MultipleResultsFound.
LookUpFindsSeveral(s, k) ==
    /\ started /\ backend = "postgres"
    /\ plan[s] = NoPlan /\ failed[s] = "no" /\ units[s] < MaxUnits
    /\ Access[table].lookup = "one"
    /\ Cardinality(Found(s, k)) > 1
    /\ Fail(s, "several")
    /\ UNCHANGED <<migrationVars, backend, table, rows, pending, gone, units>>

Same(r, q, columns) == \E c \in columns : r[c] = q[c]

\* PostgreSQL lets the second writer of a unique value wait for the first.
BlockedBy(s, other) ==
    /\ backend = "postgres"
    /\ plan[s] # NoPlan
    /\ other # s
    /\ \E r \in Locked(other) : Same(r, plan[s], db.tables[table])
Blocked(s) == \E other \in Sessions : BlockedBy(s, other)

Write(s, row) ==
    /\ pending' = [pending EXCEPT ![s] = {r \in @ : r.id # row.id} \cup {row}]
    /\ gone' = [gone EXCEPT ![s] = @ \ {row.id}]
    /\ plan' = [plan EXCEPT ![s] = NoPlan]
    /\ UNCHANGED failed

\* A statement that fails aborts the transaction and gives up its locks.
Abort(s, why) ==
    /\ Fail(s, why)
    /\ pending' = [pending EXCEPT ![s] = {}]
    /\ gone' = [gone EXCEPT ![s] = {}]

Insert(s, row) ==
    IF \E r \in Visible(s) : Same(r, row, db.tables[table])
    THEN Abort(s, "integrity")
    ELSE Write(s, row)

\* update() after session.get(id).
Merge(s, row) ==
    IF \E r \in Visible(s) : r.id = row.id THEN Write(s, row)
    ELSE Insert(s, row)

\* INSERT ... ON CONFLICT (target): the row in the way keeps its id and key.
Upsert(s, row) ==
    LET target == Access[table].target
        inTheWay == {r \in Visible(s) : r[target] = row[target]}
    IN  IF target \notin db.tables[table]
        THEN Abort(s, "no constraint")
        ELSE IF inTheWay # {} THEN \E r \in inTheWay : Write(s, r)
        ELSE Insert(s, row)

Save(s) ==
    /\ backend = "postgres"
    /\ plan[s] # NoPlan /\ ~Blocked(s)
    /\ CASE Access[table].save = "insert" -> Insert(s, plan[s])
         [] Access[table].save = "merge" -> Merge(s, plan[s])
         [] Access[table].save = "upsert" -> Upsert(s, plan[s])
    /\ UNCHANGED <<migrationVars, backend, table, rows, units>>

Delete(s, r) ==
    /\ ServicesRun /\ backend = "postgres"
    /\ plan[s] = NoPlan /\ failed[s] = "no"
    /\ table \in Deletable
    /\ \A other \in Sessions \ {s} : ~\E q \in Locked(other) : q.id = r.id
    /\ pending' = [pending EXCEPT ![s] = @ \ {r}]
    /\ gone' = [gone EXCEPT ![s] = @ \cup {r.id}]
    /\ UNCHANGED <<migrationVars, backend, table, rows, plan, units, failed>>

\* in_memory: a put is one step of the event loop, and seen at once.
Remembered(row) ==
    CASE KeptBy[table] = "list" -> rows \cup {row}
      [] KeptBy[table] = "first" -> IF \E r \in rows : r.key = row.key THEN rows
                                    ELSE rows \cup {row}
      [] OTHER -> {r \in rows : r[KeptBy[table]] # row[KeptBy[table]]} \cup {row}

Remember(s) ==
    /\ backend = "memory" /\ plan[s] # NoPlan
    /\ rows' = Remembered(plan[s])
    /\ plan' = [plan EXCEPT ![s] = NoPlan]
    /\ UNCHANGED <<migrationVars, backend, table, pending, gone, units, failed>>

Forget(s, r) ==
    /\ backend = "memory" /\ plan[s] = NoPlan
    /\ table \in Deletable
    /\ r \in rows
    /\ rows' = rows \ {r}
    /\ UNCHANGED <<migrationVars, backend, table, pending, gone, plan, units,
                   failed>>

\* PostgreSQL ends a cycle of waiting sessions by failing one of them.
DeadlockDetected(s) ==
    /\ \E other \in Sessions : BlockedBy(s, other) /\ BlockedBy(other, s)
    /\ Abort(s, "deadlock")
    /\ UNCHANGED <<migrationVars, backend, table, rows, units>>

\* Mutant: the session is never committed.
CommitNothing(s) ==
    /\ plan[s] = NoPlan /\ pending[s] # {}
    /\ UNCHANGED storeVars

CommitSession(s) ==
    /\ plan[s] = NoPlan
    /\ pending[s] # {} \/ gone[s] # {}
    /\ rows' = Visible(s)
    /\ pending' = [pending EXCEPT ![s] = {}]
    /\ gone' = [gone EXCEPT ![s] = {}]
    /\ UNCHANGED <<migrationVars, backend, table, plan, units, failed>>

\* A migration run, before the first object is saved.
MigrateDatabase ==
    /\ backend = "postgres" /\ \A s \in Sessions : units[s] = 0
    /\ MigrationNext
    /\ UNCHANGED <<backend, table, rows, pending, gone, plan, units, failed>>

StoreNext ==
    \/ MigrateDatabase
    \/ \E s \in Sessions :
        \/ \E k \in Keys : LookUp(s, k) \/ LookUpFindsSeveral(s, k)
        \/ Save(s)
        \/ \E r \in Visible(s) : Delete(s, r)
        \/ DeadlockDetected(s)
        \/ CommitSession(s)
        \/ Remember(s)
        \/ \E r \in rows : Forget(s, r)

\* The processes go on and commit, and PostgreSQL looks for deadlocks.
StoreSettles(s) == Save(s) \/ CommitSession(s) \/ DeadlockDetected(s)

-----------------------------------------------------------------------------
(* Properties.                                                              *)

\* The event log is a list in memory and has unique event ids in PostgreSQL.
KeyedInPostgresOnly == {"event_log"}

\* The services run on a database that the migrations, however often they were
\* interrupted or undone, made what tables.py says.  A save by INSERT ... ON
\* CONFLICT then succeeds however two processes interleave (its conflict target
\* is a constraint of the migrated table, and no other constraint can be in the
\* way), and a key that is unique in the schema has one row, in PostgreSQL and
\* in the in-memory reference.
KeyedSavesSucceed ==
    /\ started => db.tables = Schema /\ db.columns = LaterColumns
    /\ \A s \in Sessions :
        /\ failed[s] # "no constraint"
        /\ failed[s] = "integrity" => Access[table].save # "upsert"
    /\ "key" \in Schema[table] =>
         \/ \A r, q \in rows : r.key = q.key => r = q
         \/ backend = "memory" /\ table \in KeyedInPostgresOnly

\* The lookups by natural key that raise on a second row, and whose column has
\* no unique constraint.
AmbiguousLookups == {"documents", "observations", "code_symbols",
                     "context_metrics"}

\* Two processes that look for a row and then create it never make a later
\* lookup raise, in any other table.
LookupsAreSingle ==
    \A s \in Sessions : failed[s] = "several" => table \in AmbiguousLookups

\* A session that waits for another one's rows does not wait for ever.
SaveWaitsEnd == \A s \in Sessions : Blocked(s) ~> ~Blocked(s)
=============================================================================
