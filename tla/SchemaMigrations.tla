-------------------------- MODULE SchemaMigrations --------------------------
(***************************************************************************)
(* alembic: the migrations that make the database, and the run of          *)
(* "alembic upgrade head" (bootstrap/migrate.py) that must end before the  *)
(* services start.  A migration names the revision below it, the tables it *)
(* creates with the columns that are unique in them, and the columns it    *)
(* adds; its downgrade undoes that.  The rows of external_references       *)
(* belong to their owner's row, and the table is left out.                 *)
(***************************************************************************)
EXTENDS Naturals

CONSTANTS NoTransaction

Id == {"id"}
IdAndKey == {"id", "key"}

Base == "base"
EachWith(names, unique) == [name \in names |-> unique]
Creates(down, tables) == [down |-> down, tables |-> tables, columns |-> {}]
Adds(down, columns) == [down |-> down, tables |-> <<>>, columns |-> columns]

-----------------------------------------------------------------------------
(* alembic/versions, oldest first; each is named after its file.            *)

InitialSchema == Creates(Base, EachWith(
    {"actors", "artifacts", "decisions", "document_nodes", "document_versions",
     "documents", "evidence", "executions", "projects", "repositories",
     "requirements", "verification_results", "work_items"}, Id))
EventFoundation == Creates("initial_schema",
    EachWith({"event_log", "idempotency_keys"}, IdAndKey))
RepositoryScanning == Creates("event_foundation",
    [repository_change_sets |-> Id, repository_snapshots |-> IdAndKey])
UnresolvedReferences == Adds("repository_scanning",
    {<<"document_nodes", "unresolved_refs">>})
SoftwareTopology == Creates("unresolved_references", EachWith(
    {"interfaces", "resources", "software_components", "software_domains",
     "systems", "topology_claims", "topology_dependencies"}, Id))
CodeIntelligence == Creates("software_topology",
    [code_files |-> IdAndKey, code_relations |-> Id, code_symbols |-> Id])
ContextCapsules == Creates("code_intelligence", [context_capsules |-> Id])
PlanningPlans == Creates("context_capsules", [plans |-> Id])
VerificationRuns == Creates("planning_plans", [verification_runs |-> Id])
MappingsAndConflicts == Creates("verification_runs",
    [sync_conflicts |-> Id, work_management_mappings |-> IdAndKey])
WorkflowCheckpoints == Creates("mappings_and_conflicts",
    [workflow_checkpoints |-> IdAndKey])
PoliciesApprovals == Creates("workflow_checkpoints", [approvals |-> Id])
ObservabilityMetrics == Creates("policies_approvals", EachWith(
    {"context_metrics", "context_outcomes", "execution_metrics",
     "impact_metrics"}, IdAndKey))
RuntimeObservations == Creates("observability_metrics",
    [runtime_observations |-> Id])
QualityAndFeedback == Creates("runtime_observations",
    [context_feedback |-> Id, executor_quality |-> IdAndKey])
CommandFailures == Creates("quality_and_feedback", [command_failures |-> Id])
ObservationsJournal == Creates("command_failures", [observations |-> Id])
WorkspaceIsolation == Adds("observations_journal",
    {"executions"} \X {"base_branch", "working_branch", "worktree_path"})
AuditTrail == Creates("workspace_isolation", [audit_events |-> Id])
ProjectHierarchy == [Creates("audit_trail", [work_item_relations |-> IdAndKey])
    EXCEPT !.columns = {<<"projects", "parent_id">>}]
CommentsAndAttachments == Creates("project_hierarchy",
    [comments |-> Id, attachments |-> Id])
DurableSnapshots == Creates("comments_and_attachments",
    [openproject_work_item_snapshots |-> IdAndKey])
WatermarksAndStates == Creates("durable_snapshots",
    [provider_sync_watermarks |-> IdAndKey,
     provider_bootstrap_states |-> IdAndKey])

Migrations == [
    initial_schema |-> InitialSchema, event_foundation |-> EventFoundation,
    repository_scanning |-> RepositoryScanning,
    unresolved_references |-> UnresolvedReferences,
    software_topology |-> SoftwareTopology,
    code_intelligence |-> CodeIntelligence,
    context_capsules |-> ContextCapsules, planning_plans |-> PlanningPlans,
    verification_runs |-> VerificationRuns,
    mappings_and_conflicts |-> MappingsAndConflicts,
    workflow_checkpoints |-> WorkflowCheckpoints,
    policies_approvals |-> PoliciesApprovals,
    observability_metrics |-> ObservabilityMetrics,
    runtime_observations |-> RuntimeObservations,
    quality_and_feedback |-> QualityAndFeedback,
    command_failures |-> CommandFailures,
    observations_journal |-> ObservationsJournal,
    workspace_isolation |-> WorkspaceIsolation, audit_trail |-> AuditTrail,
    project_hierarchy |-> ProjectHierarchy,
    comments_and_attachments |-> CommentsAndAttachments,
    durable_snapshots |-> DurableSnapshots,
    watermarks_and_states |-> WatermarksAndStates]
AlembicRevisions == DOMAIN Migrations
Above(revision) == {r \in AlembicRevisions : Migrations[r].down = revision}

-----------------------------------------------------------------------------
VARIABLES
    db,       \* alembic_version, the tables and the added columns
    upgrade,  \* the same inside the transaction of a migration run
    started   \* the services run

migrationVars == <<db, upgrade, started>>

Empty == [revision |-> Base, tables |-> <<>>, columns |-> {}]

\* What a complete run makes of an empty database.
Migrated ==
    LET made(name) == CHOOSE r \in AlembicRevisions :
                        name \in DOMAIN Migrations[r].tables
        names == UNION {DOMAIN Migrations[r].tables : r \in AlembicRevisions}
    IN  [revision |-> CHOOSE r \in AlembicRevisions : Above(r) = {},
         tables |-> [name \in names |-> Migrations[made(name)].tables[name]],
         columns |-> UNION {Migrations[r].columns : r \in AlembicRevisions}]

\* A new database, or one whose migration has run.
MigrationInit ==
    /\ \/ db = Empty /\ started = FALSE
       \/ db = Migrated /\ started = TRUE
    /\ upgrade = NoTransaction

\* A table is created once, a column added to a table that is there.
Applies(m, d) ==
    /\ DOMAIN m.tables \cap DOMAIN d.tables = {}
    /\ \A c \in m.columns : c[1] \in DOMAIN d.tables /\ c \notin d.columns

Apply(revision, d) ==
    LET m == Migrations[revision]
        names == DOMAIN d.tables \cup DOMAIN m.tables
    IN  [revision |-> revision,
         tables |-> [name \in names |-> IF name \in DOMAIN d.tables
                                        THEN d.tables[name] ELSE m.tables[name]],
         columns |-> d.columns \cup m.columns]
Undo(d) ==
    LET m == Migrations[d.revision]
        kept == DOMAIN d.tables \ DOMAIN m.tables
    IN  [revision |-> m.down, tables |-> [name \in kept |-> d.tables[name]],
         columns |-> d.columns \ m.columns]

BeginUpgrade ==
    /\ ~started /\ upgrade = NoTransaction
    /\ upgrade' = db
    /\ UNCHANGED <<db, started>>

Migrate(revision) ==
    /\ upgrade # NoTransaction
    /\ revision \in Above(upgrade.revision)
    /\ Applies(Migrations[revision], upgrade)
    /\ upgrade' = Apply(revision, upgrade)
    /\ UNCHANGED <<db, started>>

\* All revisions are applied in one transaction; a run that ends well lets the
\* services start (compose.yaml, service_completed_successfully).
CommitUpgrade ==
    /\ upgrade # NoTransaction
    /\ Above(upgrade.revision) = {}
    /\ db' = upgrade
    /\ upgrade' = NoTransaction
    /\ started' = TRUE

\* The run is killed or loses its connection; PostgreSQL rolls its DDL back.
UpgradeCrashes ==
    /\ upgrade # NoTransaction
    /\ upgrade' = NoTransaction
    /\ UNCHANGED <<db, started>>

\* "alembic downgrade -1", with the services down.
Downgrade ==
    /\ upgrade = NoTransaction /\ db.revision # Base
    /\ db' = Undo(db)
    /\ started' = FALSE
    /\ UNCHANGED upgrade

MigrationNext ==
    \/ BeginUpgrade
    \/ \E revision \in AlembicRevisions : Migrate(revision)
    \/ CommitUpgrade
    \/ UpgradeCrashes
    \/ Downgrade
=============================================================================
