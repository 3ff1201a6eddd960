------------------------- MODULE PostgresStoreProofs -------------------------
(***************************************************************************)
(* What the schema and the repositories promise two or more processes, for *)
(* every number of sessions, keys and objects and for every table: saves   *)
(* with a conflict target succeed, unique keys have one row, and lookups   *)
(* that raise on a second row find none.                                   *)
(*                                                                         *)
(* Three arguments meet.  Wherever a run of the migrations stands, the     *)
(* tables are those made up to its revision, so that a started service     *)
(* finds what tables.py declares.  For each table, the way a repository    *)
(* saves fits the constraints of the table.  And the rows that sessions    *)
(* see and flush stay apart: no session sees two rows of a key, and no two  *)
(* sessions flush rows of one key.                                         *)
(***************************************************************************)
EXTENDS PostgresStore, FiniteSetTheorems, TLAPS

StoreSpec == StoreInit /\ [][StoreNext]_storeVars

-----------------------------------------------------------------------------
(* Where the migrations stand.                                             *)

\* How many migrations lead to a revision.
Height == [base |-> 0,
    initial_schema |-> 1, event_foundation |-> 2, repository_scanning |-> 3,
    unresolved_references |-> 4, software_topology |-> 5,
    code_intelligence |-> 6, context_capsules |-> 7, planning_plans |-> 8,
    verification_runs |-> 9, mappings_and_conflicts |-> 10,
    workflow_checkpoints |-> 11, policies_approvals |-> 12,
    observability_metrics |-> 13, runtime_observations |-> 14,
    quality_and_feedback |-> 15, command_failures |-> 16,
    observations_journal |-> 17, workspace_isolation |-> 18,
    audit_trail |-> 19, project_hierarchy |-> 20,
    comments_and_attachments |-> 21, durable_snapshots |-> 22,
    watermarks_and_states |-> 23]

\* The height at which a table is made, or a column added.
Born == [actors |-> 1, artifacts |-> 1, decisions |-> 1, document_nodes |-> 1,
    document_versions |-> 1, documents |-> 1, evidence |-> 1, executions |-> 1,
    projects |-> 1, repositories |-> 1, requirements |-> 1,
    verification_results |-> 1, work_items |-> 1,
    event_log |-> 2, idempotency_keys |-> 2,
    repository_change_sets |-> 3, repository_snapshots |-> 3,
    interfaces |-> 5, resources |-> 5, software_components |-> 5,
    software_domains |-> 5, systems |-> 5, topology_claims |-> 5,
    topology_dependencies |-> 5,
    code_files |-> 6, code_relations |-> 6, code_symbols |-> 6,
    context_capsules |-> 7, plans |-> 8, verification_runs |-> 9,
    sync_conflicts |-> 10, work_management_mappings |-> 10,
    workflow_checkpoints |-> 11, approvals |-> 12,
    context_metrics |-> 13, context_outcomes |-> 13, execution_metrics |-> 13,
    impact_metrics |-> 13, runtime_observations |-> 14,
    context_feedback |-> 15, executor_quality |-> 15, command_failures |-> 16,
    observations |-> 17, audit_events |-> 19, work_item_relations |-> 20,
    comments |-> 21, attachments |-> 21,
    openproject_work_item_snapshots |-> 22,
    provider_sync_watermarks |-> 23, provider_bootstrap_states |-> 23]

ColumnBorn(c) == IF c[1] = "document_nodes" THEN 4
                 ELSE IF c[1] = "executions" THEN 18 ELSE 20

\* The tables whose natural key is unique.
Keyed == {"idempotency_keys", "event_log", "repository_snapshots", "code_files",
    "work_management_mappings", "workflow_checkpoints", "execution_metrics",
    "context_metrics", "context_outcomes", "impact_metrics", "executor_quality",
    "work_item_relations", "openproject_work_item_snapshots",
    "provider_sync_watermarks", "provider_bootstrap_states"}

Unique(name) == IF name \in Keyed THEN IdAndKey ELSE Id

TablesOf(names) == [name \in names |-> Unique(name)]
MadeUpTo(h) == TablesOf({name \in DOMAIN Born : Born[name] <= h})
AddedUpTo(h) == {c \in LaterColumns : ColumnBorn(c) <= h}

\* A database, or an upgrade of it, is what its revision says.
AtStage(d) ==
    /\ d.revision \in DOMAIN Height
    /\ d.tables = MadeUpTo(Height[d.revision])
    /\ d.columns = AddedUpTo(Height[d.revision])

MigrationInv ==
    /\ AtStage(db)
    /\ upgrade # NoTransaction => AtStage(upgrade)
    /\ started => Height[db.revision] = 23

-----------------------------------------------------------------------------
(* Rows.                                                                    *)

StoreTypes ==
    /\ backend \in {"postgres", "memory"}
    /\ table \in Tables
    /\ rows \subseteq Row
    /\ pending \in [Sessions -> SUBSET Row]
    /\ gone \in [Sessions -> SUBSET (FreshId \cup Keys)]
    /\ plan \in [Sessions -> Row \cup {NoPlan}]
    /\ units \in [Sessions -> 0..MaxUnits]
    /\ failed \in [Sessions -> {"no", "integrity", "several", "deadlock",
                                "no constraint"}]

Plans == {plan[s] : s \in Sessions} \ {NoPlan}
AllRows == rows \cup Plans \cup UNION {pending[s] : s \in Sessions}

\* An id is of one object: it is made from the key, or by one session once.
IdInv ==
    /\ \A r, q \in AllRows : r.id = q.id => r = q
    /\ \A r \in AllRows :
          IF table \in DerivedIds THEN r.id = r.key
          ELSE r.id \in FreshId /\ r.id.n <= units[r.id.by]

\* Objects are saved by services that run, and only PostgreSQL has sessions.
PlanInv ==
    /\ \A s \in Sessions : plan[s] # NoPlan => units[s] > 0
    /\ \A s \in Sessions : plan[s] # NoPlan => ServicesRun
    /\ backend = "memory" => \A s \in Sessions : pending[s] = {} /\ gone[s] = {}

OneOfKey(set) == \A r, q \in set : r.key = q.key => r = q

\* Unique keys: of the committed rows, in each session's view, and between the
\* rows that two sessions have flushed.
KeyInv ==
    table \in Keyed =>
        /\ OneOfKey(rows) \/ (backend = "memory" /\ table \in KeyedInPostgresOnly)
        /\ backend = "postgres" =>
              /\ \A s \in Sessions : OneOfKey(Visible(s))
              /\ \A s, o \in Sessions : s # o =>
                    \A r \in pending[s], q \in pending[o] : r.key # q.key

FailureInv ==
    \A s \in Sessions :
        /\ failed[s] # "no constraint"
        /\ failed[s] = "integrity" => Access[table].save # "upsert"
        /\ failed[s] = "several" => table \in AmbiguousLookups

StoreInv == MigrationInv /\ StoreTypes /\ IdInv /\ PlanInv /\ KeyInv /\ FailureInv

-----------------------------------------------------------------------------
(* Each migration makes the tables and columns of its height.               *)

BornAt(h) == {name \in DOMAIN Born : Born[name] = h}
AddedAt(h) == {c \in LaterColumns : ColumnBorn(c) = h}

Fits(m, h) ==
    /\ m.down \in DOMAIN Height /\ Height[m.down] = h - 1
    /\ m.tables = TablesOf(BornAt(h))
    /\ m.columns = AddedAt(h)

LEMMA ColumnsAdded ==
    ASSUME NEW h \in Nat
    PROVE  AddedAt(h) = IF h = 4 THEN {<<"document_nodes", "unresolved_refs">>}
                        ELSE IF h = 18 THEN {"executions"} \X
                               {"base_branch", "working_branch", "worktree_path"}
                        ELSE IF h = 20 THEN {<<"projects", "parent_id">>} ELSE {}
  BY DEF AddedAt, LaterColumns, ColumnBorn

LEMMA InitialSchemaFits == Fits(InitialSchema, 1)
  <1>1. BornAt(1) = {"actors", "artifacts", "decisions", "document_nodes",
                "document_versions", "documents", "evidence", "executions",
                "projects", "repositories", "requirements",
                "verification_results", "work_items"}
    BY DEF BornAt, Born
  <1>2. InitialSchema.tables = TablesOf(BornAt(1))
    BY <1>1 DEF InitialSchema, Creates, Adds, EachWith, TablesOf, Unique, Keyed
  <1>3. InitialSchema.columns = AddedAt(1)
    BY ColumnsAdded DEF InitialSchema, Creates, Adds
  <1> QED
    BY <1>2, <1>3 DEF Fits, InitialSchema, Creates, Adds, Base, Height

LEMMA EventFoundationFits == Fits(EventFoundation, 2)
  <1>1. BornAt(2) = {"event_log", "idempotency_keys"}
    BY DEF BornAt, Born
  <1>2. EventFoundation.tables = TablesOf(BornAt(2))
    BY <1>1 DEF EventFoundation, Creates, Adds, EachWith, TablesOf, Unique, Keyed
  <1>3. EventFoundation.columns = AddedAt(2)
    BY ColumnsAdded DEF EventFoundation, Creates, Adds
  <1> QED
    BY <1>2, <1>3 DEF Fits, EventFoundation, Creates, Adds, Base, Height

LEMMA RepositoryScanningFits == Fits(RepositoryScanning, 3)
  <1>1. BornAt(3) = {"repository_change_sets", "repository_snapshots"}
    BY DEF BornAt, Born
  <1>2. RepositoryScanning.tables = TablesOf(BornAt(3))
    BY <1>1 DEF RepositoryScanning, Creates, Adds, EachWith, TablesOf, Unique, Keyed
  <1>3. RepositoryScanning.columns = AddedAt(3)
    BY ColumnsAdded DEF RepositoryScanning, Creates, Adds
  <1> QED
    BY <1>2, <1>3 DEF Fits, RepositoryScanning, Creates, Adds, Base, Height

LEMMA UnresolvedReferencesFits == Fits(UnresolvedReferences, 4)
  <1>1. BornAt(4) = {}
    BY DEF BornAt, Born
  <1>2. UnresolvedReferences.tables = TablesOf(BornAt(4))
    BY <1>1 DEF UnresolvedReferences, Creates, Adds, EachWith, TablesOf, Unique, Keyed
  <1>3. UnresolvedReferences.columns = AddedAt(4)
    BY ColumnsAdded DEF UnresolvedReferences, Creates, Adds
  <1> QED
    BY <1>2, <1>3 DEF Fits, UnresolvedReferences, Creates, Adds, Base, Height

LEMMA SoftwareTopologyFits == Fits(SoftwareTopology, 5)
  <1>1. BornAt(5) = {"interfaces", "resources", "software_components",
                "software_domains", "systems", "topology_claims",
                "topology_dependencies"}
    BY DEF BornAt, Born
  <1>2. SoftwareTopology.tables = TablesOf(BornAt(5))
    BY <1>1 DEF SoftwareTopology, Creates, Adds, EachWith, TablesOf, Unique, Keyed
  <1>3. SoftwareTopology.columns = AddedAt(5)
    BY ColumnsAdded DEF SoftwareTopology, Creates, Adds
  <1> QED
    BY <1>2, <1>3 DEF Fits, SoftwareTopology, Creates, Adds, Base, Height

LEMMA CodeIntelligenceFits == Fits(CodeIntelligence, 6)
  <1>1. BornAt(6) = {"code_files", "code_relations", "code_symbols"}
    BY DEF BornAt, Born
  <1>2. CodeIntelligence.tables = TablesOf(BornAt(6))
    BY <1>1 DEF CodeIntelligence, Creates, Adds, EachWith, TablesOf, Unique, Keyed
  <1>3. CodeIntelligence.columns = AddedAt(6)
    BY ColumnsAdded DEF CodeIntelligence, Creates, Adds
  <1> QED
    BY <1>2, <1>3 DEF Fits, CodeIntelligence, Creates, Adds, Base, Height

LEMMA ContextCapsulesFits == Fits(ContextCapsules, 7)
  <1>1. BornAt(7) = {"context_capsules"}
    BY DEF BornAt, Born
  <1>2. ContextCapsules.tables = TablesOf(BornAt(7))
    BY <1>1 DEF ContextCapsules, Creates, Adds, EachWith, TablesOf, Unique, Keyed
  <1>3. ContextCapsules.columns = AddedAt(7)
    BY ColumnsAdded DEF ContextCapsules, Creates, Adds
  <1> QED
    BY <1>2, <1>3 DEF Fits, ContextCapsules, Creates, Adds, Base, Height

LEMMA PlanningPlansFits == Fits(PlanningPlans, 8)
  <1>1. BornAt(8) = {"plans"}
    BY DEF BornAt, Born
  <1>2. PlanningPlans.tables = TablesOf(BornAt(8))
    BY <1>1 DEF PlanningPlans, Creates, Adds, EachWith, TablesOf, Unique, Keyed
  <1>3. PlanningPlans.columns = AddedAt(8)
    BY ColumnsAdded DEF PlanningPlans, Creates, Adds
  <1> QED
    BY <1>2, <1>3 DEF Fits, PlanningPlans, Creates, Adds, Base, Height

LEMMA VerificationRunsFits == Fits(VerificationRuns, 9)
  <1>1. BornAt(9) = {"verification_runs"}
    BY DEF BornAt, Born
  <1>2. VerificationRuns.tables = TablesOf(BornAt(9))
    BY <1>1 DEF VerificationRuns, Creates, Adds, EachWith, TablesOf, Unique, Keyed
  <1>3. VerificationRuns.columns = AddedAt(9)
    BY ColumnsAdded DEF VerificationRuns, Creates, Adds
  <1> QED
    BY <1>2, <1>3 DEF Fits, VerificationRuns, Creates, Adds, Base, Height

LEMMA MappingsAndConflictsFits == Fits(MappingsAndConflicts, 10)
  <1>1. BornAt(10) = {"sync_conflicts", "work_management_mappings"}
    BY DEF BornAt, Born
  <1>2. MappingsAndConflicts.tables = TablesOf(BornAt(10))
    BY <1>1 DEF MappingsAndConflicts, Creates, Adds, EachWith, TablesOf, Unique, Keyed
  <1>3. MappingsAndConflicts.columns = AddedAt(10)
    BY ColumnsAdded DEF MappingsAndConflicts, Creates, Adds
  <1> QED
    BY <1>2, <1>3 DEF Fits, MappingsAndConflicts, Creates, Adds, Base, Height

LEMMA WorkflowCheckpointsFits == Fits(WorkflowCheckpoints, 11)
  <1>1. BornAt(11) = {"workflow_checkpoints"}
    BY DEF BornAt, Born
  <1>2. WorkflowCheckpoints.tables = TablesOf(BornAt(11))
    BY <1>1 DEF WorkflowCheckpoints, Creates, Adds, EachWith, TablesOf, Unique, Keyed
  <1>3. WorkflowCheckpoints.columns = AddedAt(11)
    BY ColumnsAdded DEF WorkflowCheckpoints, Creates, Adds
  <1> QED
    BY <1>2, <1>3 DEF Fits, WorkflowCheckpoints, Creates, Adds, Base, Height

LEMMA PoliciesApprovalsFits == Fits(PoliciesApprovals, 12)
  <1>1. BornAt(12) = {"approvals"}
    BY DEF BornAt, Born
  <1>2. PoliciesApprovals.tables = TablesOf(BornAt(12))
    BY <1>1 DEF PoliciesApprovals, Creates, Adds, EachWith, TablesOf, Unique, Keyed
  <1>3. PoliciesApprovals.columns = AddedAt(12)
    BY ColumnsAdded DEF PoliciesApprovals, Creates, Adds
  <1> QED
    BY <1>2, <1>3 DEF Fits, PoliciesApprovals, Creates, Adds, Base, Height

LEMMA ObservabilityMetricsFits == Fits(ObservabilityMetrics, 13)
  <1>1. BornAt(13) = {"context_metrics", "context_outcomes", "execution_metrics",
                "impact_metrics"}
    BY DEF BornAt, Born
  <1>2. ObservabilityMetrics.tables = TablesOf(BornAt(13))
    BY <1>1 DEF ObservabilityMetrics, Creates, Adds, EachWith, TablesOf, Unique, Keyed
  <1>3. ObservabilityMetrics.columns = AddedAt(13)
    BY ColumnsAdded DEF ObservabilityMetrics, Creates, Adds
  <1> QED
    BY <1>2, <1>3 DEF Fits, ObservabilityMetrics, Creates, Adds, Base, Height

LEMMA RuntimeObservationsFits == Fits(RuntimeObservations, 14)
  <1>1. BornAt(14) = {"runtime_observations"}
    BY DEF BornAt, Born
  <1>2. RuntimeObservations.tables = TablesOf(BornAt(14))
    BY <1>1 DEF RuntimeObservations, Creates, Adds, EachWith, TablesOf, Unique, Keyed
  <1>3. RuntimeObservations.columns = AddedAt(14)
    BY ColumnsAdded DEF RuntimeObservations, Creates, Adds
  <1> QED
    BY <1>2, <1>3 DEF Fits, RuntimeObservations, Creates, Adds, Base, Height

LEMMA QualityAndFeedbackFits == Fits(QualityAndFeedback, 15)
  <1>1. BornAt(15) = {"context_feedback", "executor_quality"}
    BY DEF BornAt, Born
  <1>2. QualityAndFeedback.tables = TablesOf(BornAt(15))
    BY <1>1 DEF QualityAndFeedback, Creates, Adds, EachWith, TablesOf, Unique, Keyed
  <1>3. QualityAndFeedback.columns = AddedAt(15)
    BY ColumnsAdded DEF QualityAndFeedback, Creates, Adds
  <1> QED
    BY <1>2, <1>3 DEF Fits, QualityAndFeedback, Creates, Adds, Base, Height

LEMMA CommandFailuresFits == Fits(CommandFailures, 16)
  <1>1. BornAt(16) = {"command_failures"}
    BY DEF BornAt, Born
  <1>2. CommandFailures.tables = TablesOf(BornAt(16))
    BY <1>1 DEF CommandFailures, Creates, Adds, EachWith, TablesOf, Unique, Keyed
  <1>3. CommandFailures.columns = AddedAt(16)
    BY ColumnsAdded DEF CommandFailures, Creates, Adds
  <1> QED
    BY <1>2, <1>3 DEF Fits, CommandFailures, Creates, Adds, Base, Height

LEMMA ObservationsJournalFits == Fits(ObservationsJournal, 17)
  <1>1. BornAt(17) = {"observations"}
    BY DEF BornAt, Born
  <1>2. ObservationsJournal.tables = TablesOf(BornAt(17))
    BY <1>1 DEF ObservationsJournal, Creates, Adds, EachWith, TablesOf, Unique, Keyed
  <1>3. ObservationsJournal.columns = AddedAt(17)
    BY ColumnsAdded DEF ObservationsJournal, Creates, Adds
  <1> QED
    BY <1>2, <1>3 DEF Fits, ObservationsJournal, Creates, Adds, Base, Height

LEMMA WorkspaceIsolationFits == Fits(WorkspaceIsolation, 18)
  <1>1. BornAt(18) = {}
    BY DEF BornAt, Born
  <1>2. WorkspaceIsolation.tables = TablesOf(BornAt(18))
    BY <1>1 DEF WorkspaceIsolation, Creates, Adds, EachWith, TablesOf, Unique, Keyed
  <1>3. WorkspaceIsolation.columns = AddedAt(18)
    BY ColumnsAdded DEF WorkspaceIsolation, Creates, Adds
  <1> QED
    BY <1>2, <1>3 DEF Fits, WorkspaceIsolation, Creates, Adds, Base, Height

LEMMA AuditTrailFits == Fits(AuditTrail, 19)
  <1>1. BornAt(19) = {"audit_events"}
    BY DEF BornAt, Born
  <1>2. AuditTrail.tables = TablesOf(BornAt(19))
    BY <1>1 DEF AuditTrail, Creates, Adds, EachWith, TablesOf, Unique, Keyed
  <1>3. AuditTrail.columns = AddedAt(19)
    BY ColumnsAdded DEF AuditTrail, Creates, Adds
  <1> QED
    BY <1>2, <1>3 DEF Fits, AuditTrail, Creates, Adds, Base, Height

LEMMA ProjectHierarchyFits == Fits(ProjectHierarchy, 20)
  <1>1. BornAt(20) = {"work_item_relations"}
    BY DEF BornAt, Born
  <1>2. ProjectHierarchy.tables = TablesOf(BornAt(20))
    BY <1>1 DEF ProjectHierarchy, Creates, Adds, EachWith, TablesOf, Unique, Keyed
  <1>3. ProjectHierarchy.columns = AddedAt(20)
    BY ColumnsAdded DEF ProjectHierarchy, Creates, Adds
  <1> QED
    BY <1>2, <1>3 DEF Fits, ProjectHierarchy, Creates, Adds, Base, Height

LEMMA CommentsAndAttachmentsFits == Fits(CommentsAndAttachments, 21)
  <1>1. BornAt(21) = {"comments", "attachments"}
    BY DEF BornAt, Born
  <1>2. CommentsAndAttachments.tables = TablesOf(BornAt(21))
    BY <1>1 DEF CommentsAndAttachments, Creates, Adds, EachWith, TablesOf, Unique, Keyed
  <1>3. CommentsAndAttachments.columns = AddedAt(21)
    BY ColumnsAdded DEF CommentsAndAttachments, Creates, Adds
  <1> QED
    BY <1>2, <1>3 DEF Fits, CommentsAndAttachments, Creates, Adds, Base, Height

LEMMA DurableSnapshotsFits == Fits(DurableSnapshots, 22)
  <1>1. BornAt(22) = {"openproject_work_item_snapshots"}
    BY DEF BornAt, Born
  <1>2. DurableSnapshots.tables = TablesOf(BornAt(22))
    BY <1>1 DEF DurableSnapshots, Creates, Adds, EachWith, TablesOf, Unique, Keyed
  <1>3. DurableSnapshots.columns = AddedAt(22)
    BY ColumnsAdded DEF DurableSnapshots, Creates, Adds
  <1> QED
    BY <1>2, <1>3 DEF Fits, DurableSnapshots, Creates, Adds, Base, Height

LEMMA WatermarksAndStatesFits == Fits(WatermarksAndStates, 23)
  <1>1. BornAt(23) = {"provider_sync_watermarks", "provider_bootstrap_states"}
    BY DEF BornAt, Born
  <1>2. WatermarksAndStates.tables = TablesOf(BornAt(23))
    BY <1>1 DEF WatermarksAndStates, Creates, Adds, EachWith, TablesOf, Unique, Keyed
  <1>3. WatermarksAndStates.columns = AddedAt(23)
    BY ColumnsAdded DEF WatermarksAndStates, Creates, Adds
  <1> QED
    BY <1>2, <1>3 DEF Fits, WatermarksAndStates, Creates, Adds, Base, Height

LEMMA BornTypes ==
    /\ \A name \in DOMAIN Born : Born[name] \in 1..23
    /\ \A c : ColumnBorn(c) \in 1..23
  BY DEF Born, ColumnBorn

LEMMA HeightTypes ==
    /\ \A r \in DOMAIN Height : Height[r] \in 0..23
    /\ \A r \in DOMAIN Height : Height[r] = 0 => r = Base
    /\ \A r, q \in DOMAIN Height : Height[r] = Height[q] => r = q
  BY DEF Height, Base

LEMMA RevisionFits ==
    ASSUME NEW r \in AlembicRevisions
    PROVE  r \in DOMAIN Height /\ Height[r] \in 1..23 /\ Fits(Migrations[r], Height[r])
  BY InitialSchemaFits, EventFoundationFits, RepositoryScanningFits,
     UnresolvedReferencesFits, SoftwareTopologyFits, CodeIntelligenceFits,
     ContextCapsulesFits, PlanningPlansFits, VerificationRunsFits,
     MappingsAndConflictsFits, WorkflowCheckpointsFits, PoliciesApprovalsFits,
     ObservabilityMetricsFits, RuntimeObservationsFits, QualityAndFeedbackFits,
     CommandFailuresFits, ObservationsJournalFits, WorkspaceIsolationFits,
     AuditTrailFits, ProjectHierarchyFits, CommentsAndAttachmentsFits,
     DurableSnapshotsFits, WatermarksAndStatesFits
     DEF AlembicRevisions, Migrations, Height

LEMMA EveryHeight ==
    ASSUME NEW r \in DOMAIN Height
    PROVE  Height[r] = 0 \/ r \in AlembicRevisions
  BY DEF Height, AlembicRevisions, Migrations

\* There is one chain of migrations: one above every revision but the last.
LEMMA OneChain ==
    ASSUME NEW r \in DOMAIN Height
    PROVE  /\ \A q \in Above(r) : Height[q] = Height[r] + 1
           /\ Height[r] < 23 <=> Above(r) # {}
  <1>1. \A q \in Above(r) : Height[q] = Height[r] + 1
    BY RevisionFits, HeightTypes DEF Above, Fits
  <1>2. ASSUME Height[r] < 23 PROVE Above(r) # {}
    <2>1. \A h \in 0..23 : \E q \in DOMAIN Height : Height[q] = h
      BY DEF Height
    <2>2. PICK q \in DOMAIN Height : Height[q] = Height[r] + 1
      BY <1>2, <2>1, HeightTypes
    <2>3. q \in AlembicRevisions
      BY <2>2, EveryHeight, HeightTypes
    <2>4. /\ Migrations[q].down \in DOMAIN Height
          /\ Height[Migrations[q].down] = Height[r]
      BY <2>2, <2>3, RevisionFits, HeightTypes DEF Fits
    <2>5. Migrations[q].down = r
      BY <2>4, HeightTypes
    <2> QED
      BY <2>3, <2>5 DEF Above
  <1>3. ASSUME Above(r) # {} PROVE Height[r] < 23
    <2>1. PICK q \in Above(r) : TRUE
      BY <1>3
    <2>2. Height[q] \in 1..23 /\ Height[q] = Height[r] + 1
      BY <1>1, <2>1, RevisionFits DEF Above
    <2> QED
      BY <2>2, HeightTypes
  <1> QED
    BY <1>1, <1>2, <1>3

\* One migration more, or one less.
LEMMA ApplyStage ==
    ASSUME NEW d, AtStage(d), NEW r \in Above(d.revision)
    PROVE  AtStage(Apply(r, d))
  <1> DEFINE h == Height[d.revision]
             m == Migrations[r]
             names == DOMAIN d.tables \cup DOMAIN m.tables
             below == {name \in DOMAIN Born : Born[name] <= h}
  <1>1. r \in AlembicRevisions /\ r \in DOMAIN Height /\ Height[r] = h + 1 /\ h \in 0..22
    BY OneChain, RevisionFits, HeightTypes DEF AtStage, Above
  <1>2. m.tables = TablesOf(BornAt(h + 1)) /\ m.columns = AddedAt(h + 1)
    BY <1>1, RevisionFits DEF Fits
  <1>3. d.tables = TablesOf(below)
    BY DEF AtStage, MadeUpTo
  <1>4. names = {name \in DOMAIN Born : Born[name] <= h + 1}
    BY <1>1, <1>2, <1>3, BornTypes DEF BornAt, TablesOf
  <1>5. Apply(r, d).tables = MadeUpTo(h + 1)
    <2>1. \A name \in names : (IF name \in DOMAIN d.tables THEN d.tables[name]
                              ELSE m.tables[name]) = Unique(name)
      BY <1>2, <1>3 DEF TablesOf
    <2>2. Apply(r, d).tables = [name \in names |-> IF name \in DOMAIN d.tables
                                                  THEN d.tables[name]
                                                  ELSE m.tables[name]]
      BY DEF Apply
    <2> HIDE DEF names
    <2> QED
      BY <1>4, <2>1, <2>2 DEF MadeUpTo, TablesOf
  <1>6. Apply(r, d).columns = AddedUpTo(h + 1)
    <2>1. d.columns \cup m.columns = AddedUpTo(h + 1)
      BY <1>1, <1>2, BornTypes DEF AtStage, AddedUpTo, AddedAt
    <2> QED
      BY <2>1 DEF Apply
  <1> QED
    BY <1>1, <1>5, <1>6 DEF AtStage, Apply

LEMMA UndoStage ==
    ASSUME NEW d, AtStage(d), d.revision # Base
    PROVE  AtStage(Undo(d))
  <1> DEFINE h == Height[d.revision]
             m == Migrations[d.revision]
             kept == DOMAIN d.tables \ DOMAIN m.tables
  <1>1. d.revision \in AlembicRevisions /\ h \in 1..23
    BY EveryHeight, HeightTypes, RevisionFits DEF AtStage
  <1>2. /\ m.down \in DOMAIN Height /\ Height[m.down] = h - 1
        /\ m.tables = TablesOf(BornAt(h)) /\ m.columns = AddedAt(h)
    BY <1>1, RevisionFits DEF Fits
  <1>3. [name \in kept |-> d.tables[name]] = MadeUpTo(h - 1)
    <2> DEFINE below == {name \in DOMAIN Born : Born[name] <= h}
    <2>1. d.tables = TablesOf(below)
      BY DEF AtStage, MadeUpTo
    <2>2. kept = below \ BornAt(h)
      BY <1>2, <2>1 DEF TablesOf
    <2>3. kept = {name \in DOMAIN Born : Born[name] <= h - 1}
      BY <1>1, <2>2, BornTypes DEF BornAt
    <2>4. \A name \in kept : d.tables[name] = Unique(name)
      BY <2>1, <2>2 DEF TablesOf
    <2> HIDE DEF kept
    <2> QED
      BY <2>3, <2>4 DEF MadeUpTo, TablesOf
  <1>4. d.columns \ m.columns = AddedUpTo(h - 1)
    BY <1>1, <1>2, BornTypes DEF AtStage, AddedUpTo, AddedAt
  <1> QED
    BY <1>2, <1>3, <1>4 DEF AtStage, Undo

LEMMA MigratedStage == AtStage(Migrated) /\ Height[Migrated.revision] = 23
  <1> DEFINE names == UNION {DOMAIN Migrations[r].tables : r \in AlembicRevisions}
             made(name) == CHOOSE r \in AlembicRevisions :
                              name \in DOMAIN Migrations[r].tables
  <1>1. Migrated.revision \in AlembicRevisions /\ Height[Migrated.revision] = 23
    <2>1. "watermarks_and_states" \in AlembicRevisions
          /\ Height["watermarks_and_states"] = 23
      BY DEF AlembicRevisions, Migrations, Height
    <2>2. Above("watermarks_and_states") = {}
      BY <2>1, RevisionFits, OneChain
    <2>3. /\ Migrated.revision \in AlembicRevisions
          /\ Above(Migrated.revision) = {}
      BY <2>1, <2>2 DEF Migrated
    <2> QED
      BY <2>3, RevisionFits, OneChain
  <1>2. \A r \in AlembicRevisions : /\ DOMAIN Migrations[r].tables = BornAt(Height[r])
                                    /\ Migrations[r].columns = AddedAt(Height[r])
                                    /\ \A name \in BornAt(Height[r]) :
                                          Migrations[r].tables[name] = Unique(name)
    BY RevisionFits DEF Fits, TablesOf
  <1>3. \A h \in 1..23 : \E r \in AlembicRevisions : Height[r] = h
    <2>1. \A h \in 1..23 : \E q \in DOMAIN Height : Height[q] = h
      BY DEF Height
    <2> QED
      BY <2>1, EveryHeight
  <1>4. names = {name \in DOMAIN Born : Born[name] <= 23}
    BY <1>2, <1>3, BornTypes DEF BornAt
  <1>5. \A name \in names : Migrations[made(name)].tables[name] = Unique(name)
    BY <1>2
  <1>6. Migrated.tables = MadeUpTo(23)
    <2>1. Migrated.tables = [name \in names |-> Migrations[made(name)].tables[name]]
      BY DEF Migrated
    <2> HIDE DEF names, made
    <2> QED
      BY <1>4, <1>5, <2>1 DEF MadeUpTo, TablesOf
  <1>7. Migrated.columns = AddedUpTo(23)
    <2>1. UNION {Migrations[r].columns : r \in AlembicRevisions} = AddedUpTo(23)
      BY <1>2, <1>3, BornTypes DEF AddedAt, AddedUpTo
    <2> QED
      BY <2>1 DEF Migrated
  <1> QED
    BY <1>1, <1>6, <1>7, RevisionFits DEF AtStage

LEMMA EmptyStage == AtStage(Empty)
  <1>1. {name \in DOMAIN Born : Born[name] <= 0} = {} /\ AddedUpTo(0) = {}
    BY BornTypes DEF AddedUpTo
  <1>2. <<>> = MadeUpTo(0)
    BY <1>1 DEF MadeUpTo, TablesOf
  <1>3. Base \in DOMAIN Height /\ Height[Base] = 0
    BY DEF Base, Height
  <1> QED
    BY <1>1, <1>2, <1>3 DEF AtStage, Empty

LEMMA MigrationStart == ASSUME MigrationInit PROVE MigrationInv
  BY EmptyStage, MigratedStage DEF MigrationInit, MigrationInv

LEMMA MigrationStep == ASSUME MigrationInv, MigrationNext PROVE MigrationInv'
  <1>1. CASE BeginUpgrade
    BY <1>1 DEF BeginUpgrade, MigrationInv, AtStage
  <1>2. ASSUME NEW r \in AlembicRevisions, Migrate(r) PROVE MigrationInv'
    <2>1. AtStage(Apply(r, upgrade))
      BY <1>2, ApplyStage DEF Migrate, MigrationInv
    <2> QED
      BY <1>2, <2>1 DEF Migrate, MigrationInv, AtStage
  <1>3. CASE CommitUpgrade
    <2>1. AtStage(upgrade) /\ Height[upgrade.revision] = 23
      BY <1>3, OneChain, HeightTypes DEF CommitUpgrade, MigrationInv, AtStage
    <2> QED
      BY <1>3, <2>1 DEF CommitUpgrade, MigrationInv, AtStage
  <1>4. CASE UpgradeCrashes
    BY <1>4 DEF UpgradeCrashes, MigrationInv, AtStage
  <1>5. CASE Downgrade
    <2>1. AtStage(Undo(db))
      BY <1>5, UndoStage DEF Downgrade, MigrationInv
    <2> QED
      BY <1>5, <2>1 DEF Downgrade, MigrationInv, AtStage
  <1> QED
    BY <1>1, <1>2, <1>3, <1>4, <1>5 DEF MigrationNext

-----------------------------------------------------------------------------
(* The tables: what is unique in each, how it is saved, how it is kept.     *)

LEMMA CombinedIsParts ==
    ASSUME NEW parts
    PROVE  /\ DOMAIN Combined(parts) = UNION {DOMAIN part : part \in parts}
           /\ \A name \in DOMAIN Combined(parts) :
                 \E part \in parts : /\ name \in DOMAIN part
                                     /\ Combined(parts)[name] = part[name]
  BY DEF Combined

\* tables.py declares the constraints that the migrations make.
Constrained(part) == \A name \in DOMAIN part : part[name] = Unique(name)

LEMMA SchemaConstrains == Constrained(Schema)
  <1>1. Constrained(CoreSchema)
    BY DEF Constrained, CoreSchema, Id, IdAndKey, Unique, Keyed
  <1>2. Constrained(DocumentSchema)
    BY DEF Constrained, DocumentSchema, Id, IdAndKey, Unique, Keyed
  <1>3. Constrained(EventSchema)
    BY DEF Constrained, EventSchema, Id, IdAndKey, Unique, Keyed
  <1>4. Constrained(CatalogSchema)
    BY DEF Constrained, CatalogSchema, Id, IdAndKey, Unique, Keyed
  <1>5. Constrained(CodeSchema)
    BY DEF Constrained, CodeSchema, Id, IdAndKey, Unique, Keyed
  <1>6. Constrained(WorkSchema)
    BY DEF Constrained, WorkSchema, Id, IdAndKey, Unique, Keyed
  <1>7. Constrained(JournalSchema)
    BY DEF Constrained, JournalSchema, Id, IdAndKey, Unique, Keyed
  <1>8. Constrained(SyncSchema)
    BY DEF Constrained, SyncSchema, Id, IdAndKey, Unique, Keyed
  <1> DEFINE parts == {CoreSchema, DocumentSchema, EventSchema, CatalogSchema,
                      CodeSchema, WorkSchema, JournalSchema, SyncSchema}
  <1>9. \A part \in parts : Constrained(part)
    BY <1>1, <1>2, <1>3, <1>4, <1>5, <1>6, <1>7, <1>8
  <1>10. Schema = Combined(parts)
    BY DEF Schema
  <1> HIDE DEF parts
  <1> SUFFICES ASSUME NEW name \in DOMAIN Schema
               PROVE  \E part \in parts : /\ name \in DOMAIN part
                                          /\ Schema[name] = part[name]
    BY <1>9 DEF Constrained
  <1> QED
    BY <1>10, CombinedIsParts

\* How repositories.py saves and looks up fits the constraints.
Suits(name, access) ==
    /\ access.save \in {"insert", "merge", "upsert"}
    /\ access.save = "upsert" => access.target = IF name \in Keyed THEN "key" ELSE "id"
    /\ access.lookup = "one" => \/ name \in AmbiguousLookups
                               \/ (name \in Keyed /\ access.by = "key")
Suitable(part) == \A name \in DOMAIN part : Suits(name, part[name])

AccessOf(save, target, lookup, by) ==
    [save |-> save, target |-> target, lookup |-> lookup, by |-> by]

LEMMA AccessKinds ==
    /\ Inserted = AccessOf("insert", "id", "none", "key")
    /\ FoundFirst(Inserted) = AccessOf("insert", "id", "first", "key")
    /\ Merged = AccessOf("merge", "id", "none", "key")
    /\ FoundFirst(Merged) = AccessOf("merge", "id", "first", "key")
    /\ FoundOnce(Merged) = AccessOf("merge", "id", "one", "key")
    /\ Upserted("id") = AccessOf("upsert", "id", "none", "key")
    /\ FoundOnce(Upserted("id")) = AccessOf("upsert", "id", "one", "key")
    /\ Upserted("key") = AccessOf("upsert", "key", "none", "key")
    /\ FoundFirst(Upserted("key")) = AccessOf("upsert", "key", "first", "key")
    /\ FoundOnce(Upserted("key")) = AccessOf("upsert", "key", "one", "key")
    /\ [FoundOnce(Upserted("key")) EXCEPT !.by = "owner"]
         = AccessOf("upsert", "key", "one", "owner")
  <1>1. Inserted = AccessOf("insert", "id", "none", "key")
    BY DEF Inserted, AccessOf
  <1>2. Merged = AccessOf("merge", "id", "none", "key")
    BY <1>1 DEF Merged, AccessOf
  <1>3. /\ FoundFirst(Inserted) = AccessOf("insert", "id", "first", "key")
        /\ FoundFirst(Merged) = AccessOf("merge", "id", "first", "key")
        /\ FoundOnce(Merged) = AccessOf("merge", "id", "one", "key")
    BY <1>1, <1>2 DEF FoundFirst, FoundOnce, AccessOf
  <1>4. /\ Upserted("id") = AccessOf("upsert", "id", "none", "key")
        /\ FoundOnce(Upserted("id")) = AccessOf("upsert", "id", "one", "key")
        /\ Upserted("key") = AccessOf("upsert", "key", "none", "key")
        /\ FoundFirst(Upserted("key")) = AccessOf("upsert", "key", "first", "key")
        /\ FoundOnce(Upserted("key")) = AccessOf("upsert", "key", "one", "key")
    BY DEF Upserted, FoundFirst, FoundOnce, AccessOf
  <1>5. [FoundOnce(Upserted("key")) EXCEPT !.by = "owner"]
        = AccessOf("upsert", "key", "one", "owner")
    BY <1>4 DEF AccessOf
  <1> QED
    BY <1>1, <1>2, <1>3, <1>4, <1>5

LEMMA AccessSuits == Suitable(Access)
  <1>1. Suitable(ProjectAccess)
    BY AccessKinds DEF Suitable, ProjectAccess, Suits, AccessOf, Keyed,
       AmbiguousLookups
  <1>2. Suitable(ItemAccess)
    BY AccessKinds DEF Suitable, ItemAccess, Suits, AccessOf, Keyed,
       AmbiguousLookups
  <1>3. Suitable(DocumentAccess)
    BY AccessKinds DEF Suitable, DocumentAccess, Suits, AccessOf, Keyed,
       AmbiguousLookups
  <1>4. Suitable(ExecutionAccess)
    BY AccessKinds DEF Suitable, ExecutionAccess, Suits, AccessOf, Keyed,
       AmbiguousLookups
  <1>5. Suitable(EventAccess)
    BY AccessKinds DEF Suitable, EventAccess, Suits, AccessOf, Keyed,
       AmbiguousLookups
  <1>6. Suitable(SnapshotAccess)
    BY AccessKinds DEF Suitable, SnapshotAccess, Suits, AccessOf, Keyed,
       AmbiguousLookups
  <1>7. Suitable(CatalogAccess)
    BY AccessKinds DEF Suitable, CatalogAccess, Suits, AccessOf, Keyed,
       AmbiguousLookups
  <1>8. Suitable(ClaimAccess)
    BY AccessKinds DEF Suitable, ClaimAccess, Suits, AccessOf, Keyed,
       AmbiguousLookups
  <1>9. Suitable(SymbolAccess)
    BY AccessKinds DEF Suitable, SymbolAccess, Suits, AccessOf, Keyed,
       AmbiguousLookups
  <1>10. Suitable(CodeFileAccess)
    BY AccessKinds DEF Suitable, CodeFileAccess, Suits, AccessOf, Keyed,
       AmbiguousLookups
  <1>11. Suitable(CapsuleAccess)
    BY AccessKinds DEF Suitable, CapsuleAccess, Suits, AccessOf, Keyed,
       AmbiguousLookups
  <1>12. Suitable(PlanAccess)
    BY AccessKinds DEF Suitable, PlanAccess, Suits, AccessOf, Keyed,
       AmbiguousLookups
  <1>13. Suitable(MappingAccess)
    BY AccessKinds DEF Suitable, MappingAccess, Suits, AccessOf, Keyed,
       AmbiguousLookups
  <1>14. Suitable(CheckpointAccess)
    BY AccessKinds DEF Suitable, CheckpointAccess, Suits, AccessOf, Keyed,
       AmbiguousLookups
  <1>15. Suitable(ApprovalAccess)
    BY AccessKinds DEF Suitable, ApprovalAccess, Suits, AccessOf, Keyed,
       AmbiguousLookups
  <1>16. Suitable(MetricsAccess)
    BY AccessKinds DEF Suitable, MetricsAccess, Suits, AccessOf, Keyed,
       AmbiguousLookups
  <1>17. Suitable(RuntimeAccess)
    BY AccessKinds DEF Suitable, RuntimeAccess, Suits, AccessOf, Keyed,
       AmbiguousLookups
  <1>18. Suitable(QualityAccess)
    BY AccessKinds DEF Suitable, QualityAccess, Suits, AccessOf, Keyed,
       AmbiguousLookups
  <1>19. Suitable(FailureAccess)
    BY AccessKinds DEF Suitable, FailureAccess, Suits, AccessOf, Keyed,
       AmbiguousLookups
  <1>20. Suitable(ObservationAccess)
    BY AccessKinds DEF Suitable, ObservationAccess, Suits, AccessOf, Keyed,
       AmbiguousLookups
  <1>21. Suitable(CommentAccess)
    BY AccessKinds DEF Suitable, CommentAccess, Suits, AccessOf, Keyed,
       AmbiguousLookups
  <1>22. Suitable(RelationAccess)
    BY AccessKinds DEF Suitable, RelationAccess, Suits, AccessOf, Keyed,
       AmbiguousLookups
  <1>23. Suitable(WatermarkAccess)
    BY AccessKinds DEF Suitable, WatermarkAccess, Suits, AccessOf, Keyed,
       AmbiguousLookups
  <1>24. Suitable(ImportAccess)
    BY AccessKinds DEF Suitable, ImportAccess, Suits, AccessOf, Keyed,
       AmbiguousLookups
  <1> DEFINE parts == {ProjectAccess, ItemAccess, DocumentAccess, ExecutionAccess,
                      EventAccess, SnapshotAccess, CatalogAccess, ClaimAccess,
                      SymbolAccess, CodeFileAccess, CapsuleAccess, PlanAccess,
                      MappingAccess, CheckpointAccess, ApprovalAccess,
                      MetricsAccess, RuntimeAccess, QualityAccess, FailureAccess,
                      ObservationAccess, CommentAccess, RelationAccess,
                      WatermarkAccess, ImportAccess}
  <1>25. \A part \in parts : Suitable(part)
    BY <1>1, <1>2, <1>3, <1>4, <1>5, <1>6, <1>7, <1>8, <1>9, <1>10,
       <1>11, <1>12, <1>13, <1>14, <1>15, <1>16, <1>17, <1>18, <1>19,
       <1>20, <1>21, <1>22, <1>23, <1>24
  <1>26. Access = Combined(parts)
    BY DEF Access
  <1> HIDE DEF parts
  <1> SUFFICES ASSUME NEW name \in DOMAIN Access
               PROVE  \E part \in parts : /\ name \in DOMAIN part
                                          /\ Access[name] = part[name]
    BY <1>25 DEF Suitable
  <1> QED
    BY <1>26, CombinedIsParts

\* The memory keeps one object of a unique key.
KeepsOne(part) ==
    \A name \in DOMAIN part :
        name \in Keyed \ KeyedInPostgresOnly => part[name] \in {"key", "first", "owner"}

LEMMA MemoryKeepsOne == KeepsOne(KeptBy)
  <1>1. KeepsOne(CoreMemory)
    BY DEF KeepsOne, CoreMemory, EachWith, Keyed, KeyedInPostgresOnly
  <1>2. KeepsOne(DocumentMemory)
    BY DEF KeepsOne, DocumentMemory, EachWith, Keyed, KeyedInPostgresOnly
  <1>3. KeepsOne(ExecutionMemory)
    BY DEF KeepsOne, ExecutionMemory, EachWith, Keyed, KeyedInPostgresOnly
  <1>4. KeepsOne(SnapshotMemory)
    BY DEF KeepsOne, SnapshotMemory, EachWith, Keyed, KeyedInPostgresOnly
  <1>5. KeepsOne(CatalogMemory)
    BY DEF KeepsOne, CatalogMemory, EachWith, Keyed, KeyedInPostgresOnly
  <1>6. KeepsOne(ClaimMemory)
    BY DEF KeepsOne, ClaimMemory, EachWith, Keyed, KeyedInPostgresOnly
  <1>7. KeepsOne(CommentMemory)
    BY DEF KeepsOne, CommentMemory, EachWith, Keyed, KeyedInPostgresOnly
  <1>8. KeepsOne(RelationMemory)
    BY DEF KeepsOne, RelationMemory, EachWith, Keyed, KeyedInPostgresOnly
  <1>9. KeepsOne(WatermarkMemory)
    BY DEF KeepsOne, WatermarkMemory, EachWith, Keyed, KeyedInPostgresOnly
  <1>10. KeepsOne(CodeMemory)
    BY DEF KeepsOne, CodeMemory, EachWith, Keyed, KeyedInPostgresOnly
  <1>11. KeepsOne(CapsuleMemory)
    BY DEF KeepsOne, CapsuleMemory, EachWith, Keyed, KeyedInPostgresOnly
  <1>12. KeepsOne(PlanMemory)
    BY DEF KeepsOne, PlanMemory, EachWith, Keyed, KeyedInPostgresOnly
  <1>13. KeepsOne(VerificationMemory)
    BY DEF KeepsOne, VerificationMemory, EachWith, Keyed, KeyedInPostgresOnly
  <1>14. KeepsOne(MappingMemory)
    BY DEF KeepsOne, MappingMemory, EachWith, Keyed, KeyedInPostgresOnly
  <1>15. KeepsOne(CheckpointMemory)
    BY DEF KeepsOne, CheckpointMemory, EachWith, Keyed, KeyedInPostgresOnly
  <1>16. KeepsOne(ApprovalMemory)
    BY DEF KeepsOne, ApprovalMemory, EachWith, Keyed, KeyedInPostgresOnly
  <1>17. KeepsOne(MetricsMemory)
    BY DEF KeepsOne, MetricsMemory, EachWith, Keyed, KeyedInPostgresOnly
  <1>18. KeepsOne(RuntimeMemory)
    BY DEF KeepsOne, RuntimeMemory, EachWith, Keyed, KeyedInPostgresOnly
  <1>19. KeepsOne(QualityMemory)
    BY DEF KeepsOne, QualityMemory, EachWith, Keyed, KeyedInPostgresOnly
  <1>20. KeepsOne(FailureMemory)
    BY DEF KeepsOne, FailureMemory, EachWith, Keyed, KeyedInPostgresOnly
  <1>21. KeepsOne(AuditMemory)
    BY DEF KeepsOne, AuditMemory, EachWith, Keyed, KeyedInPostgresOnly
  <1>22. KeepsOne(ObservationMemory)
    BY DEF KeepsOne, ObservationMemory, EachWith, Keyed, KeyedInPostgresOnly
  <1>23. KeepsOne(EventMemory)
    BY DEF KeepsOne, EventMemory, EachWith, Keyed, KeyedInPostgresOnly
  <1>24. KeepsOne(IdempotencyMemory)
    BY DEF KeepsOne, IdempotencyMemory, EachWith, Keyed, KeyedInPostgresOnly
  <1>25. KeepsOne(ImportMemory)
    BY DEF KeepsOne, ImportMemory, EachWith, Keyed, KeyedInPostgresOnly
  <1> DEFINE parts == {CoreMemory, DocumentMemory, ExecutionMemory, SnapshotMemory,
                      CatalogMemory, ClaimMemory, CommentMemory, RelationMemory,
                      WatermarkMemory, CodeMemory, CapsuleMemory, PlanMemory,
                      VerificationMemory, MappingMemory, CheckpointMemory,
                      ApprovalMemory, MetricsMemory, RuntimeMemory, QualityMemory,
                      FailureMemory, AuditMemory, ObservationMemory, EventMemory,
                      IdempotencyMemory, ImportMemory}
  <1>26. \A part \in parts : KeepsOne(part)
    BY <1>1, <1>2, <1>3, <1>4, <1>5, <1>6, <1>7, <1>8, <1>9, <1>10,
       <1>11, <1>12, <1>13, <1>14, <1>15, <1>16, <1>17, <1>18, <1>19,
       <1>20, <1>21, <1>22, <1>23, <1>24, <1>25
  <1>27. KeptBy = Combined(parts)
    BY DEF KeptBy
  <1> HIDE DEF parts
  <1> SUFFICES ASSUME NEW name \in DOMAIN KeptBy
               PROVE  \E part \in parts : /\ name \in DOMAIN part
                                          /\ KeptBy[name] = part[name]
    BY <1>26 DEF KeepsOne
  <1> QED
    BY <1>27, CombinedIsParts

LEMMA SchemaNames == DOMAIN Schema = DOMAIN Born
  <1>1. DOMAIN Schema = UNION {DOMAIN part : part \in
                {CoreSchema, DocumentSchema, EventSchema, CatalogSchema,
                 CodeSchema, WorkSchema, JournalSchema, SyncSchema}}
    BY CombinedIsParts DEF Schema
  <1> QED
    BY <1>1 DEF Born, EachWith,
       CoreSchema, DocumentSchema, EventSchema, CatalogSchema,
       CodeSchema, WorkSchema, JournalSchema, SyncSchema

LEMMA AccessNames == DOMAIN Access = DOMAIN Born
  <1>1. DOMAIN Access = UNION {DOMAIN part : part \in
                {ProjectAccess, ItemAccess, DocumentAccess,
                 ExecutionAccess, EventAccess, SnapshotAccess,
                 CatalogAccess, ClaimAccess, SymbolAccess, CodeFileAccess,
                 CapsuleAccess, PlanAccess, MappingAccess,
                 CheckpointAccess, ApprovalAccess, MetricsAccess,
                 RuntimeAccess, QualityAccess, FailureAccess,
                 ObservationAccess, CommentAccess, RelationAccess,
                 WatermarkAccess, ImportAccess}}
    BY CombinedIsParts DEF Access
  <1> QED
    BY <1>1 DEF Born, EachWith,
       ProjectAccess, ItemAccess, DocumentAccess, ExecutionAccess,
       EventAccess, SnapshotAccess, CatalogAccess, ClaimAccess,
       SymbolAccess, CodeFileAccess, CapsuleAccess, PlanAccess,
       MappingAccess, CheckpointAccess, ApprovalAccess, MetricsAccess,
       RuntimeAccess, QualityAccess, FailureAccess, ObservationAccess,
       CommentAccess, RelationAccess, WatermarkAccess, ImportAccess

LEMMA KeptNames == DOMAIN KeptBy = DOMAIN Born
  <1>1. DOMAIN KeptBy = UNION {DOMAIN part : part \in
                {CoreMemory, DocumentMemory, ExecutionMemory,
                 SnapshotMemory, CatalogMemory, ClaimMemory, CommentMemory,
                 RelationMemory, WatermarkMemory, CodeMemory,
                 CapsuleMemory, PlanMemory, VerificationMemory,
                 MappingMemory, CheckpointMemory, ApprovalMemory,
                 MetricsMemory, RuntimeMemory, QualityMemory,
                 FailureMemory, AuditMemory, ObservationMemory,
                 EventMemory, IdempotencyMemory, ImportMemory}}
    BY CombinedIsParts DEF KeptBy
  <1> QED
    BY <1>1 DEF Born, EachWith,
       CoreMemory, DocumentMemory, ExecutionMemory, SnapshotMemory,
       CatalogMemory, ClaimMemory, CommentMemory, RelationMemory,
       WatermarkMemory, CodeMemory, CapsuleMemory, PlanMemory,
       VerificationMemory, MappingMemory, CheckpointMemory,
       ApprovalMemory, MetricsMemory, RuntimeMemory, QualityMemory,
       FailureMemory, AuditMemory, ObservationMemory, EventMemory,
       IdempotencyMemory, ImportMemory

LEMMA TableFacts ==
    ASSUME NEW t \in Tables
    PROVE  /\ Schema[t] = Unique(t) /\ Suits(t, Access[t])
           /\ t \in Keyed \ KeyedInPostgresOnly => KeptBy[t] \in {"key", "first", "owner"}
  <1>1. t \in DOMAIN Schema /\ t \in DOMAIN Access /\ t \in DOMAIN KeptBy
    BY SchemaNames, AccessNames, KeptNames DEF Tables
  <1> QED
    BY <1>1, SchemaConstrains, AccessSuits, MemoryKeepsOne
       DEF Constrained, Suitable, KeepsOne

\* A started service finds what tables.py declares.
LEMMA StartedIsMigrated ==
    ASSUME MigrationInv, started
    PROVE  db.tables = Schema /\ db.columns = LaterColumns
  <1>1. db.tables = MadeUpTo(23) /\ db.columns = AddedUpTo(23)
    BY DEF MigrationInv, AtStage
  <1>2. {name \in DOMAIN Born : Born[name] <= 23} = DOMAIN Born
    BY BornTypes
  <1>3. Schema = TablesOf(DOMAIN Born)
    <2>1. Schema = [name \in DOMAIN Schema |-> Schema[name]]
      BY DEF Schema, Combined
    <2>2. \A name \in DOMAIN Born : Schema[name] = Unique(name)
      BY SchemaNames, SchemaConstrains DEF Constrained
    <2> QED
      BY <2>1, <2>2, SchemaNames DEF TablesOf
  <1>4. AddedUpTo(23) = LaterColumns
    BY BornTypes DEF AddedUpTo
  <1> QED
    BY <1>1, <1>2, <1>3, <1>4 DEF MadeUpTo

-----------------------------------------------------------------------------
(* What a session sees and writes.                                          *)

LEMMA SeenRows ==
    ASSUME StoreTypes, NEW s \in Sessions
    PROVE  /\ Visible(s) \subseteq rows \cup pending[s]
           /\ pending[s] \subseteq Visible(s)
           /\ pending[s] \subseteq AllRows /\ rows \subseteq AllRows
           /\ Visible(s) \subseteq AllRows
           /\ plan[s] # NoPlan => plan[s] \in AllRows
  <1>1. pending[s] \subseteq AllRows /\ rows \subseteq AllRows
    BY DEF AllRows
  <1>2. plan[s] # NoPlan => plan[s] \in AllRows
    BY DEF AllRows, Plans
  <1>3. Visible(s) \subseteq rows \cup pending[s] /\ pending[s] \subseteq Visible(s)
    BY DEF Visible
  <1> QED
    BY <1>1, <1>2, <1>3

LEMMA RowTypes == ASSUME StoreTypes PROVE AllRows \subseteq Row
  <1> SUFFICES ASSUME NEW r \in AllRows PROVE r \in Row
    OBVIOUS
  <1>1. CASE r \in rows
    BY <1>1 DEF StoreTypes
  <1>2. ASSUME NEW s \in Sessions, r \in pending[s] PROVE r \in Row
    BY <1>2 DEF StoreTypes
  <1>3. ASSUME NEW s \in Sessions, r = plan[s], r # NoPlan PROVE r \in Row
    BY <1>3 DEF StoreTypes
  <1> QED
    BY <1>1, <1>2, <1>3 DEF AllRows, Plans

LEMMA NewRowType ==
    ASSUME StoreTypes, NEW s \in Sessions, NEW k \in Keys, units[s] < MaxUnits
    PROVE  NewRow(s, k) \in Row /\ units[s] + 1 \in 1 .. MaxUnits
  <1>1. units[s] \in 0 .. MaxUnits
    BY DEF StoreTypes
  <1>2. units[s] + 1 \in 1 .. MaxUnits
    BY <1>1, StoreAssumption
  <1> DEFINE fresh == [by |-> s, n |-> units[s] + 1]
  <1>3. fresh \in FreshId
    BY <1>2 DEF FreshId
  <1> HIDE DEF fresh
  <1>4. NewRow(s, k) = [id |-> IF table \in DerivedIds THEN k ELSE fresh,
                        key |-> k, owner |-> Owner]
    BY DEF NewRow, fresh
  <1> QED
    BY <1>2, <1>3, <1>4 DEF Row

\* Rows that share a unique column.
LEMMA SameColumns ==
    ASSUME NEW name, NEW r, NEW q
    PROVE  Same(r, q, Unique(name))
             <=> (r.id = q.id \/ (name \in Keyed /\ r.key = q.key))
  BY DEF Same, Unique, Id, IdAndKey

\* A session that saves a row gets to see it, and no more.
LEMMA WriteEffect ==
    ASSUME StoreTypes, NEW s \in Sessions, NEW row, Write(s, row), rows' = rows
    PROVE  /\ Visible(s)' \subseteq Visible(s) \cup {row}
           /\ pending'[s] \subseteq pending[s] \cup {row}
           /\ \A o \in Sessions : o # s => /\ Visible(o)' = Visible(o)
                                           /\ pending'[o] = pending[o]
  <1>1. /\ pending \in [Sessions -> SUBSET Row]
        /\ gone \in [Sessions -> SUBSET (FreshId \cup Keys)]
    BY DEF StoreTypes
  <1>2. /\ pending' = [pending EXCEPT ![s] = {r \in @ : r.id # row.id} \cup {row}]
        /\ gone' = [gone EXCEPT ![s] = @ \ {row.id}]
    BY DEF Write
  <1>3. /\ pending'[s] = {r \in pending[s] : r.id # row.id} \cup {row}
        /\ gone'[s] = gone[s] \ {row.id}
    BY <1>1, <1>2
  <1>4. Visible(s)' \subseteq Visible(s) \cup {row}
    <2> SUFFICES ASSUME NEW r \in Visible(s)', r # row PROVE r \in Visible(s)
      OBVIOUS
    <2>1. CASE r \in pending[s]
      BY <2>1 DEF Visible
    <2>2. CASE r \notin pending[s]
      <3>1. r \in rows /\ r.id \notin {p.id : p \in pending'[s]} /\ r.id \notin gone'[s]
        BY <1>3, <2>2 DEF Visible
      <3>2. r.id # row.id
        BY <1>3, <3>1
      <3>3. r.id \notin {p.id : p \in pending[s]} /\ r.id \notin gone[s]
        BY <1>3, <3>1, <3>2
      <3> QED
        BY <3>1, <3>3 DEF Visible
    <2> QED
      BY <2>1, <2>2
  <1>5. pending'[s] \subseteq pending[s] \cup {row}
    BY <1>3
  <1>6. \A o \in Sessions : o # s => pending'[o] = pending[o] /\ gone'[o] = gone[o]
    BY <1>1, <1>2
  <1> QED
    BY <1>4, <1>5, <1>6 DEF Visible

-----------------------------------------------------------------------------
(* What keeps the invariant.                                                *)

\* Fewer rows leave ids to their objects.
LEMMA FewerRows ==
    ASSUME IdInv, AllRows' \subseteq AllRows, table' = table, units' = units
    PROVE  IdInv'
  BY DEF IdInv

\* The table a started service writes has the constraints of the schema.
LEMMA WritesToSchema ==
    ASSUME MigrationInv, StoreTypes, PlanInv, backend = "postgres",
           NEW s \in Sessions, plan[s] # NoPlan
    PROVE  db.tables[table] = Unique(table)
  <1>1. started
    BY DEF PlanInv, ServicesRun
  <1>2. db.tables = Schema /\ table \in Tables
    BY <1>1, StartedIsMigrated DEF StoreTypes
  <1> QED
    BY <1>2, TableFacts

\* A session that does not wait saves what no other session has flushed.
LEMMA NotBlocked ==
    ASSUME MigrationInv, StoreTypes, PlanInv, backend = "postgres",
           NEW s \in Sessions, plan[s] # NoPlan, ~Blocked(s),
           NEW o \in Sessions, o # s, NEW q \in pending[o]
    PROVE  /\ q.id # plan[s].id
           /\ table \in Keyed => q.key # plan[s].key
  <1>1. q \in Locked(o)
    BY DEF Locked
  <1>2. ~Same(q, plan[s], Unique(table))
    BY <1>1, WritesToSchema DEF Blocked, BlockedBy
  <1> QED
    BY <1>2, SameColumns

\* A written row is one that the session saw, or has a key that it did not see.
Writable(s, row) ==
    /\ row \in AllRows
    /\ row \in Visible(s) \/ (table \in Keyed =>
                                \A r \in Visible(s) : r.key # row.key)
    /\ table \in Keyed => \A o \in Sessions \ {s} :
                             \A q \in pending[o] : q.key # row.key

LEMMA WriteKeeps ==
    ASSUME StoreInv, backend = "postgres", NEW s \in Sessions, NEW row,
           Writable(s, row), Write(s, row),
           UNCHANGED <<backend, table, rows, units>>
    PROVE  StoreTypes' /\ IdInv' /\ KeyInv'
  <1> USE DEF StoreInv
  <1>1. row \in Row
    BY RowTypes DEF Writable
  <1>2. StoreTypes'
    <2>1. pending' \in [Sessions -> SUBSET Row]
      BY <1>1 DEF Write, StoreTypes
    <2>2. gone' \in [Sessions -> SUBSET (FreshId \cup Keys)]
      BY DEF Write, StoreTypes
    <2>3. plan' \in [Sessions -> Row \cup {NoPlan}] /\ failed' = failed
      BY DEF Write, StoreTypes
    <2> QED
      BY <2>1, <2>2, <2>3 DEF StoreTypes
  <1>3. AllRows' \subseteq AllRows
    <2> SUFFICES ASSUME NEW r \in AllRows' PROVE r \in AllRows
      OBVIOUS
    <2>1. CASE r \in rows'
      BY <2>1, SeenRows DEF AllRows
    <2>2. ASSUME NEW o \in Sessions, r \in pending'[o] PROVE r \in AllRows
      <3>1. r = row \/ r \in pending[o]
        BY <2>2, WriteEffect
      <3> QED
        BY <3>1, SeenRows DEF Writable
    <2>3. ASSUME NEW o \in Sessions, r = plan'[o], r # NoPlan PROVE r \in AllRows
      <3>1. r = plan[o]
        BY <2>3 DEF Write, StoreTypes
      <3> QED
        BY <2>3, <3>1, SeenRows
    <2> QED
      BY <2>1, <2>2, <2>3 DEF AllRows, Plans
  <1>4. IdInv'
    BY <1>3, FewerRows
  <1>5. KeyInv'
    <2> SUFFICES ASSUME table \in Keyed PROVE KeyInv'
      BY DEF KeyInv
    <2>1. OneOfKey(rows)'
      BY DEF KeyInv, OneOfKey
    <2>2. ASSUME NEW o \in Sessions PROVE OneOfKey(Visible(o))'
      <3>1. OneOfKey(Visible(o))
        BY DEF KeyInv
      <3>2. CASE o # s
        BY <3>1, <3>2, WriteEffect DEF OneOfKey
      <3>3. CASE o = s
        BY <3>1, <3>3, WriteEffect DEF OneOfKey, Writable
      <3> QED
        BY <3>2, <3>3
    <2>3. ASSUME NEW t \in Sessions, NEW o \in Sessions, t # o,
                 NEW r \in pending'[t], NEW q \in pending'[o]
          PROVE  r.key # q.key
      <3>1. /\ r \in pending[t] \/ (t = s /\ r = row)
            /\ q \in pending[o] \/ (o = s /\ q = row)
        BY WriteEffect
      <3> QED
        BY <2>3, <3>1 DEF KeyInv, Writable
    <2> QED
      BY <2>1, <2>2, <2>3 DEF KeyInv
  <1> QED
    BY <1>2, <1>4, <1>5

LEMMA AbortKeeps ==
    ASSUME StoreInv, backend = "postgres", NEW s \in Sessions,
           NEW why \in {"integrity", "deadlock"}, Abort(s, why),
           UNCHANGED <<backend, table, rows, units>>
    PROVE  StoreTypes' /\ IdInv' /\ KeyInv'
  <1> USE DEF StoreInv
  <1>1. StoreTypes'
    BY DEF Abort, Fail, StoreTypes
  <1>2. /\ pending'[s] = {} /\ gone'[s] = {}
        /\ \A o \in Sessions : o # s => pending'[o] = pending[o] /\ gone'[o] = gone[o]
    BY DEF Abort, StoreTypes
  <1>3. AllRows' \subseteq AllRows
    <2>1. \A o \in Sessions : pending'[o] \subseteq pending[o]
      BY <1>2
    <2>2. \A o \in Sessions : plan'[o] = plan[o] \/ plan'[o] = NoPlan
      BY DEF Abort, Fail, StoreTypes
    <2> QED
      BY <2>1, <2>2 DEF AllRows, Plans
  <1>4. IdInv'
    BY <1>3, FewerRows
  <1>5. KeyInv'
    <2> SUFFICES ASSUME table \in Keyed PROVE KeyInv'
      BY DEF KeyInv
    <2>1. OneOfKey(rows) /\ OneOfKey(rows)'
      BY DEF KeyInv, OneOfKey
    <2>2. ASSUME NEW o \in Sessions PROVE OneOfKey(Visible(o))'
      <3>1. CASE o # s
        <4>1. Visible(o)' = Visible(o)
          BY <1>2, <3>1 DEF Visible
        <4> QED
          BY <4>1 DEF KeyInv, OneOfKey
      <3>2. CASE o = s
        <4>1. Visible(o)' \subseteq rows
          BY <1>2, <3>2 DEF Visible
        <4> QED
          BY <2>1, <4>1 DEF OneOfKey
      <3> QED
        BY <3>1, <3>2
    <2>3. ASSUME NEW t \in Sessions, NEW o \in Sessions, t # o,
                 NEW r \in pending'[t], NEW q \in pending'[o]
          PROVE  r.key # q.key
      <3>1. r \in pending[t] /\ q \in pending[o]
        BY <1>2
      <3> QED
        BY <2>3, <3>1 DEF KeyInv
    <2> QED
      BY <2>1, <2>2, <2>3 DEF KeyInv
  <1> QED
    BY <1>1, <1>4, <1>5

\* What a session sees after another one, or itself, commits.
LEMMA CommitEffect ==
    ASSUME StoreTypes, NEW s \in Sessions, CommitSession(s)
    PROVE  /\ rows' = Visible(s) /\ Visible(s)' = Visible(s)
           /\ pending'[s] = {} /\ gone'[s] = {}
           /\ \A o \in Sessions : o # s =>
                 /\ pending'[o] = pending[o] /\ gone'[o] = gone[o]
                 /\ Visible(o)' \subseteq pending[o] \cup pending[s] \cup
                                         (Visible(o) \cap rows)
  <1>1. /\ rows' = Visible(s)
        /\ pending'[s] = {} /\ gone'[s] = {}
        /\ \A o \in Sessions : o # s => pending'[o] = pending[o] /\ gone'[o] = gone[o]
    BY DEF CommitSession, StoreTypes
  <1>2. Visible(s)' = rows'
    BY <1>1 DEF Visible
  <1>3. ASSUME NEW o \in Sessions, o # s
        PROVE  Visible(o)' \subseteq pending[o] \cup pending[s] \cup (Visible(o) \cap rows)
    <2> SUFFICES ASSUME NEW r \in Visible(o)', r \notin pending[o], r \notin pending[s]
                 PROVE  r \in Visible(o) \cap rows
      OBVIOUS
    <2>1. /\ r \in rows' /\ r.id \notin {p.id : p \in pending[o]}
          /\ r.id \notin gone[o]
      BY <1>1, <1>3 DEF Visible
    <2>2. r \in rows
      BY <1>1, <2>1 DEF Visible
    <2> QED
      BY <2>1, <2>2 DEF Visible
  <1> QED
    BY <1>1, <1>2, <1>3

LEMMA CommitKeeps ==
    ASSUME StoreInv, NEW s \in Sessions, CommitSession(s)
    PROVE  StoreTypes' /\ IdInv' /\ KeyInv'
  <1> USE DEF StoreInv
  <1>1. /\ table' = table /\ units' = units /\ plan' = plan /\ backend' = backend
        /\ failed' = failed
    BY DEF CommitSession
  <1>2. StoreTypes'
    <2>1. rows' \subseteq Row
      BY CommitEffect, SeenRows, RowTypes
    <2>2. pending' \in [Sessions -> SUBSET Row]
      BY DEF CommitSession, StoreTypes
    <2>3. gone' \in [Sessions -> SUBSET (FreshId \cup Keys)]
      BY DEF CommitSession, StoreTypes
    <2> QED
      BY <1>1, <2>1, <2>2, <2>3 DEF StoreTypes
  <1>3. AllRows' \subseteq AllRows
    <2>1. rows' \subseteq AllRows
      BY CommitEffect, SeenRows
    <2>2. \A o \in Sessions : pending'[o] \subseteq pending[o]
      BY CommitEffect
    <2> QED
      BY <1>1, <2>1, <2>2 DEF AllRows, Plans
  <1>4. IdInv'
    BY <1>1, <1>3, FewerRows
  <1>5. KeyInv'
    <2> SUFFICES ASSUME table \in Keyed PROVE KeyInv'
      BY <1>1 DEF KeyInv
    <2>1. CASE backend = "memory"
      <3>1. pending[s] = {} /\ gone[s] = {}
        BY <2>1 DEF PlanInv
      <3> QED
        BY <3>1 DEF CommitSession
    <2>2. CASE backend = "postgres"
      <3>1. \A o \in Sessions : OneOfKey(Visible(o))
        BY <2>2 DEF KeyInv
      <3>2. OneOfKey(rows)' /\ OneOfKey(Visible(s))'
        BY <3>1, CommitEffect DEF OneOfKey
      <3>3. ASSUME NEW o \in Sessions, o # s, NEW r \in Visible(o)',
                   NEW q \in Visible(o)', r.key = q.key
            PROVE  r = q
        <4>1. /\ r \in pending[o] \cup pending[s] \cup (Visible(o) \cap rows)
              /\ q \in pending[o] \cup pending[s] \cup (Visible(o) \cap rows)
          BY <3>3, CommitEffect
        <4>2. /\ pending[o] \subseteq Visible(o) /\ pending[s] \subseteq Visible(s)
              /\ \A x \in pending[s], y \in pending[o] : x.key # y.key
          BY <2>2, <3>3, SeenRows DEF KeyInv
        <4>3. CASE r \in Visible(o) /\ q \in Visible(o)
          BY <3>1, <3>3, <4>3 DEF OneOfKey
        <4>4. r \in rows' /\ r \notin pending[o] => r \in Visible(s)
          BY CommitEffect
        <4>5. r \in Visible(o)' => r \in pending[o] \/ r \in rows'
          BY CommitEffect, <3>3 DEF Visible
        <4>6. q \in Visible(o)' => q \in pending[o] \/ q \in rows'
          BY CommitEffect, <3>3 DEF Visible
        <4>7. CASE r \in Visible(s) /\ q \in Visible(s)
          BY <3>1, <3>3, <4>7 DEF OneOfKey
        <4> QED
          BY <3>3, <4>1, <4>2, <4>3, <4>5, <4>6, <4>7, CommitEffect
      <3>4. \A o \in Sessions : OneOfKey(Visible(o))'
        BY <3>2, <3>3 DEF OneOfKey
      <3>5. ASSUME NEW t \in Sessions, NEW o \in Sessions, t # o,
                   NEW r \in pending'[t], NEW q \in pending'[o]
            PROVE  r.key # q.key
        <4>1. r \in pending[t] /\ q \in pending[o]
          BY CommitEffect
        <4> QED
          BY <2>2, <3>5, <4>1 DEF KeyInv
      <3> QED
        BY <3>2, <3>4, <3>5 DEF KeyInv
    <2> QED
      BY <2>1, <2>2 DEF StoreTypes
  <1> QED
    BY <1>2, <1>4, <1>5

LEMMA DeleteKeeps ==
    ASSUME StoreInv, NEW s \in Sessions, NEW r \in Visible(s), Delete(s, r)
    PROVE  StoreTypes' /\ IdInv' /\ KeyInv'
  <1> USE DEF StoreInv
  <1>1. /\ UNCHANGED <<backend, table, rows, plan, units, failed>>
        /\ backend = "postgres"
    BY DEF Delete
  <1>2. /\ pending'[s] = pending[s] \ {r} /\ gone'[s] = gone[s] \cup {r.id}
        /\ \A o \in Sessions : o # s => pending'[o] = pending[o] /\ gone'[o] = gone[o]
    BY DEF Delete, StoreTypes
  <1>3. StoreTypes'
    <2>1. r.id \in FreshId \cup Keys
      BY SeenRows, RowTypes DEF Row
    <2>2. pending' \in [Sessions -> SUBSET Row]
      BY DEF Delete, StoreTypes
    <2>3. gone' \in [Sessions -> SUBSET (FreshId \cup Keys)]
      BY <2>1 DEF Delete, StoreTypes
    <2> QED
      BY <1>1, <2>2, <2>3 DEF StoreTypes
  <1>4. \A o \in Sessions : pending'[o] \subseteq pending[o]
    BY <1>2
  <1>5. IdInv'
    <2>1. AllRows' \subseteq AllRows
      BY <1>1, <1>4 DEF AllRows, Plans
    <2> QED
      BY <1>1, <2>1, FewerRows
  <1>6. \A o \in Sessions : Visible(o)' \subseteq Visible(o)
    <2>1. \A o \in Sessions : o # s => Visible(o)' = Visible(o)
      BY <1>1, <1>2 DEF Visible
    <2>2. ASSUME NEW q \in Visible(s)' PROVE q \in Visible(s)
      <3>1. CASE q \in pending'[s]
        BY <1>2, <3>1 DEF Visible
      <3>2. CASE q \notin pending'[s]
        <4>1. q \in rows /\ q.id \notin gone'[s] /\ q.id \notin {p.id : p \in pending'[s]}
          BY <1>1, <3>2 DEF Visible
        <4>2. q.id # r.id /\ q.id \notin gone[s]
          BY <1>2, <4>1
        <4>3. q.id \notin {p.id : p \in pending[s]}
          BY <1>2, <4>1, <4>2
        <4> QED
          BY <4>1, <4>2, <4>3 DEF Visible
      <3> QED
        BY <3>1, <3>2
    <2> QED
      BY <2>1, <2>2
  <1>7. KeyInv'
    <2> SUFFICES ASSUME table \in Keyed PROVE KeyInv'
      BY <1>1 DEF KeyInv
    <2>1. OneOfKey(rows)'
      BY <1>1 DEF KeyInv, OneOfKey
    <2>2. \A o \in Sessions : OneOfKey(Visible(o))'
      BY <1>1, <1>6 DEF KeyInv, OneOfKey
    <2>3. \A t, o \in Sessions : t # o =>
             \A x \in pending'[t], y \in pending'[o] : x.key # y.key
      BY <1>1, <1>4 DEF KeyInv
    <2> QED
      BY <2>1, <2>2, <2>3 DEF KeyInv
  <1> QED
    BY <1>3, <1>5, <1>7

-----------------------------------------------------------------------------
(* A save writes what it may, and fails only where it may.                  *)

\* The row that an insert writes is not in the way of another.
LEMMA InsertKeeps ==
    ASSUME StoreInv, backend = "postgres", NEW s \in Sessions,
           plan[s] # NoPlan, ~Blocked(s), Insert(s, plan[s]),
           UNCHANGED <<backend, table, rows, units>>,
           Access[table].save = "upsert" =>
              ~\E r \in Visible(s) : Same(r, plan[s], db.tables[table])
    PROVE  StoreTypes' /\ IdInv' /\ KeyInv' /\ FailureInv'
  <1> USE DEF StoreInv
  <1>1. CASE \E r \in Visible(s) : Same(r, plan[s], db.tables[table])
    <2>1. Abort(s, "integrity")
      BY <1>1 DEF Insert
    <2>2. FailureInv'
      BY <1>1, <2>1 DEF Abort, Fail, FailureInv, StoreTypes
    <2> QED
      BY <2>1, <2>2, AbortKeeps
  <1>2. CASE ~\E r \in Visible(s) : Same(r, plan[s], db.tables[table])
    <2>1. Write(s, plan[s])
      BY <1>2 DEF Insert
    <2>2. \A r \in Visible(s) : ~Same(r, plan[s], Unique(table))
      BY <1>2, WritesToSchema
    <2>3. Writable(s, plan[s])
      BY <2>2, SameColumns, NotBlocked, SeenRows DEF Writable
    <2>4. FailureInv'
      BY <2>1 DEF Write, FailureInv
    <2> QED
      BY <2>1, <2>3, <2>4, WriteKeeps
  <1> QED
    BY <1>1, <1>2

\* A row of the planned id is the planned row.
LEMMA PlannedRow ==
    ASSUME StoreInv, NEW s \in Sessions, plan[s] # NoPlan,
           NEW r \in Visible(s), r.id = plan[s].id
    PROVE  r = plan[s]
  BY SeenRows DEF StoreInv, IdInv

LEMMA MergeKeeps ==
    ASSUME StoreInv, backend = "postgres", NEW s \in Sessions,
           plan[s] # NoPlan, ~Blocked(s), Merge(s, plan[s]),
           UNCHANGED <<backend, table, rows, units>>,
           Access[table].save = "merge"
    PROVE  StoreTypes' /\ IdInv' /\ KeyInv' /\ FailureInv'
  <1> USE DEF StoreInv
  <1>1. CASE \E r \in Visible(s) : r.id = plan[s].id
    <2>1. Write(s, plan[s])
      BY <1>1 DEF Merge
    <2>2. plan[s] \in Visible(s)
      BY <1>1, PlannedRow
    <2>3. Writable(s, plan[s])
      BY <2>2, NotBlocked, SeenRows DEF Writable
    <2>4. FailureInv'
      BY <2>1 DEF Write, FailureInv
    <2> QED
      BY <2>1, <2>3, <2>4, WriteKeeps
  <1>2. CASE ~\E r \in Visible(s) : r.id = plan[s].id
    BY <1>2, InsertKeeps DEF Merge
  <1> QED
    BY <1>1, <1>2

\* The conflict target is a constraint of the table, and the row that meets it
\* is the only one in the way.
LEMMA UpsertKeeps ==
    ASSUME StoreInv, backend = "postgres", NEW s \in Sessions,
           plan[s] # NoPlan, ~Blocked(s), Upsert(s, plan[s]),
           UNCHANGED <<backend, table, rows, units>>,
           Access[table].save = "upsert"
    PROVE  StoreTypes' /\ IdInv' /\ KeyInv' /\ FailureInv'
  <1> USE DEF StoreInv
  <1> DEFINE target == Access[table].target
             inTheWay == {r \in Visible(s) : r[target] = plan[s][target]}
  <1>1. target = IF table \in Keyed THEN "key" ELSE "id"
    BY TableFacts DEF StoreTypes, Suits
  <1>2. db.tables[table] = Unique(table)
    BY WritesToSchema
  <1>3. target \in db.tables[table]
    BY <1>1, <1>2 DEF Unique, Id, IdAndKey
  <1>4. \/ \E r \in inTheWay : Write(s, r)
        \/ inTheWay = {} /\ Insert(s, plan[s])
    BY <1>3 DEF Upsert
  <1> HIDE DEF target
  <1>5. ASSUME NEW r \in inTheWay, Write(s, r)
        PROVE  StoreTypes' /\ IdInv' /\ KeyInv' /\ FailureInv'
    <2>1. r \in Visible(s) /\ r[target] = plan[s][target]
      OBVIOUS
    <2>2. table \in Keyed => r.key = plan[s].key
      BY <1>1, <2>1
    <2>3. Writable(s, r)
      BY <2>1, <2>2, NotBlocked, SeenRows DEF Writable
    <2>4. FailureInv'
      BY <1>5 DEF Write, FailureInv
    <2> QED
      BY <1>5, <2>3, <2>4, WriteKeeps
  <1>6. CASE inTheWay = {} /\ Insert(s, plan[s])
    <2>1. ASSUME NEW r \in Visible(s), Same(r, plan[s], db.tables[table])
          PROVE  FALSE
      <3>1. r.id = plan[s].id \/ (table \in Keyed /\ r.key = plan[s].key)
        BY <1>2, <2>1, SameColumns
      <3>2. r.id = plan[s].id => r = plan[s]
        BY PlannedRow
      <3>3. r[target] = plan[s][target]
        BY <1>1, <3>1, <3>2
      <3> QED
        BY <1>6, <3>3
    <2> QED
      BY <1>6, <2>1, InsertKeeps
  <1> QED
    BY <1>4, <1>5, <1>6

LEMMA SaveKeeps ==
    ASSUME StoreInv, NEW s \in Sessions, Save(s)
    PROVE  StoreTypes' /\ IdInv' /\ KeyInv' /\ FailureInv'
  <1>1. /\ backend = "postgres" /\ plan[s] # NoPlan /\ ~Blocked(s)
        /\ UNCHANGED <<backend, table, rows, units>>
    BY DEF Save
  <1>2. CASE Access[table].save = "insert"
    BY <1>1, <1>2, InsertKeeps DEF Save
  <1>3. CASE Access[table].save = "merge"
    BY <1>1, <1>3, MergeKeeps DEF Save
  <1>4. CASE Access[table].save = "upsert"
    BY <1>1, <1>4, UpsertKeeps DEF Save
  <1>5. Access[table].save \in {"insert", "merge", "upsert"}
    BY TableFacts DEF StoreInv, StoreTypes, Suits
  <1> QED
    BY <1>2, <1>3, <1>4, <1>5

-----------------------------------------------------------------------------
(* The other steps, and the invariant.                                      *)

LEMMA LookUpKeeps ==
    ASSUME StoreInv, NEW s \in Sessions, NEW k \in Keys, LookUp(s, k)
    PROVE  StoreTypes' /\ IdInv' /\ KeyInv'
  <1> USE DEF StoreInv
  <1>1. /\ UNCHANGED <<backend, table, rows, pending, gone, failed>>
        /\ units[s] < MaxUnits /\ units' = [units EXCEPT ![s] = @ + 1]
    BY DEF LookUp
  <1>2. PICK r : /\ plan' = [plan EXCEPT ![s] = r]
                 /\ r \in Visible(s) \/ r = NewRow(s, k)
    BY DEF LookUp, Found
  <1> DEFINE new == NewRow(s, k)
  <1>3. new \in Row /\ r \in Row
    BY <1>1, <1>2, NewRowType, SeenRows, RowTypes
  <1>4. StoreTypes'
    <2>1. plan' \in [Sessions -> Row \cup {NoPlan}]
      BY <1>2, <1>3 DEF StoreTypes
    <2>2. units[s] + 1 \in 0 .. MaxUnits
      BY <1>1, NewRowType, StoreAssumption
    <2>3. units' \in [Sessions -> 0 .. MaxUnits]
      BY <1>1, <2>2 DEF StoreTypes
    <2> QED
      BY <1>1, <2>1, <2>3 DEF StoreTypes
  <1>5. AllRows' \subseteq AllRows \cup {new}
    <2> SUFFICES ASSUME NEW q \in AllRows' PROVE q \in AllRows \cup {new}
      OBVIOUS
    <2>1. CASE q \in rows' \cup UNION {pending'[o] : o \in Sessions}
      BY <1>1, <2>1 DEF AllRows
    <2>2. ASSUME NEW o \in Sessions, q = plan'[o], q # NoPlan
          PROVE  q \in AllRows \cup {new}
      <3>1. q = plan[o] \/ q = r
        BY <1>2, <2>2 DEF StoreTypes
      <3> QED
        BY <1>2, <2>2, <3>1, SeenRows
    <2> QED
      BY <2>1, <2>2 DEF AllRows, Plans
  <1>6. CASE table \in DerivedIds
    <2>1. new = [id |-> k, key |-> k, owner |-> Owner]
      BY <1>6 DEF NewRow
    <2>2. \A q \in AllRows : q.id = q.key
      BY <1>6 DEF IdInv
    <2>3. \A q \in AllRows : q = [id |-> q.id, key |-> q.key, owner |-> Owner]
      BY RowTypes DEF Row
    <2>4. new.id = k /\ new.key = k
      BY <2>1
    <2>5. \A q \in AllRows : q.id = new.id => q = new
      BY <2>1, <2>2, <2>3, <2>4
    <2> HIDE DEF new
    <2>6. \A q, x \in AllRows' : q.id = x.id => q = x
      BY <1>5, <2>5 DEF IdInv
    <2>7. \A q \in AllRows' : q.id = q.key
      BY <1>5, <2>2, <2>4
    <2> QED
      BY <1>1, <1>4, <1>6, <2>6, <2>7 DEF IdInv, KeyInv, Visible
  <1>7. CASE table \notin DerivedIds
    <2> DEFINE fresh == [by |-> s, n |-> units[s] + 1]
    <2>1. new.id = fresh
      BY <1>7 DEF NewRow
    <2>2. /\ fresh.by = s /\ fresh.n = units[s] + 1 /\ units[s] \in 0 .. MaxUnits
          /\ fresh \in FreshId
      <3>1. units[s] + 1 \in 1 .. MaxUnits
        BY <1>1, NewRowType
      <3> QED
        BY <3>1 DEF StoreTypes, FreshId
    <2> HIDE DEF fresh, new
    <2>3. ASSUME NEW q \in AllRows
          PROVE  /\ q.id \in FreshId /\ q.id.n <= units'[q.id.by]
                 /\ q.id # fresh
      <3>1. q.id \in FreshId /\ q.id.n <= units[q.id.by]
        BY <1>7 DEF IdInv
      <3>2. q.id.by \in Sessions /\ q.id.n \in 1 .. MaxUnits
        BY <3>1 DEF FreshId
      <3>3. units[q.id.by] \in 0 .. MaxUnits
        BY <3>2 DEF StoreTypes
      <3>4. units'[q.id.by] = IF q.id.by = s THEN units[s] + 1 ELSE units[q.id.by]
        BY <1>1, <3>2 DEF StoreTypes
      <3>5. q.id.n <= units'[q.id.by]
        BY <3>1, <3>2, <3>3, <3>4, StoreAssumption
      <3>6. q.id # fresh
        BY <2>2, <3>1, <3>2, StoreAssumption
      <3> QED
        BY <3>1, <3>5, <3>6
    <2>4. units'[s] = units[s] + 1
      BY <1>1 DEF StoreTypes
    <2>5. new.id \in FreshId /\ new.id.n <= units'[new.id.by]
      BY <2>1, <2>2, <2>4, StoreAssumption
    <2>6. \A q, x \in AllRows' : q.id = x.id => q = x
      BY <1>5, <2>1, <2>3 DEF IdInv
    <2>7. \A q \in AllRows' : q.id \in FreshId /\ q.id.n <= units'[q.id.by]
      BY <1>5, <2>3, <2>5
    <2> QED
      BY <1>1, <1>4, <1>7, <2>6, <2>7 DEF IdInv, KeyInv, Visible
  <1> QED
    BY <1>6, <1>7

\* A session that sees one row of a key does not find several.
LEMMA SeveralOnlyIfAmbiguous ==
    ASSUME StoreInv, NEW s \in Sessions, NEW k \in Keys, LookUpFindsSeveral(s, k)
    PROVE  table \in AmbiguousLookups
  <1> USE DEF StoreInv
  <1> SUFFICES ASSUME table \notin AmbiguousLookups PROVE FALSE
    OBVIOUS
  <1>1. /\ backend = "postgres" /\ Access[table].lookup = "one"
        /\ Cardinality(Found(s, k)) > 1
    BY DEF LookUpFindsSeveral
  <1>2. table \in Keyed /\ Access[table].by = "key"
    BY <1>1, TableFacts DEF StoreTypes, Suits
  <1>3. OneOfKey(Visible(s))
    BY <1>1, <1>2 DEF KeyInv
  <1>4. Found(s, k) = {r \in Visible(s) : r.key = k}
    BY <1>2 DEF Found
  <1>5. Found(s, k) = {} \/ \E r : Found(s, k) = {r}
    BY <1>3, <1>4 DEF OneOfKey
  <1>6. Cardinality(Found(s, k)) = 0 \/ Cardinality(Found(s, k)) = 1
    BY <1>5, FS_EmptySet, FS_Singleton
  <1> QED
    BY <1>1, <1>6

LEMMA RememberKeeps ==
    ASSUME StoreInv, NEW s \in Sessions, Remember(s)
    PROVE  StoreTypes' /\ IdInv' /\ KeyInv'
  <1> USE DEF StoreInv
  <1> DEFINE row == plan[s]
  <1>1. /\ backend = "memory" /\ row # NoPlan /\ rows' = Remembered(row)
        /\ plan' = [plan EXCEPT ![s] = NoPlan]
        /\ UNCHANGED <<backend, table, pending, gone, units, failed>>
    BY DEF Remember
  <1>2. row \in AllRows /\ row \in Row
    BY <1>1, SeenRows, RowTypes
  <1>3. rows' \subseteq rows \cup {row}
    BY <1>1 DEF Remembered
  <1>4. StoreTypes'
    <2>1. plan' \in [Sessions -> Row \cup {NoPlan}]
      BY <1>1 DEF StoreTypes
    <2> QED
      BY <1>1, <1>2, <1>3, <2>1 DEF StoreTypes
  <1>5. IdInv'
    <2>1. \A o \in Sessions : plan'[o] = plan[o] \/ plan'[o] = NoPlan
      BY <1>1 DEF StoreTypes
    <2>2. rows' \subseteq AllRows
      BY <1>2, <1>3, SeenRows
    <2>3. AllRows' \subseteq AllRows
      BY <1>1, <2>1, <2>2 DEF AllRows, Plans
    <2> QED
      BY <1>1, <2>3, FewerRows
  <1>6. KeyInv'
    <2> SUFFICES ASSUME table \in Keyed \ KeyedInPostgresOnly PROVE OneOfKey(rows')
      BY <1>1 DEF KeyInv, OneOfKey
    <2>1. OneOfKey(rows) /\ KeptBy[table] \in {"key", "first", "owner"}
      BY TableFacts DEF KeyInv, StoreTypes
    <2> HIDE DEF row
    <2>2. CASE KeptBy[table] = "key"
      <3>1. rows' = {r \in rows : r.key # row.key} \cup {row}
        BY <1>1, <2>2 DEF Remembered
      <3> QED
        BY <2>1, <3>1 DEF OneOfKey
    <2>3. CASE KeptBy[table] = "first"
      <3>1. rows' = IF \E r \in rows : r.key = row.key THEN rows ELSE rows \cup {row}
        BY <1>1, <2>3 DEF Remembered
      <3> QED
        BY <2>1, <3>1 DEF OneOfKey
    <2>4. CASE KeptBy[table] = "owner"
      <3>1. rows' = {r \in rows : r.owner # row.owner} \cup {row}
        BY <1>1, <2>4 DEF Remembered
      <3>2. row.owner = Owner /\ \A r \in rows : r.owner = Owner
        BY <1>2 DEF StoreTypes, Row
      <3> QED
        BY <3>1, <3>2 DEF OneOfKey
    <2> QED
      BY <2>1, <2>2, <2>3, <2>4
  <1> QED
    BY <1>4, <1>5, <1>6

LEMMA ForgetKeeps ==
    ASSUME StoreInv, NEW s \in Sessions, NEW r \in rows, Forget(s, r)
    PROVE  StoreTypes' /\ IdInv' /\ KeyInv'
  <1>1. /\ backend = "memory" /\ rows' \subseteq rows
        /\ UNCHANGED <<backend, table, pending, gone, plan, units, failed>>
    BY DEF Forget
  <1>2. AllRows' \subseteq AllRows
    BY <1>1 DEF AllRows, Plans
  <1>3. IdInv'
    BY <1>1, <1>2, FewerRows DEF StoreInv
  <1>4. KeyInv'
    BY <1>1 DEF StoreInv, KeyInv, OneOfKey
  <1>5. StoreTypes'
    BY <1>1 DEF StoreInv, StoreTypes
  <1> QED
    BY <1>3, <1>4, <1>5

LEMMA StoreStart == ASSUME StoreInit PROVE StoreInv
  <1>1. MigrationInv
    BY MigrationStart DEF StoreInit
  <1>2. StoreTypes
    BY StoreAssumption DEF StoreInit, StoreTypes
  <1>3. AllRows = {}
    BY DEF StoreInit, AllRows, Plans
  <1>4. IdInv /\ PlanInv /\ FailureInv
    BY <1>3 DEF StoreInit, IdInv, PlanInv, FailureInv
  <1>5. \A s \in Sessions : Visible(s) = {}
    BY DEF StoreInit, Visible
  <1>6. KeyInv
    BY <1>5 DEF StoreInit, KeyInv, OneOfKey
  <1> QED
    BY <1>1, <1>2, <1>4, <1>6 DEF StoreInv

\* Objects are planned and saved while the services run.
LEMMA PlansKept ==
    ASSUME StoreInv, UNCHANGED <<migrationVars, backend, units>>,
           \A s \in Sessions : plan'[s] = plan[s] \/ plan'[s] = NoPlan,
           \A s \in Sessions :
              \/ pending'[s] = pending[s] /\ gone'[s] = gone[s]
              \/ backend = "postgres"
              \/ pending'[s] = {} /\ gone'[s] = {}
    PROVE  PlanInv'
  <1>1. ServicesRun' <=> ServicesRun
    BY DEF ServicesRun, migrationVars
  <1>2. \A s \in Sessions : plan'[s] # NoPlan => units'[s] > 0 /\ ServicesRun'
    BY <1>1 DEF StoreInv, PlanInv
  <1>3. backend' = "memory" => \A s \in Sessions : pending'[s] = {} /\ gone'[s] = {}
    BY DEF StoreInv, StoreTypes, PlanInv
  <1> QED
    BY <1>2, <1>3 DEF PlanInv

\* What every step but a migration keeps.
LEMMA SessionStep ==
    ASSUME StoreInv, NEW s \in Sessions,
           \/ \E k \in Keys : LookUp(s, k) \/ LookUpFindsSeveral(s, k)
           \/ Save(s)
           \/ \E r \in Visible(s) : Delete(s, r)
           \/ DeadlockDetected(s)
           \/ CommitSession(s)
           \/ Remember(s)
           \/ \E r \in rows : Forget(s, r)
    PROVE  StoreTypes' /\ IdInv' /\ PlanInv' /\ KeyInv' /\ FailureInv'
  <1> USE DEF StoreInv
  <1>1. ASSUME NEW k \in Keys, LookUp(s, k)
        PROVE  StoreTypes' /\ IdInv' /\ PlanInv' /\ KeyInv' /\ FailureInv'
    <2>1. /\ ServicesRun
          /\ units[s] < MaxUnits /\ units' = [units EXCEPT ![s] = @ + 1]
          /\ UNCHANGED <<migrationVars, backend, table, rows, pending, gone, failed>>
          /\ \E r : plan' = [plan EXCEPT ![s] = r]
      BY <1>1 DEF LookUp
    <2>2. ServicesRun'
      BY <2>1 DEF ServicesRun, migrationVars
    <2>3. ASSUME NEW o \in Sessions, plan'[o] # NoPlan PROVE units'[o] > 0
      <3>1. units[o] \in 0 .. MaxUnits
        BY DEF StoreTypes
      <3>2. CASE o = s
        <4>1. units'[o] = units[o] + 1
          BY <2>1, <3>2 DEF StoreTypes
        <4> QED
          BY <3>1, <4>1, StoreAssumption
      <3>3. CASE o # s
        <4>1. plan'[o] = plan[o] /\ units'[o] = units[o]
          BY <2>1, <3>3 DEF StoreTypes
        <4> QED
          BY <2>3, <4>1 DEF PlanInv
      <3> QED
        BY <3>2, <3>3
    <2>4. PlanInv'
      BY <2>1, <2>2, <2>3 DEF PlanInv
    <2>5. FailureInv'
      BY <2>1 DEF FailureInv
    <2> QED
      BY <1>1, <2>4, <2>5, LookUpKeeps
  <1>2. ASSUME NEW k \in Keys, LookUpFindsSeveral(s, k)
        PROVE  StoreTypes' /\ IdInv' /\ PlanInv' /\ KeyInv' /\ FailureInv'
    <2>1. /\ failed' = [failed EXCEPT ![s] = "several"]
          /\ plan' = [plan EXCEPT ![s] = NoPlan]
          /\ UNCHANGED <<migrationVars, backend, table, rows, pending, gone, units>>
      BY <1>2 DEF LookUpFindsSeveral, Fail
    <2>2. \A o \in Sessions : plan'[o] = plan[o] \/ plan'[o] = NoPlan
      BY <2>1 DEF StoreTypes
    <2>3. FailureInv'
      BY <1>2, <2>1, SeveralOnlyIfAmbiguous DEF FailureInv, StoreTypes
    <2>4. StoreTypes'
      BY <2>1 DEF StoreTypes
    <2>5. AllRows' \subseteq AllRows
      BY <2>1, <2>2 DEF AllRows, Plans
    <2>6. IdInv' /\ KeyInv'
      BY <2>1, <2>5, FewerRows DEF KeyInv, Visible
    <2>7. PlanInv'
      BY <2>1, <2>2, PlansKept
    <2> QED
      BY <2>3, <2>4, <2>6, <2>7
  <1>3. CASE Save(s)
    <2>1. UNCHANGED <<migrationVars, backend, units>> /\ backend = "postgres"
      BY <1>3 DEF Save
    <2>2. plan' = [plan EXCEPT ![s] = NoPlan]
      <3>1. Access[table].save \in {"insert", "merge", "upsert"}
        BY TableFacts DEF StoreTypes, Suits
      <3>2. \/ Insert(s, plan[s]) \/ Merge(s, plan[s]) \/ Upsert(s, plan[s])
        BY <1>3, <3>1 DEF Save
      <3> QED
        BY <3>2 DEF Insert, Merge, Upsert, Write, Abort, Fail
    <2>3. \A o \in Sessions : plan'[o] = plan[o] \/ plan'[o] = NoPlan
      BY <2>2 DEF StoreTypes
    <2>4. PlanInv'
      BY <2>1, <2>3, PlansKept
    <2> QED
      BY <1>3, <2>4, SaveKeeps
  <1>4. ASSUME NEW r \in Visible(s), Delete(s, r)
        PROVE  StoreTypes' /\ IdInv' /\ PlanInv' /\ KeyInv' /\ FailureInv'
    <2>1. /\ UNCHANGED <<migrationVars, backend, table, plan, units, failed>>
          /\ backend = "postgres"
      BY <1>4 DEF Delete
    <2>2. PlanInv' /\ FailureInv'
      BY <2>1, PlansKept DEF FailureInv
    <2> QED
      BY <1>4, <2>2, DeleteKeeps
  <1>5. CASE DeadlockDetected(s)
    <2>1. /\ Abort(s, "deadlock") /\ backend = "postgres"
          /\ UNCHANGED <<migrationVars, backend, table, rows, units>>
      BY <1>5 DEF DeadlockDetected, BlockedBy
    <2>2. \A o \in Sessions : plan'[o] = plan[o] \/ plan'[o] = NoPlan
      BY <2>1 DEF Abort, Fail, StoreTypes
    <2>3. FailureInv'
      BY <2>1 DEF Abort, Fail, FailureInv, StoreTypes
    <2>4. PlanInv'
      BY <2>1, <2>2, PlansKept
    <2> QED
      BY <2>1, <2>3, <2>4, AbortKeeps
  <1>6. CASE CommitSession(s)
    <2>1. UNCHANGED <<migrationVars, backend, table, plan, units, failed>>
      BY <1>6 DEF CommitSession
    <2>2. \A o \in Sessions : \/ pending'[o] = pending[o] /\ gone'[o] = gone[o]
                              \/ pending'[o] = {} /\ gone'[o] = {}
      BY <1>6, CommitEffect
    <2>3. PlanInv' /\ FailureInv'
      BY <2>1, <2>2, PlansKept DEF FailureInv
    <2> QED
      BY <1>6, <2>3, CommitKeeps
  <1>7. CASE Remember(s)
    <2>1. /\ UNCHANGED <<migrationVars, backend, table, pending, gone, units, failed>>
          /\ plan' = [plan EXCEPT ![s] = NoPlan]
      BY <1>7 DEF Remember
    <2>2. \A o \in Sessions : plan'[o] = plan[o] \/ plan'[o] = NoPlan
      BY <2>1 DEF StoreTypes
    <2>3. PlanInv' /\ FailureInv'
      BY <2>1, <2>2, PlansKept DEF FailureInv
    <2> QED
      BY <1>7, <2>3, RememberKeeps
  <1>8. ASSUME NEW r \in rows, Forget(s, r)
        PROVE  StoreTypes' /\ IdInv' /\ PlanInv' /\ KeyInv' /\ FailureInv'
    <2>1. UNCHANGED <<migrationVars, backend, table, pending, gone, plan, units,
                      failed>>
      BY <1>8 DEF Forget
    <2>2. PlanInv' /\ FailureInv'
      BY <2>1, PlansKept DEF FailureInv
    <2> QED
      BY <1>8, <2>2, ForgetKeeps
  <1> QED
    BY <1>1, <1>2, <1>3, <1>4, <1>5, <1>6, <1>7, <1>8

LEMMA SessionLeavesDatabase ==
    ASSUME NEW s \in Sessions,
           \/ \E k \in Keys : LookUp(s, k) \/ LookUpFindsSeveral(s, k)
           \/ Save(s)
           \/ \E r \in Visible(s) : Delete(s, r)
           \/ DeadlockDetected(s)
           \/ CommitSession(s)
           \/ Remember(s)
           \/ \E r \in rows : Forget(s, r)
    PROVE  UNCHANGED migrationVars
  BY DEF LookUp, LookUpFindsSeveral, Save, Delete, DeadlockDetected,
         CommitSession, Remember, Forget

LEMMA StoreStep == ASSUME StoreInv, [StoreNext]_storeVars PROVE StoreInv'
  <1>1. CASE MigrateDatabase
    <2>1. /\ MigrationNext /\ \A s \in Sessions : units[s] = 0
          /\ UNCHANGED <<backend, table, rows, pending, gone, plan, units, failed>>
      BY <1>1 DEF MigrateDatabase
    <2>2. MigrationInv'
      BY <2>1, MigrationStep DEF StoreInv
    <2>3. \A s \in Sessions : plan[s] = NoPlan
      BY <2>1 DEF StoreInv, PlanInv
    <2>4. PlanInv'
      BY <2>1, <2>3 DEF StoreInv, PlanInv
    <2>5. AllRows' = AllRows /\ \A s \in Sessions : Visible(s)' = Visible(s)
      BY <2>1 DEF AllRows, Plans, Visible
    <2>6. StoreTypes' /\ FailureInv'
      BY <2>1 DEF StoreInv, StoreTypes, FailureInv
    <2>7. IdInv'
      BY <2>1, <2>5 DEF StoreInv, IdInv
    <2>8. KeyInv'
      BY <2>1, <2>5 DEF StoreInv, KeyInv, OneOfKey
    <2> QED
      BY <2>2, <2>4, <2>6, <2>7, <2>8 DEF StoreInv
  <1>2. ASSUME NEW s \in Sessions,
               \/ \E k \in Keys : LookUp(s, k) \/ LookUpFindsSeveral(s, k)
               \/ Save(s)
               \/ \E r \in Visible(s) : Delete(s, r)
               \/ DeadlockDetected(s)
               \/ CommitSession(s)
               \/ Remember(s)
               \/ \E r \in rows : Forget(s, r)
        PROVE  StoreInv'
    <2>1. MigrationInv'
      BY <1>2, SessionLeavesDatabase
         DEF StoreInv, MigrationInv, AtStage, migrationVars
    <2> QED
      BY <1>2, <2>1, SessionStep DEF StoreInv
  <1>3. CASE UNCHANGED storeVars
    <2>1. MigrationInv'
      BY <1>3 DEF storeVars, migrationVars, StoreInv, MigrationInv, AtStage
    <2>2. StoreTypes' /\ FailureInv'
      BY <1>3 DEF storeVars, StoreInv, StoreTypes, FailureInv
    <2>3. AllRows' = AllRows /\ \A s \in Sessions : Visible(s)' = Visible(s)
      BY <1>3 DEF storeVars, AllRows, Plans, Visible
    <2>4. IdInv'
      BY <1>3, <2>3 DEF storeVars, StoreInv, IdInv
    <2>5. KeyInv'
      BY <1>3, <2>3 DEF storeVars, StoreInv, KeyInv, OneOfKey
    <2>6. PlanInv'
      BY <1>3, PlansKept DEF storeVars
    <2> QED
      BY <2>1, <2>2, <2>4, <2>5, <2>6 DEF StoreInv
  <1> QED
    BY <1>1, <1>2, <1>3 DEF StoreNext

-----------------------------------------------------------------------------
(* The theorems.                                                            *)

\* Wherever the migrations and the sessions of the processes stand: the tables
\* are those of the revision, ids and keys keep their rows apart.
THEOREM StoreInvariant == StoreSpec => []StoreInv
  BY StoreStart, StoreStep, PTL DEF StoreSpec

\* The types of the rows, of what sessions hold, and of the tables' facts.
THEOREM StoreTyped == StoreSpec => []StoreTypeOK
  <1>1. StoreInv => StoreTypeOK
    BY SchemaNames, AccessNames, KeptNames
       DEF StoreInv, StoreTypes, StoreTypeOK, Tables
  <1> QED
    BY <1>1, StoreInvariant, PTL

\* A service that the migrations let start finds the tables and columns of
\* tables.py; a save with a conflict target succeeds however the sessions
\* interleave; a unique key has one row, in PostgreSQL and in memory.
THEOREM KeyedSaves == StoreSpec => []KeyedSavesSucceed
  <1>1. StoreInv => KeyedSavesSucceed
    <2> SUFFICES ASSUME StoreInv PROVE KeyedSavesSucceed
      OBVIOUS
    <2>1. started => db.tables = Schema /\ db.columns = LaterColumns
      BY StartedIsMigrated DEF StoreInv
    <2>2. "key" \in Schema[table] => table \in Keyed
      <3>1. Schema[table] = Unique(table)
        BY TableFacts DEF StoreInv, StoreTypes
      <3> QED
        BY <3>1 DEF Unique, Id
    <2> QED
      BY <2>1, <2>2 DEF StoreInv, KeyInv, OneOfKey, FailureInv, KeyedSavesSucceed
  <1> QED
    BY <1>1, StoreInvariant, PTL

\* A lookup that raises on a second row finds one only in the tables whose
\* natural key is not unique, whatever two processes create at once.
THEOREM LookupsSingle == StoreSpec => []LookupsAreSingle
  <1>1. StoreInv => LookupsAreSingle
    BY DEF StoreInv, FailureInv, LookupsAreSingle
  <1> QED
    BY <1>1, StoreInvariant, PTL
=============================================================================
