--------------------------- MODULE KnowledgeGraph ---------------------------
(***************************************************************************)
(* application/graph_projection.py and the two adapters of the knowledge   *)
(* graph.  A projection reads the canonical rows of a project and the code *)
(* graph of its repository, upserts nodes and then edges; each call goes   *)
(* here to both adapters, the one in memory ("the reference behavior") and *)
(* Neo4j.  A row is [id, label, project, refs, mentions]: refs are its     *)
(* parent_id, requirement_refs or repository_ids, mentions the components  *)
(* its title names.                                                        *)
(***************************************************************************)
EXTENDS ImpactAnalysis

CONSTANTS
    CanonicalRows,    \* rows that may exist
    FirstRows,        \* rows that exist at the start
    Projects,
    CodeRepository,   \* the repository that CodeGraph is about
    NoRevision,
    NoJob,
    MaxProjections,   \* bound on projections
    MaxRowEdits,      \* bound on canonical changes
    FailurePoints     \* how many labels a failing projection may have written

ASSUME KnowledgeAssumption ==
    /\ MaxProjections \in Nat /\ MaxRowEdits \in Nat
    /\ FirstRows \subseteq CanonicalRows
    /\ \A row \in CanonicalRows :
         row.label \in {"Requirement", "WorkItem", "Component", "Repository",
                       "Decision"}
    /\ FailurePoints \subseteq 0..9

VARIABLES
    live,         \* canonical rows
    job,          \* the projection that runs, or NoJob
    reference,    \* InMemoryKnowledgeGraph
    neo4j,        \* Neo4jKnowledgeGraph
    fresh,        \* history: projections that ended and are up to date
    projections,  \* history: number of projections
    rowEdits      \* history: number of canonical changes

knowledgeVars == <<codeVars, live, job, reference, neo4j, fresh, projections,
                   rowEdits>>

-----------------------------------------------------------------------------
(* GraphProjectionService.project: nodes and edges of a project.            *)

Edge(a, type, b, v) ==
    [subject |-> a, type |-> type, object |-> b, revision |-> v]
Entity(id, label, p, v) ==
    [id |-> id, label |-> label, project |-> p, revision |-> v]

RowsOf(p) == {row \in live : row.project = p}

RefType == [Requirement |-> "DERIVED_FROM", WorkItem |-> "IMPLEMENTS",
            Component |-> "DEPENDS_ON", Repository |-> "", Decision |-> ""]

\* A repository hangs below its project by an edge in the other direction.
RowEdges(row, v) ==
    {IF row.label = "Repository" THEN Edge(row.project, "PART_OF", row.id, v)
     ELSE Edge(row.id, "PART_OF", row.project, v)}
      \cup {Edge(row.id, RefType[row.label], ref, v) : ref \in row.refs}
      \cup {Edge(row.id, "REFERENCES", c.id, v) :
              c \in {x \in RowsOf(row.project) :
                       x.label = "Component" /\ x.id \in row.mentions}}

\* _file_entity_id is made from the path; a symbol keeps the id of its build.
FileNode(v, m) == [file |-> m, revision |-> v]
SymbolNode(x) == [symbol |-> x.symbol, build |-> x.build, revision |-> x.revision]

CodeRelationMap == [IMPORTS |-> "IMPORTS", CALLS |-> "CALLS",
                    INSTANTIATES |-> "REFERENCES", INHERITS |-> "DERIVED_FROM",
                    TESTS |-> "TESTS"]

\* symbol_nodes has one node per identity, that of the last row listed.  Rows
\* of two builds are listed by name alone: either build may come last.
NodeOfIdentity(v, identity, newest) ==
    LET same == {x \in StoredSymbols(v) : x.symbol = identity}
    IN  {SymbolNode(x) : x \in {y \in same : \A z \in same :
                                 IF newest THEN z.build <= y.build
                                 ELSE z.build >= y.build}}

CodeEntities(p, v) ==
    {Entity(FileNode(v, x.symbol.module),
            IF x.symbol.module \in TestModules THEN "Test" ELSE "File", p, v) :
       x \in StoredSymbols(v)}
      \cup {Entity(SymbolNode(x), "Symbol", p, v) : x \in StoredSymbols(v)}

CodeEdges(v, newest) ==
    {Edge(FileNode(v, x.symbol.module), "PART_OF", CodeRepository, v) :
       x \in StoredSymbols(v)}
      \cup {Edge(SymbolNode(x), "PART_OF", FileNode(v, x.symbol.module), v) :
              x \in StoredSymbols(v)}
      \cup UNION {{Edge(a, CodeRelationMap[r.type], b, v) :
                     a \in NodeOfIdentity(v, r.source, newest),
                     b \in NodeOfIdentity(v, r.target, newest)} :
                    r \in StoredLinks(v)}

HasCode(p, v) == v # NoRevision /\ CodeRepository \in {row.id : row \in RowsOf(p)}

ProjectedEntities(p, v) ==
    {Entity(p, "Project", p, v)}
      \cup {Entity(row.id, row.label, p, v) : row \in RowsOf(p)}
      \cup (IF HasCode(p, v) THEN CodeEntities(p, v) ELSE {})
ProjectedEdges(p, v, newest) ==
    (IF HasCode(p, v) THEN CodeEdges(v, newest) ELSE {})
      \cup UNION {RowEdges(row, v) : row \in RowsOf(p)}

-----------------------------------------------------------------------------
(* The adapters.                                                            *)

EntityIds(graph) == {e.id : e \in graph.entities}

UpsertedEntities(graph, new) ==
    LET ids == {n.id : n \in new}
    IN  [graph EXCEPT !.entities = {e \in @ : e.id \notin ids} \cup new]

\* In memory a relation is kept whether or not its ends exist; Neo4j's MATCH
\* finds no end that is not there, and nothing is merged.
UpsertedInMemory(graph, new) == [graph EXCEPT !.edges = @ \cup new]
UpsertedInNeo4j(graph, new) ==
    LET ids == EntityIds(graph)
    IN  [graph EXCEPT !.edges = @ \cup
           {r \in new : {r.subject, r.object} \subseteq ids}]

\* The edges as a walk may take them: traverse goes forward, traverse_reverse
\* backward, neighborhood both ways.
Hops(graph, direction) ==
    {[from |-> r.subject, to |-> r.object, edge |-> r] :
       r \in IF direction = "reverse" THEN {} ELSE graph.edges}
      \cup {[from |-> r.object, to |-> r.subject, edge |-> r] :
              r \in IF direction = "forward" THEN {} ELSE graph.edges}

Allowed(r, types, v) == r.type \in types /\ v \in {NoRevision, r.revision}

\* _bfs: the frontier moves depth times, through missing nodes too.
Walk(hops, starts, depth) ==
    LET walk[n \in 0..depth] ==
          IF n = 0 THEN [reached |-> {}, frontier |-> starts]
          ELSE LET before == walk[n - 1]
                   past == before.reached \cup before.frontier
               IN  [reached |-> past,
                    frontier |-> {h.to : h \in
                      {x \in hops : /\ x.from \in before.frontier
                                    /\ x.to \notin past}}]
    IN  walk
TraverseInMemory(graph, starts, types, depth, v, direction) ==
    LET hops == {h \in Hops(graph, direction) : Allowed(h.edge, types, v)}
        last == Walk(hops, starts, depth)[depth]
    IN  (last.reached \cup last.frontier) \cap EntityIds(graph)

\* _traverse: the start nodes and the ends of paths of 1..depth edges; an
\* empty list of types allows every type.
Paths(hops, starts, depth) ==
    LET paths[n \in 0..depth] ==
          IF n = 0 THEN starts
          ELSE {h.to : h \in {x \in hops : x.from \in paths[n - 1]}}
    IN  paths
TraverseInNeo4j(graph, starts, types, depth, v, direction) ==
    LET hops == {h \in Hops(graph, direction) :
                   Allowed(h.edge, IF types = {} THEN {h.edge.type} ELSE types, v)}
        paths == Paths(hops, starts \cap EntityIds(graph), depth)
    IN  UNION {paths[n] : n \in 0..depth}

-----------------------------------------------------------------------------
(* Steps.                                                                   *)

EmptyGraph == [entities |-> {}, edges |-> {}]

KnowledgeTypeOK ==
    /\ CodeTypeOK
    /\ live \subseteq CanonicalRows
    /\ job # NoJob => /\ job.project \in Projects
                      /\ job.step \in {"entities", "relations"}
    /\ \A e \in reference.entities \cup neo4j.entities :
         e.project \in Projects /\ e.revision \in Revisions \cup {NoRevision}
    /\ fresh \subseteq Projects \X (Revisions \cup {NoRevision})
    /\ projections \in 0..MaxProjections
    /\ rowEdits \in 0..MaxRowEdits

KnowledgeInit ==
    /\ CodeInit
    /\ live = FirstRows
    /\ job = NoJob
    /\ reference = EmptyGraph /\ neo4j = EmptyGraph
    /\ fresh = {}
    /\ projections = 0 /\ rowEdits = 0

\* A canonical change outdates the projections, the running one too.
Outdated ==
    /\ fresh' = {}
    /\ job' = IF job = NoJob THEN NoJob ELSE [job EXCEPT !.exact = FALSE]

EditRow(row) ==
    /\ rowEdits < MaxRowEdits
    /\ rowEdits' = rowEdits + 1
    /\ live' = IF row \in live THEN live \ {row} ELSE live \cup {row}
    /\ Outdated
    /\ UNCHANGED <<codeVars, reference, neo4j, projections>>

BuildCode ==
    /\ CodeNext
    /\ Outdated
    /\ UNCHANGED <<live, reference, neo4j, projections, rowEdits>>

Gather(p, v, newest) ==
    /\ job = NoJob
    /\ projections < MaxProjections
    /\ projections' = projections + 1
    /\ job' = [project |-> p, revision |-> v, step |-> "entities", exact |-> TRUE,
               entities |-> ProjectedEntities(p, v),
               edges |-> ProjectedEdges(p, v, newest)]
    /\ UNCHANGED <<codeVars, live, reference, neo4j, fresh, rowEdits>>

\* Mutant: the edges are upserted before the nodes.
UpsertEntitiesLast ==
    /\ job # NoJob
    /\ job.step = "entities"
    /\ reference' = UpsertedEntities(UpsertedInMemory(reference, job.edges),
                                     job.entities)
    /\ neo4j' = UpsertedEntities(UpsertedInNeo4j(neo4j, job.edges),
                                 job.entities)
    /\ job' = [job EXCEPT !.step = "relations", !.edges = {}]
    /\ UNCHANGED <<codeVars, live, fresh, projections, rowEdits>>

UpsertEntities ==
    /\ job # NoJob
    /\ job.step = "entities"
    /\ reference' = UpsertedEntities(reference, job.entities)
    /\ neo4j' = UpsertedEntities(neo4j, job.entities)
    /\ job' = [job EXCEPT !.step = "relations"]
    /\ UNCHANGED <<codeVars, live, fresh, projections, rowEdits>>

UpsertRelations ==
    /\ job # NoJob
    /\ job.step = "relations"
    /\ reference' = UpsertedInMemory(reference, job.edges)
    /\ neo4j' = UpsertedInNeo4j(neo4j, job.edges)
    /\ fresh' = IF job.exact THEN fresh \cup {<<job.project, job.revision>>}
                ELSE fresh
    /\ job' = NoJob
    /\ UNCHANGED <<codeVars, live, projections, rowEdits>>

\* The process ends, or Neo4j fails: the nodes of some labels, in the order
\* in which they are gathered, may have been written, and no edge.
LabelOrder == <<"Project", "Repository", "Requirement", "WorkItem", "Component",
                "Decision", "File", "Test", "Symbol">>
ProjectionFails(n) ==
    LET written == {e \in job.entities : \E i \in 1..n : LabelOrder[i] = e.label}
    IN  /\ job # NoJob
        /\ job.step = "entities" \/ n = 0
        /\ reference' = UpsertedEntities(reference, written)
        /\ neo4j' = UpsertedEntities(neo4j, written)
        /\ job' = NoJob
        /\ UNCHANGED <<codeVars, live, fresh, projections, rowEdits>>

KnowledgeNext ==
    \/ \E row \in CanonicalRows : EditRow(row)
    \/ BuildCode
    \/ \E p \in Projects, v \in Revisions \cup {NoRevision}, newest \in BOOLEAN :
         Gather(p, v, newest)
    \/ UpsertEntities
    \/ UpsertRelations
    \/ \E n \in FailurePoints : ProjectionFails(n)

-----------------------------------------------------------------------------
(* GraphIntegrityChecker.check over all projects.                           *)

EntityIdentity(e) == IF e.label = "Symbol" THEN e.id.symbol.qualified
                     ELSE IF e.label = "File" THEN e.id.file
                     ELSE <<e.id>>
HasDuplicates(graph) ==
    \E e1, e2 \in graph.entities :
        /\ e1 # e2
        /\ e1.label = e2.label
        /\ EntityIdentity(e1) = EntityIdentity(e2)
Orphans(graph) ==
    LET ids == EntityIds(graph)
    IN  {r \in graph.edges : ~({r.subject, r.object} \subseteq ids)}

-----------------------------------------------------------------------------
(* Properties.                                                              *)

\* What Python means by an import in module m of a tree.
MeantModules(tree, m, i) ==
    {t \in Parsed(tree) :
       IF i.level = 0 THEN t = i.module
       ELSE LET up == Len(m) - i.level + (IF m \in Packages THEN 1 ELSE 0)
            IN  t = SubSeq(m, 1, up) \o i.module}

\* The neighbours a symbol has in a graph.
Near(graph, v, x, type) ==
    LET nodes == {SymbolNode(z) : z \in {y \in StoredSymbols(v) : y.symbol = x}}
    IN  {r.object.symbol : r \in {y \in graph.edges : /\ y.type = type
                                                     /\ y.revision = v
                                                     /\ y.subject \in nodes}}

\* The analysis of a change of callee, by its full name or by a last name that
\* no symbol has as its full one, names the file that calls it, as a test if it
\* is one, and its score is in range; the lookup for tools finds that test too.
ImpactIsShown(v, callee, caller) ==
    LET last == <<callee.qualified[Len(callee.qualified)]>>
    IN  \A target \in {callee.qualified}
                        \cup {x \in {last} : FindSymbol(v, x) = {}} :
          LET impact == AnalyzeImpact(v, {target})
          IN  /\ {caller, callee.module} \subseteq impact.files
              /\ {caller} \cap TestModules \subseteq
                   impact.tests \cap FindRelatedTests(v, callee.qualified)
              /\ impact.risk \in 1..100

\* Every import of a file of the tree, and every module that a test imports a
\* name from, is an edge between the modules; every call of a function that is
\* imported by name is an edge that what_calls and the impact analysis show too.
CodeIsShown(graph, v, tree) ==
    \A m \in Parsed(tree) : \A i \in tree[m].imports :
        \A t \in MeantModules(tree, m, i) \ {m} :
            /\ ModuleSymbol(t) \in Near(graph, v, ModuleSymbol(m), "IMPORTS")
            /\ m \in TestModules /\ i.name # ""
                 => ModuleSymbol(t) \in Near(graph, v, ModuleSymbol(m), "TESTS")
            /\ \A site \in tree[m].sites :
                 site.kind = "name" /\ site.name = Binds(i)
                   /\ i.name \in tree[t].functions \ {""}
                 => LET callee == Declare(t, <<i.name>>, "function")
                    IN  \A caller \in Caller(m, tree[m], site) :
                          /\ callee \in Near(graph, v, caller, "CALLS")
                          /\ Link("CALLS", caller, callee) \in
                               WhatCalls(v, callee.qualified)
                                 \cap WhatIsCalledBy(v, caller.qualified)
                          /\ ImpactIsShown(v, callee, m)

\* Neo4j shows what the rows of a project say of the project and of each other.
RowsAreShown(p, v) ==
    \A row \in RowsOf(p) :
        \A other \in (row.refs \cup {p}) \cap ({p} \cup {x.id : x \in RowsOf(p)}) :
            \E r \in neo4j.edges : /\ r.revision = v
                                   /\ {r.subject, r.object} = {row.id, other}

\* Neo4j has the nodes of the reference adapter and no edge that that one has
\* not, and no walk over some types of edges reaches more in it.
AdaptersAgree(types, depth) ==
    /\ neo4j.edges \subseteq reference.edges
    /\ EntityIds(neo4j) = EntityIds(reference)
    /\ \A p \in Projects, v \in Revisions \cup {NoRevision},
          direction \in {"forward", "reverse", "both"} :
         TraverseInNeo4j(neo4j, {p}, types, depth, v, direction)
           \subseteq TraverseInMemory(reference, {p}, types, depth, v, direction)

\* A qualified name is that of one symbol.
NamesAreUnique(tree) ==
    \A x, y \in TreeSymbols(tree) : x.qualified = y.qualified => x = y

\* The integrity checker reports no orphan, and no duplicate as long as the
\* code was built once, for one revision, from a tree with unique names.
CheckerIsContent ==
    /\ Orphans(neo4j) = {}
    /\ /\ builds <= 1
       /\ \A e1, e2 \in neo4j.entities : e1.revision = e2.revision
       /\ \A v \in Revisions : \A tree \in built[v] : NamesAreUnique(tree)
       => ~HasDuplicates(neo4j)

\* After a projection that nothing has outdated, Neo4j shows what the rows of
\* the project say of each other and what the files of the revision say.  At
\* any time the two adapters agree and the integrity checker is content.  A
\* crash between the nodes and the edges, a build that raised and an older
\* projection leave no trace in that.
ProjectionIsComplete ==
    /\ \A pv \in fresh :
         /\ RowsAreShown(pv[1], pv[2])
         /\ HasCode(pv[1], pv[2]) =>
              \A tree \in built[pv[2]] : CodeIsShown(neo4j, pv[2], tree)
    /\ AdaptersAgree({"PART_OF", "DEPENDS_ON"}, 2)
    /\ CheckerIsContent
=============================================================================
