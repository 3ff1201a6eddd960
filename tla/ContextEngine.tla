---------------------------- MODULE ContextEngine ----------------------------
(***************************************************************************)
(* application/context_engine.py and what it reads: the semantic index     *)
(* (semantic_indexing.py and its adapters), hybrid_retrieval.py and the    *)
(* entities of the knowledge graph.  A canonical entity has a type and a   *)
(* version (0 when it does not exist); a text is an entity at a version,   *)
(* with a size in tokens and scores against the one query of the task.     *)
(* Scores are thousandths.                                                 *)
(***************************************************************************)
EXTENDS Naturals, Sequences, FiniteSets, SequencesExt

CONSTANTS
    Entities,         \* canonical entities, by id
    TypeOf,           \* [Entities -> EntityTypes]
    TestEntities,     \* symbols of test files
    Tokens,           \* [Entities -> [version -> size]]
    LexicalScore,     \* [Entities -> [version -> score]], 0 for no match
    VectorScore,
    SymbolScore,      \* [Entities -> [version -> score]] (_symbol_score)
    NodeTokens,       \* size of the text of a graph node
    Task,             \* the work item
    TaskTokens,
    RequirementRefs,  \* its requirement_refs
    PastExecutions,   \* sequence of [id, tokens, results], results a sequence
    RequestsForContext, \* the requests that may come
    SearchLimit,      \* limit of retrieve(): 20 in the code
    HasEmbeddings,
    NoBuild,
    MaxVersion,       \* bound on versions of an entity
    MaxIndexings      \* bound on indexings

EntityTypes == {"DocumentNode", "Requirement", "Decision", "Symbol", "Component"}

\* Sizes, limits and scores are numbers, and past results come in sequences.
ASSUME ContextAssumption ==
    /\ SearchLimit \in Nat /\ MaxVersion \in Nat \ {0} /\ MaxIndexings \in Nat
    /\ HasEmbeddings \in BOOLEAN
    /\ IsFiniteSet(Entities) /\ RequirementRefs \subseteq Entities
    /\ TypeOf \in [Entities -> EntityTypes]
    /\ \A measure \in {Tokens, LexicalScore, VectorScore, SymbolScore} :
         measure \in [Entities -> [1..MaxVersion -> Nat]]
    /\ NodeTokens \in Nat /\ TaskTokens \in Nat
    /\ PastExecutions \in Seq(Range(PastExecutions))
    /\ \A x \in Range(PastExecutions) :
         /\ x.tokens \in Nat
         /\ x.results \in Seq(Range(x.results))
         /\ \A y \in Range(x.results) : y.tokens \in Nat
    /\ \A request \in RequestsForContext : request.max \in Nat

VARIABLES
    version,     \* canonical version of an entity
    index,       \* records of the semantic index, in insertion order
    projected,   \* entities of the knowledge graph
    lastBuild,   \* history: the capsule the last step built, or NoBuild
    indexings    \* history: number of indexings

contextVars == <<version, index, projected, lastBuild, indexings>>

-----------------------------------------------------------------------------
(* SemanticIndexingService.index_project: every record has a new record_id, *)
(* so that indexing again adds records and removes none.                    *)

\* Symbols are indexed for a repository and a revision; requirements and
\* decisions carry no repository; components are not indexed.
Indexed(repository) ==
    {e \in Entities : /\ version[e] > 0
                      /\ TypeOf[e] # "Component"
                      /\ TypeOf[e] = "Symbol" => repository}

RecordOf(e, repository) ==
    [entity |-> e, version |-> version[e],
     repository |-> repository /\ TypeOf[e] \in {"DocumentNode", "Symbol"}]

IndexProject(repository) ==
    /\ indexings < MaxIndexings
    /\ indexings' = indexings + 1
    /\ index' = index \o SetToSeq({RecordOf(e, repository) :
                                     e \in Indexed(repository)})
    /\ lastBuild' = NoBuild
    /\ UNCHANGED <<version, projected>>

-----------------------------------------------------------------------------
(* search, search_by_vector and HybridRetrievalService.retrieve.            *)

\* sort(reverse=True) by a key is stable: the chosen elements of s by falling
\* key, equal ones in the order they had.
SortedByKey(s, chosen, key) ==
    LET place == [i \in chosen |->
                    Cardinality({j \in chosen : \/ key[j] > key[i]
                                                \/ key[j] = key[i] /\ j <= i})]
    IN  [n \in 1..Cardinality(chosen) |-> s[CHOOSE i \in chosen : place[i] = n]]

FirstOf(s, n) == SubSeq(s, 1, IF n < Len(s) THEN n ELSE Len(s))

Search(score, repository, limit) ==
    LET key == [i \in DOMAIN index |-> score[index[i].entity][index[i].version]]
        found == {i \in DOMAIN index : /\ key[i] > 0
                                       /\ repository => index[i].repository}
    IN  FirstOf(SortedByKey(index, found, key), limit)

\* round(1 / (1 + rank), 3) for the hit in place rank + 1.
NormalizedRank(place) == (2000 \div place + 1) \div 2

Hit(record, relevance) == [record |-> record, relevance |-> relevance]

\* _merge: one hit per entity, in its first place, the one with the best rank.
SameEntity(hits, i) ==
    {j \in DOMAIN hits : hits[j].record.entity = hits[i].record.entity}
MergeHit(hits, i) ==
    SortedByKey(hits, SameEntity(hits, i),
                [j \in DOMAIN hits |-> hits[j].relevance])[1]

Ranked(found) == [i \in DOMAIN found |-> Hit(found[i], NormalizedRank(i))]

Retrieve(repository) ==
    LET lexical == Search(LexicalScore, repository, 2 * SearchLimit)
        semantic == IF HasEmbeddings
                    THEN Search(VectorScore, repository, 2 * SearchLimit)
                    ELSE <<>>
        hits == Ranked(lexical) \o Ranked(semantic)
        firsts == {i \in DOMAIN hits : \A j \in SameEntity(hits, i) : i <= j}
        Boost(hit) == Hit(hit.record, hit.relevance +
                            IF hit.record.entity \in projected THEN 100 ELSE 0)
        boosted == [i \in DOMAIN hits |-> Boost(MergeHit(hits, i))]
    IN  FirstOf(SortedByKey(boosted, firsts,
                            [i \in DOMAIN hits |-> boosted[i].relevance]),
                SearchLimit)

-----------------------------------------------------------------------------
(* ContextEngineService._gather_candidates.                                 *)

Candidate(id, tokens, relevance, trust, category) ==
    [id |-> id, tokens |-> tokens, relevance |-> relevance, trust |-> trust,
     category |-> category]

CategoryForType == [DocumentNode |-> "architecture", Decision |-> "architecture",
                    Requirement |-> "requirements", Symbol |-> "source_code",
                    Component |-> "source_code"]

RequirementCandidates(request) ==
    LET found == SetToSeq({e \in RequirementRefs : request.known /\ version[e] > 0})
    IN  [i \in DOMAIN found |->
           Candidate(found[i], Tokens[found[i]][version[found[i]]], 950, 900,
                     "requirements")]

SearchCandidates(request) ==
    IF ~request.project THEN <<>>
    ELSE LET hits == Retrieve(request.repository)
         IN  [i \in DOMAIN hits |->
                LET r == hits[i].record
                IN  Candidate(r.entity, Tokens[r.entity][r.version],
                              hits[i].relevance, 500,
                              CategoryForType[TypeOf[r.entity]])]

SymbolCandidates(request) ==
    LET found == SetToSeq({e \in Entities : /\ request.repository
                                           /\ TypeOf[e] = "Symbol"
                                           /\ version[e] > 0})
    IN  [i \in DOMAIN found |->
           Candidate(found[i], Tokens[found[i]][version[found[i]]],
                     SymbolScore[found[i]][version[found[i]]], 800,
                     IF found[i] \in TestEntities THEN "tests" ELSE "source_code")]

ExecutionCandidates(request, execution) ==
    <<Candidate(execution.id, execution.tokens, 500, 700, "history")>>
      \o (IF request.feedback
          THEN [i \in DOMAIN execution.results |->
                  Candidate(execution.results[i].id, execution.results[i].tokens,
                            600, 900, "tests")]
          ELSE <<>>)
HistoryCandidates(request) ==
    LET upto[n \in 0..Len(PastExecutions)] ==
          IF n = 0 THEN <<>>
          ELSE upto[n - 1] \o ExecutionCandidates(request, PastExecutions[n])
    IN  IF request.history THEN upto[Len(PastExecutions)] ELSE <<>>

GraphCandidates(request) ==
    LET found == SetToSeq({e \in projected :
                            /\ request.project
                            /\ TypeOf[e] \in {"Decision", "Requirement", "Component"}})
    IN  [i \in DOMAIN found |->
           Candidate(found[i], NodeTokens, 500, 600, "architecture")]

GatherCandidates(request) ==
    <<Candidate(Task, TaskTokens, 1000, 1000, "task")>>
      \o RequirementCandidates(request) \o SearchCandidates(request)
      \o SymbolCandidates(request) \o HistoryCandidates(request)
      \o GraphCandidates(request)

-----------------------------------------------------------------------------
(* Ranking, allocation and selection.                                       *)

\* By relevance, then by trust.
Rank(candidates) ==
    SortedByKey(candidates, DOMAIN candidates,
                [i \in DOMAIN candidates |->
                   candidates[i].relevance * 10000 + candidates[i].trust])

\* _DEFAULT_WEIGHTS in hundredths.
Weights == [task |-> 15, requirements |-> 15, architecture |-> 15,
            source_code |-> 30, tests |-> 10, history |-> 5, instructions |-> 10]

Allocated(request, category) == (request.preferred * Weights[category]) \div 100

NothingSelected == [included |-> {}, total |-> 0, open |-> TRUE,
                    used |-> [c \in DOMAIN Weights |-> 0]]

Taken(ranked, capsule, i) ==
    [included |-> capsule.included \cup {i},
     total |-> capsule.total + ranked[i].tokens,
     open |-> capsule.open,
     used |-> [capsule.used EXCEPT ![ranked[i].category] = @ + ranked[i].tokens]]

\* Mutant: a candidate that does not fit is skipped, and the next one tried.
SelectSkipping(request, ranked, capsule, i) ==
    LET c == ranked[i]
    IN  IF \/ capsule.used[c.category] >= Allocated(request, c.category)
           \/ capsule.total + c.tokens > request.max
        THEN capsule
        ELSE Taken(ranked, capsule, i)

\* A category that is used up is skipped; the first other candidate that does
\* not fit ends the capsule.
Select(request, ranked, capsule, i) ==
    LET c == ranked[i]
    IN  IF ~capsule.open \/ capsule.used[c.category] >= Allocated(request, c.category)
        THEN capsule
        ELSE IF capsule.total + c.tokens > request.max
        THEN [capsule EXCEPT !.open = FALSE]
        ELSE Taken(ranked, capsule, i)

BuildCapsule(request, ranked) ==
    LET chosen[n \in 0..Len(ranked)] ==
          IF n = 0 THEN NothingSelected
          ELSE Select(request, ranked, chosen[n - 1], n)
    IN  chosen[Len(ranked)]

-----------------------------------------------------------------------------
(* Steps.                                                                   *)

ContextTypeOK ==
    /\ version \in [Entities -> 0..MaxVersion]
    /\ \A i \in DOMAIN index : /\ index[i].entity \in Entities
                               /\ index[i].version \in 1..MaxVersion
    /\ projected \subseteq Entities
    /\ lastBuild # NoBuild => lastBuild.request \in RequestsForContext
    /\ indexings \in 0..MaxIndexings

ContextInit ==
    /\ version = [e \in Entities |-> 1]
    /\ index = <<>>
    /\ projected = {}
    /\ lastBuild = NoBuild
    /\ indexings = 0

\* A canonical entity changes, or is deleted: no record of the index and no
\* node of the graph is.
EditEntity(e) ==
    /\ version[e] > 0
    /\ \E v \in {0, version[e] + 1} \cap (0..MaxVersion) :
         version' = [version EXCEPT ![e] = v]
    /\ lastBuild' = NoBuild
    /\ UNCHANGED <<index, projected, indexings>>

ProjectEntities ==
    /\ projected' = projected \cup {e \in Entities : version[e] > 0}
    /\ lastBuild' = NoBuild
    /\ UNCHANGED <<version, index, indexings>>

\* build() changes nothing that it reads: another one in the same state would
\* be the same as one in its place.
BuildForRequest(request) ==
    LET ranked == Rank(GatherCandidates(request))
    IN  /\ lastBuild = NoBuild
        /\ lastBuild' = [request |-> request, ranked |-> ranked,
                         capsule |-> BuildCapsule(request, ranked)]
        /\ UNCHANGED <<version, index, projected, indexings>>

ContextNext ==
    \/ \E e \in Entities : EditEntity(e)
    \/ \E repository \in BOOLEAN : IndexProject(repository)
    \/ ProjectEntities
    \/ \E request \in RequestsForContext : BuildForRequest(request)

-----------------------------------------------------------------------------
(* Properties.                                                              *)

TokensOf(ranked, S) ==
    LET sum[n \in 0..Len(ranked)] ==
          IF n = 0 THEN 0
          ELSE sum[n - 1] + (IF n \in S THEN ranked[n].tokens ELSE 0)
    IN  sum[Len(ranked)]

Before(S, i) == {j \in S : j < i}
OfCategory(ranked, S, c) == {j \in S : ranked[j].category = c}
UsedUp(request, ranked, S, i) ==
    TokensOf(ranked, OfCategory(ranked, Before(S, i), ranked[i].category))
      >= Allocated(request, ranked[i].category)
TooLarge(request, ranked, S, i) ==
    TokensOf(ranked, Before(S, i)) + ranked[i].tokens > request.max

\* A candidate ranks by relevance, and by trust among equals.
RanksAbove(x, y) == \/ x.relevance > y.relevance
                    \/ x.relevance = y.relevance /\ x.trust >= y.trust

\* A capsule stays within the hard limit and prefers by rank alone: a candidate
\* that ranks above an included one is missing only because its category had
\* used its share up with better ones; a category passes its share by no more
\* than one candidate; and a candidate that had room is missing only below the
\* first one that did not fit.  Repeated and outdated records in the index, and
\* an entity that three sources propose, change none of that.
CapsuleKeepsBest ==
    lastBuild # NoBuild =>
      LET ranked == lastBuild.ranked
          request == lastBuild.request
          included == lastBuild.capsule.included
      IN  /\ \A i, j \in DOMAIN ranked : i < j => RanksAbove(ranked[i], ranked[j])
          /\ TokensOf(ranked, included) <= request.max
          /\ \A i \in included : ~UsedUp(request, ranked, included, i)
          /\ \A i \in DOMAIN ranked \ included :
               \/ UsedUp(request, ranked, included, i)
               \/ /\ \A j \in included : j < i
                  /\ \E j \in 1..i : /\ j \notin included
                                     /\ ~UsedUp(request, ranked, included, j)
                                     /\ TooLarge(request, ranked, included, j)
=============================================================================
