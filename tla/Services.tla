------------------------------ MODULE Services ------------------------------
(***************************************************************************)
(* The services that share no state with each other: a behaviour looks at  *)
(* one of them (its focus), the others stay in their initial states, so    *)
(* that the state spaces add up.                                           *)
(***************************************************************************)
EXTENDS EngineeringWorkflow, WorkflowEngine, PostgresStore, KnowledgeGraph,
        ContextEngine

\* Tables that the schema and the repositories treat alike behave alike: one of
\* each kind is looked at, one with a delete if there is one.  How the memory
\* keeps a table tells tables apart only there.
KindOf(name, store) ==
    <<Schema[name], Access[name], name \in DerivedIds, name \in AmbiguousLookups,
      IF store = "memory" THEN KeptBy[name] ELSE "">>
OneOfEachKind(store) ==
    {CHOOSE name \in Tables :
       /\ KindOf(name, store) = kind
       /\ \/ name \in Deletable
          \/ \A other \in Deletable : KindOf(other, store) # kind :
       kind \in {KindOf(name, store) : name \in Tables}}

SomeTable == CHOOSE name \in OneOfEachKind("postgres") : TRUE

VARIABLE focus

allVars == <<focus, engineVars, orchVars, storeVars, knowledgeVars, contextVars>>

Init ==
    /\ focus \in {"engine", "orchestrator", "store", "knowledge", "context"}
    /\ EngineInit /\ OrchInit /\ StoreInit /\ KnowledgeInit /\ ContextInit
    \* One initial state per focus: what is not looked at is as it may be.
    /\ table \in OneOfEachKind(backend)
    /\ focus # "store" => table = SomeTable /\ backend = "postgres" /\ started
    /\ table # SomeTable \/ backend = "memory" => started
    /\ focus # "orchestrator" => item = [exists |-> FALSE, criteria |-> FALSE,
                                         implemented |-> FALSE]
    /\ focus # "knowledge" => codeStore = "postgres"

InEngine(A) == focus = "engine" /\ A
    /\ UNCHANGED <<focus, orchVars, storeVars, knowledgeVars, contextVars>>
InOrchestrator(A) == focus = "orchestrator" /\ A
    /\ UNCHANGED <<focus, engineVars, storeVars, knowledgeVars, contextVars>>
InStore(A) == focus = "store" /\ A
    /\ UNCHANGED <<focus, engineVars, orchVars, knowledgeVars, contextVars>>
InKnowledge(A) == focus = "knowledge" /\ A
    /\ UNCHANGED <<focus, engineVars, orchVars, storeVars, contextVars>>
InContext(A) == focus = "context" /\ A
    /\ UNCHANGED <<focus, engineVars, orchVars, storeVars, knowledgeVars>>

Next ==
    \/ InEngine(EngineNext)
    \/ InOrchestrator(OrchNext)
    \/ InStore(StoreNext)
    \/ InKnowledge(KnowledgeNext)
    \/ InContext(ContextNext)

\* A call that runs goes on; the processes of the store commit and PostgreSQL
\* looks for deadlocks.
Fairness ==
    /\ WF_engineVars(InEngine(EngineStep))
    /\ WF_orchVars(InOrchestrator(Superstep))
    /\ \A session \in Sessions : WF_storeVars(InStore(StoreSettles(session)))

Spec == Init /\ [][Next]_allVars /\ Fairness

TypeOK ==
    /\ EngineTypeOK
    /\ OrchTypeOK
    /\ StoreTypeOK
    /\ KnowledgeTypeOK
    /\ ContextTypeOK

\* WorkflowEngineService.resume() and EngineeringWorkflow.run() end: every call
\* comes back, whatever executors answer and whatever happens to the work item.
WorkflowsEnd == ResumeReturns /\ RunEnds
=============================================================================
