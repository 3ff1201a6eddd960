---------------------------- MODULE WorkflowGraph ----------------------------
(***************************************************************************)
(* What domain/workflow.py promises of a workflow: its checkpoint walks    *)
(* the main engineering graph edge by edge, with a bounded number of       *)
(* retries, or is given up at the retry stage.  A checkpoint may also fall *)
(* back to an earlier one that was saved (a crash).                        *)
(***************************************************************************)
EXTENDS Naturals

CONSTANT MaxRetries     \* WorkflowState.max_retries

VARIABLES stage, retries, trail

graphVars == <<stage, retries, trail>>

Stage == {"intake", "understand", "build_context", "route_executor", "execute",
          "verify", "retry", "human", "create_pr", "update_brain", "complete",
          "failed"}

\* MAIN_ENGINEERING_GRAPH.
Edges == {<<"intake", "understand">>, <<"understand", "build_context">>,
          <<"build_context", "route_executor">>, <<"route_executor", "execute">>,
          <<"execute", "verify">>, <<"verify", "retry">>, <<"verify", "human">>,
          <<"verify", "create_pr">>, <<"retry", "execute">>,
          <<"create_pr", "update_brain">>, <<"update_brain", "complete">>}

\* PLANNING_GRAPH ends where the context is built.
PlanningEdges == {<<"intake", "understand">>, <<"understand", "build_context">>,
                  <<"build_context", "complete">>}

NextStages(edges, s) == {edge[2] : edge \in {x \in edges : x[1] = s}}

GraphInit == stage = "intake" /\ retries = 0 /\ trail = {<<"intake", 0>>}

Walk ==
    /\ stage' \in NextStages(Edges, stage)
    /\ retries' = IF stage = "retry" THEN retries + 1 ELSE retries
    /\ retries' <= MaxRetries
    /\ trail' = trail \cup {<<stage', retries'>>}

GiveUp ==
    /\ stage = "retry"
    /\ stage' = "failed"
    /\ UNCHANGED retries
    /\ trail' = trail \cup {<<stage', retries'>>}

FallBack ==
    /\ <<stage', retries'>> \in trail
    /\ UNCHANGED trail

GraphNext == Walk \/ GiveUp \/ FallBack

GraphSpec == GraphInit /\ [][GraphNext]_graphVars
=============================================================================
