------------------------ MODULE EngineeringWorkflow ------------------------
(***************************************************************************)
(* orchestration/engineering_workflow.py: the LangGraph orchestrator.  A   *)
(* superstep runs every active node on one state and applies their writes; *)
(* the edges of the nodes that ran name the nodes of the next superstep.   *)
(* Nothing is checkpointed.  Meanwhile people edit the work item and reply *)
(* to it (application/human_feedback.py).                                  *)
(***************************************************************************)
EXTENDS ExecutionGates

CONSTANTS
    OrchAnswers,    \* what the executor may answer
    OrchReports,    \* the sets of files a completed execution may report
    HasPullRequestPort, HasProjectRepository,  \* the container, the project
    MaxEdits        \* bound on edits and replies

MaxCounted == 6     \* bound on the executions that are counted

ASSUME OrchAssumption ==
    /\ OrchAnswers \subseteq Answers
    /\ OrchReports \subseteq SUBSET Files
    /\ MaxEdits \in Nat

VARIABLES
    nodes,     \* the nodes of the next superstep; {} when the run is over
    orch,      \* EngineeringState, as far as nodes read it
    item,      \* the work item: its row, its criteria, its status
    capsules,  \* context capsules of the work item
    notices,   \* observations the run created
    ran,       \* executions of the run, counted up to MaxCounted
    outcomes,  \* what they ended with
    pulls,     \* pull requests created
    raised,    \* a node raised and ainvoke() with it
    edits      \* edits and replies so far

surroundings == <<item, capsules, notices, ran, outcomes, pulls, raised, edits>>
orchVars == <<nodes, orch, surroundings>>

Node == {"load_work_item", "understand", "analyze", "create_observation",
         "build_context", "execute", "verify", "retry", "human",
         "pr_readiness", "create_pr", "publish_observation", "update_brain"}
EngineeringState ==
    [stage : Node \cup {"intake", "failed", "complete"},
     status : {"running", "completed"}, retries : 0..3, waiting : BOOLEAN,
     project : BOOLEAN, files : SUBSET Files,
     implementation : {"none", "analyzed", "open", "implemented"}]
InitialState ==
    [stage |-> "intake", status |-> "running", retries |-> 0,
     waiting |-> FALSE, project |-> FALSE, files |-> {},
     implementation |-> "none"]
WorkItemRow == [exists : BOOLEAN, criteria : BOOLEAN, implemented : BOOLEAN]

\* An execution as the run sees it: its status and the files it reported.
Outcome == [status : ExecutionStatus, files : SUBSET Files]

OrchTypeOK ==
    /\ nodes \subseteq Node
    /\ orch \in EngineeringState
    /\ item \in WorkItemRow
    /\ capsules \in BOOLEAN /\ notices \in BOOLEAN /\ raised \in BOOLEAN
    /\ ran \in 0..MaxCounted
    /\ outcomes \subseteq Outcome
    /\ pulls \in 0..1
    /\ edits \in 0..MaxEdits

OrchInit ==
    /\ nodes = {}
    /\ orch = InitialState
    /\ item \in WorkItemRow
    /\ capsules = FALSE /\ notices = FALSE /\ raised = FALSE
    /\ ran = 0
    /\ outcomes = {}
    /\ pulls = 0
    /\ edits = 0

\* Mutant: no edge is added behind the first analysis of the item.
NextNodesUnlinked(node) ==
    CASE node = "load_work_item" -> {"understand"}
      [] node = "analyze" -> {"create_observation"}
      [] node = "create_observation" -> {"build_context"}
      [] node = "build_context" -> {"execute"}
      [] node = "execute" -> {"verify"}
      [] node = "pr_readiness" -> {"create_pr", "publish_observation"}
      [] node = "create_pr" -> {"publish_observation"}
      [] node = "publish_observation" -> {"update_brain"}
      [] OTHER -> {}

\* The unconditional edges of build(); retry and verify choose theirs.
NextNodes(node) ==
    CASE node = "load_work_item" -> {"understand"}
      [] node = "understand" -> {"analyze"}
      [] node = "analyze" -> {"create_observation"}
      [] node = "create_observation" -> {"build_context"}
      [] node = "build_context" -> {"execute"}
      [] node = "execute" -> {"verify"}
      [] node = "pr_readiness" -> {"create_pr", "publish_observation"}
      [] node = "create_pr" -> {"publish_observation"}
      [] node = "publish_observation" -> {"update_brain"}
      [] node \in {"human", "update_brain"} -> {}

\* A superstep with one active node.
RunAlone(node, state) ==
    /\ nodes = {node}
    /\ orch' = state
    /\ nodes' = NextNodes(node)

\* run(): ainvoke() with a fresh state.
Invoke ==
    /\ nodes = {} /\ orch = InitialState /\ ~raised
    /\ nodes' = {"load_work_item"}
    /\ UNCHANGED <<orch, item, capsules, notices, ran, outcomes, pulls, raised,
                   edits>>

\* A missing item sets stage "failed", which no edge looks at.
LoadWorkItem ==
    /\ RunAlone("load_work_item",
                [orch EXCEPT !.stage = IF item.exists THEN "understand"
                                       ELSE "failed",
                             !.project = item.exists])
    /\ UNCHANGED surroundings

Understand ==
    /\ RunAlone("understand", [orch EXCEPT !.stage = "analyze"])
    /\ UNCHANGED surroundings

Analyze ==
    /\ RunAlone("analyze",
         [orch EXCEPT !.stage = "build_context",
                      !.implementation =
                         CASE ~item.exists -> "analyzed"
                           [] item.exists /\ item.implemented -> "implemented"
                           [] OTHER -> "open"])
    /\ UNCHANGED surroundings

\* The observation has the work item in its dedup_key, so there is one.
CreateObservation ==
    /\ RunAlone("create_observation", [orch EXCEPT !.stage = "build_context"])
    /\ notices' = (notices \/ (orch.project /\ orch.implementation = "implemented"))
    /\ UNCHANGED <<item, capsules, ran, outcomes, pulls, raised, edits>>

\* The context engine builds a capsule for an unknown item as well.
BuildContext ==
    /\ RunAlone("build_context", [orch EXCEPT !.stage = "execute"])
    /\ capsules' = TRUE
    /\ UNCHANGED <<item, notices, ran, outcomes, pulls, raised, edits>>

\* A failed execution keeps the files an earlier one reported, and goes on to
\* verification like any other.
Execute(answer, files) ==
    LET status == StatusFrom(answer)
        lost == status \in {"failed", "blocked", "cancelled"}
    IN  /\ ~Raises(answer)
        /\ RunAlone("execute",
                    IF lost THEN [orch EXCEPT !.stage = "retry"]
                    ELSE [orch EXCEPT !.stage = "verify", !.files = files])
        /\ ran' = IF ran < MaxCounted THEN ran + 1 ELSE ran
        /\ outcomes' = outcomes \cup {[status |-> status, files |-> files]}
        /\ UNCHANGED <<item, capsules, notices, pulls, raised, edits>>

ExecuteRaises(answer) ==
    /\ nodes = {"execute"}
    /\ Raises(answer)
    /\ nodes' = {}
    /\ raised' = TRUE
    /\ UNCHANGED <<orch, item, capsules, notices, ran, outcomes, pulls, edits>>

\* Mutant: verification asks only for criteria.
OrchVerdictIgnoresFiles ==
    IF item.exists /\ item.criteria THEN "pass" ELSE "blocked"

\* No repository is passed, hence no commands and no expected files.
OrchVerdict == Verify({}, item.exists /\ item.criteria, orch.files, {})

VerifyStage ==
    LET next == IF OrchVerdict = "pass" THEN "pr_readiness"
                ELSE IF orch.retries >= 3 THEN "human" ELSE "retry"
    IN  /\ nodes = {"verify"}
        /\ nodes' = {next}
        /\ orch' = [orch EXCEPT !.stage = next,
                                !.waiting = @ \/ next = "human"]
        /\ UNCHANGED surroundings

RetryState ==
    IF orch.retries >= 3 THEN [orch EXCEPT !.stage = "human", !.waiting = TRUE]
    ELSE [orch EXCEPT !.stage = "execute", !.retries = @ + 1]

Retry ==
    /\ nodes = {"retry"}
    /\ orch' = RetryState
    /\ nodes' = {IF orch'.waiting THEN "human" ELSE "execute"}
    /\ UNCHANGED surroundings

\* No edge leaves the node: the run is over, and no reply starts it again.
Human ==
    /\ RunAlone("human", [orch EXCEPT !.stage = "human", !.waiting = TRUE])
    /\ UNCHANGED surroundings

\* auto_create_pr only decides what the stage is called.
PRReadiness ==
    /\ \E stage \in {"create_pr", "publish_observation"} :
         RunAlone("pr_readiness", [orch EXCEPT !.stage = stage])
    /\ UNCHANGED surroundings

Opens == HasPullRequestPort /\ HasProjectRepository /\ item.exists

\* A superstep with two active nodes: both write the whole state, and the
\* writes of either may come last.
RunBoth(first, second, firstState, secondState) ==
    /\ nodes = {first, second}
    /\ orch' \in {firstState, secondState}
    /\ nodes' = NextNodes(first) \cup NextNodes(second)

\* create_pr runs beside publish_observation, which runs again after it.
CreatePR ==
    /\ RunBoth("create_pr", "publish_observation",
               [orch EXCEPT !.stage = "publish_observation"],
               [orch EXCEPT !.stage = "update_brain"])
    /\ pulls' = pulls + (IF Opens THEN 1 ELSE 0)
    /\ UNCHANGED <<item, capsules, notices, ran, outcomes, raised, edits>>

PullRequestFails ==
    /\ nodes = {"create_pr", "publish_observation"}
    /\ Opens
    /\ nodes' = {}
    /\ raised' = TRUE
    /\ UNCHANGED <<orch, item, capsules, notices, ran, outcomes, pulls, edits>>

Completed == [orch EXCEPT !.stage = "complete", !.status = "completed"]

PublishBesideUpdate ==
    /\ RunBoth("publish_observation", "update_brain",
               [orch EXCEPT !.stage = "update_brain"], Completed)
    /\ UNCHANGED surroundings

UpdateBrain ==
    /\ RunAlone("update_brain", Completed)
    /\ UNCHANGED surroundings

\* Someone edits or deletes the work item while the run goes on.
EditWorkItem ==
    /\ edits < MaxEdits
    /\ edits' = edits + 1
    /\ item' \in WorkItemRow \ {item}
    /\ UNCHANGED <<nodes, orch, capsules, notices, ran, outcomes, pulls, raised>>

\* HumanFeedbackReceived: the capsules of the item are deleted; no workflow is
\* resumed.
ReceiveFeedback ==
    /\ edits < MaxEdits
    /\ edits' = edits + 1
    /\ item.exists
    /\ capsules' = FALSE
    /\ UNCHANGED <<nodes, orch, item, notices, ran, outcomes, pulls, raised>>

Superstep ==
    \/ LoadWorkItem \/ Understand \/ Analyze \/ CreateObservation
    \/ BuildContext
    \/ \E answer \in OrchAnswers, files \in OrchReports : Execute(answer, files)
    \/ \E answer \in OrchAnswers : ExecuteRaises(answer)
    \/ VerifyStage \/ Retry \/ Human
    \/ PRReadiness \/ CreatePR \/ PullRequestFails
    \/ PublishBesideUpdate \/ UpdateBrain

OrchNext == Invoke \/ Superstep \/ EditWorkItem \/ ReceiveFeedback

-----------------------------------------------------------------------------
(* Properties.                                                              *)

\* A pull request is created only after some execution of this run succeeded
\* and reported files, however executions fail in between and whatever is done
\* to the work item: verification never passes on nothing.
PullRequestHasChanges ==
    pulls > 0 => \E o \in outcomes :
                    /\ o.status \notin {"failed", "blocked", "cancelled"}
                    /\ o.files # {}

\* A run ends, completed or waiting for a human or with an exception, after at
\* most four executions.
RunEnds ==
    nodes # {} ~> /\ nodes = {}
                  /\ raised \/ orch.stage = "human" \/ orch.status = "completed"
                  /\ ran <= 4
=============================================================================
