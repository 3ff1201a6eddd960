--------------------------- MODULE WorkflowEngine ---------------------------
(***************************************************************************)
(* application/workflow_engine.py: start() writes a checkpoint, resume()   *)
(* loads it and advances stage by stage, writing the checkpoint after each *)
(* stage into the session of its process.  The caller commits when the     *)
(* call has returned; a crash before that falls back to the last committed *)
(* checkpoint, whatever the executor has done meanwhile.                   *)
(***************************************************************************)
EXTENDS ExecutionGates

CONSTANTS
    MaxRetries,      \* WorkflowState.max_retries
    EngineAnswers,   \* what the executor may answer
    EngineCrashes,   \* bound on crashes
    MaxReports,      \* bound on errors a caller writes into the checkpoint
    Nothing

ASSUME EngineAssumption ==
    /\ {MaxRetries, EngineCrashes, MaxReports} \subseteq Nat
    /\ EngineAnswers \subseteq ExecutionStatus

VARIABLES
    saved,       \* the committed checkpoint, or Nothing
    flushed,     \* the checkpoint in the session, or Nothing
    memory,      \* the state resume() works on, or Nothing
    executed,    \* how often the executor ran
    outcome,     \* the status of the last execution
    reports,     \* errors written by a caller
    falls,       \* crashes so far
    visited      \* history: the checkpoints that were written

engineVars == <<saved, flushed, memory, executed, outcome, reports, falls,
                visited>>

WorkflowStatus == {"running", "completed", "failed", "blocked"}
Errors == {"none", "verification", "other"}
WorkflowState == [stage : {"intake", "understand", "build_context",
                           "route_executor", "execute", "verify", "retry",
                           "human", "create_pr", "update_brain", "complete",
                           "failed"},
                  status : WorkflowStatus, retries : 0..MaxRetries,
                  error : Errors]
\* None, where the code has no state, is not a state.
ASSUME NothingAssumption == Nothing \notin WorkflowState

NewState == [stage |-> "intake", status |-> "running", retries |-> 0,
             error |-> "none"]

\* load_checkpoint in the session of the process.
Checkpoint == IF flushed # Nothing THEN flushed
              ELSE IF saved # Nothing THEN saved ELSE NewState

Graph == INSTANCE WorkflowGraph
         WITH stage <- Checkpoint.stage, retries <- Checkpoint.retries,
              trail <- visited

EngineTypeOK ==
    /\ {saved, flushed, memory} \subseteq WorkflowState \cup {Nothing}
    /\ executed \in Nat
    /\ outcome \in ExecutionStatus \cup {Nothing}
    /\ reports \in 0..MaxReports
    /\ falls \in 0..EngineCrashes
    /\ visited \subseteq Graph!Stage \X (0..MaxRetries)

EngineInit ==
    /\ saved = Nothing /\ flushed = Nothing /\ memory = Nothing
    /\ executed = 0 /\ outcome = Nothing /\ reports = 0 /\ falls = 0
    /\ visited = {<<"intake", 0>>}

\* save_checkpoint: an upsert by workflow_id, flushed.
SaveCheckpoint(state) ==
    /\ flushed' = state
    /\ visited' = visited \cup {<<state.stage, state.retries>>}

\* RUN_WORK_ITEM ends here: no code resumes the workflow it starts.
Start ==
    /\ saved = Nothing /\ flushed = Nothing
    /\ SaveCheckpoint(NewState)
    /\ UNCHANGED <<saved, memory, executed, outcome, reports, falls>>

\* Mutant: resume() takes up a workflow in any status, and saves it as running.
ResumeReopens ==
    /\ memory = Nothing
    /\ saved # Nothing \/ flushed # Nothing
    /\ memory' = [Checkpoint EXCEPT !.status = "running"]
    /\ SaveCheckpoint(memory')
    /\ UNCHANGED <<saved, executed, outcome, reports, falls>>

Resume ==
    /\ memory = Nothing
    /\ saved # Nothing \/ flushed # Nothing
    /\ Checkpoint.status = "running"
    /\ memory' = Checkpoint
    /\ UNCHANGED <<saved, flushed, executed, outcome, reports, falls, visited>>

\* The tail of the loop: save the new stage, then the status that ends it.  The
\* state leaves memory when the loop condition fails.
Advanced(state) ==
    LET final == [state EXCEPT !.status =
                    CASE state.stage = "complete" -> "completed"
                      [] state.stage = "failed" -> "failed"
                      [] OTHER -> state.status]
    IN  /\ SaveCheckpoint(final)
        /\ memory' = IF final.status = "running" THEN final ELSE Nothing

\* Stages without logic take the first edge of the graph (each has one at most)
\* and complete the workflow where there is none; CREATE_PR goes on to
\* UPDATE_BRAIN without calling the pull-request port.
AdvanceAlongEdge ==
    /\ memory # Nothing
    /\ memory.stage \notin {"execute", "verify", "retry"}
    /\ LET candidates == Graph!NextStages(Graph!Edges, memory.stage)
       IN  IF candidates = {}
           THEN SaveCheckpoint([memory EXCEPT !.status = "completed"])
                  /\ memory' = Nothing
           ELSE \E next \in candidates : Advanced([memory EXCEPT !.stage = next])
    /\ UNCHANGED <<saved, executed, outcome, reports, falls>>

\* A completed execution clears the error; a failed one sets none.
AdvanceExecute(answer) ==
    /\ memory # Nothing
    /\ memory.stage = "execute"
    /\ executed' = executed + 1
    /\ outcome' = answer
    /\ Advanced([memory EXCEPT !.stage = "verify",
                               !.error = IF answer = "completed" THEN "none"
                                         ELSE @])
    /\ UNCHANGED <<saved, reports, falls>>

\* The registry has no executor that codes and uses tools: resume() raises and
\* the checkpoint stays at EXECUTE.
NoExecutorAvailable ==
    /\ memory # Nothing
    /\ memory.stage = "execute"
    /\ memory' = Nothing
    /\ UNCHANGED <<saved, flushed, executed, outcome, reports, falls, visited>>

DecideAfterVerify(state) ==
    IF state.retries >= MaxRetries
    THEN [state EXCEPT !.status = "blocked", !.stage = "human"]
    ELSE [state EXCEPT !.stage = IF state.error # "none" THEN "retry"
                                 ELSE "create_pr"]

AdvanceVerify ==
    /\ memory # Nothing
    /\ memory.stage = "verify"
    /\ Advanced(DecideAfterVerify(memory))
    /\ UNCHANGED <<saved, executed, outcome, reports, falls>>

\* Mutant: the retry is not counted.
RetriedUncounted(state) ==
    IF RetryDecision(state.error) /\ state.retries < MaxRetries
    THEN [state EXCEPT !.stage = "execute"]
    ELSE [state EXCEPT !.stage = "failed", !.status = "failed"]

\* Mutant: giving up leaves the workflow running.
RetriedStillRunning(state) ==
    IF RetryDecision(state.error) /\ state.retries < MaxRetries
    THEN [state EXCEPT !.stage = "execute", !.retries = @ + 1]
    ELSE [state EXCEPT !.stage = "human"]

Retried(state) ==
    IF RetryDecision(state.error) /\ state.retries < MaxRetries
    THEN [state EXCEPT !.stage = "execute", !.retries = @ + 1]
    ELSE [state EXCEPT !.stage = "failed", !.status = "failed"]

AdvanceRetry ==
    /\ memory # Nothing
    /\ memory.stage = "retry"
    /\ Advanced(Retried(memory))
    /\ UNCHANGED <<saved, executed, outcome, reports, falls>>

\* External: a caller stores an error in the checkpoint between two calls, as
\* the engine's tests do; nothing in src/ does.
ReportError(error) ==
    /\ memory = Nothing
    /\ reports < MaxReports
    /\ saved # Nothing \/ flushed # Nothing
    /\ Checkpoint.status = "running"
    /\ reports' = reports + 1
    /\ flushed' = [Checkpoint EXCEPT !.error = error]
    /\ UNCHANGED <<saved, memory, executed, outcome, falls, visited>>

CommitCheckpoint ==
    /\ memory = Nothing
    /\ flushed # Nothing
    /\ saved' = flushed
    /\ flushed' = Nothing
    /\ UNCHANGED <<memory, executed, outcome, reports, falls, visited>>

CrashEngine ==
    /\ falls < EngineCrashes
    /\ saved # Nothing
    /\ falls' = falls + 1
    /\ flushed' = Nothing
    /\ memory' = Nothing
    /\ UNCHANGED <<saved, executed, outcome, reports, visited>>

EngineStep ==
    \/ AdvanceAlongEdge
    \/ \E answer \in EngineAnswers : AdvanceExecute(answer)
    \/ AdvanceVerify
    \/ AdvanceRetry

EngineNext ==
    \/ Start \/ Resume
    \/ EngineStep
    \/ NoExecutorAvailable
    \/ \E error \in Errors \ {"none"} : ReportError(error)
    \/ CommitCheckpoint
    \/ CrashEngine

-----------------------------------------------------------------------------
(* Properties.                                                              *)

\* The executor, whose work cannot be undone, runs at most once per retry that
\* the graph allows, and as often again for every crash that lost checkpoints:
\* neither a repeated resume() nor an executor that is missing for a while
\* adds a run.
ExecutionsAreBounded == executed <= (MaxRetries + 1) * (falls + 1)

\* A workflow whose committed checkpoint is completed, failed or waiting for a
\* human is over: no later call runs the executor or moves it.
EndedWorkflowIsStill ==
    [][saved # Nothing /\ saved.status # "running"
         => executed' = executed /\ saved' = saved]_engineVars

\* The checkpoint walks the edges of the main engineering graph (or is given
\* up at RETRY, or falls back after a crash to a checkpoint written before).
EngineFollowsGraph == Graph!GraphSpec

\* resume() returns: whatever the executor answers, the loop ends.
ResumeReturns == memory # Nothing ~> memory = Nothing
=============================================================================
