--------------------------- MODULE WorkflowProofs ---------------------------
(***************************************************************************)
(* The two workflows.                                                      *)
(*                                                                         *)
(* The workflow engine for every number of retries, answers, crashes and   *)
(* reported errors: it walks the graph of domain/workflow.py, runs the     *)
(* executor a bounded number of times and leaves ended workflows alone.    *)
(* ExecutionsAreBounded is not inductive: it says nothing of how many runs *)
(* are still to come.  RunsCounted ties the number of runs to the place    *)
(* and the retry counter of the checkpoint; for that one has to know that  *)
(* the state in memory is the checkpoint of the session (InStep), or a     *)
(* missing executor could bring an older one back.                         *)
(*                                                                         *)
(* The LangGraph orchestrator for every executor, every report, every      *)
(* number of edits: a run opens at most one pull request, only for changes *)
(* that an execution reported, and runs the executor at most four times.   *)
(***************************************************************************)
EXTENDS EngineeringWorkflow, WorkflowEngine, TLAPS

-----------------------------------------------------------------------------
(* The engine.                                                             *)
EngineSpec == EngineInit /\ [][EngineNext]_engineVars

\* Stages that come before the executor has run for the current retry.
Early == {"intake", "understand", "build_context", "route_executor", "execute"}
RunsAt(state) == state.retries + IF state.stage \in Early THEN 0 ELSE 1

InStep == memory # Nothing => Checkpoint = memory
RunsCounted == executed <= (MaxRetries + 1) * falls + RunsAt(Checkpoint)
EndedIsPut ==
    saved # Nothing /\ saved.status # "running" => memory = Nothing /\ flushed = Nothing
Place(state) == <<state.stage, state.retries>>
PlacesRemembered ==
    /\ Place(Checkpoint) \in visited
    /\ saved # Nothing => Place(saved) \in visited

EngineInv == EngineTypeOK /\ InStep /\ RunsCounted /\ EndedIsPut /\ PlacesRemembered

-----------------------------------------------------------------------------
(* The graph.                                                               *)

\* The edges stay within the stages, lead from early to early stages and from
\* late to late ones, except the two that the engine handles itself.
LEMMA EdgesOfGraph ==
    ASSUME NEW s, NEW n \in Graph!NextStages(Graph!Edges, s)
    PROVE  /\ n \in Graph!Stage
           /\ s \in Early \ {"execute"} => n \in Early
           /\ s \notin Early /\ s # "retry" => n \notin Early
  BY DEF Graph!NextStages, Graph!Edges, Graph!Stage, Early

LEMMA EngineEdges ==
    /\ "verify" \in Graph!NextStages(Graph!Edges, "execute")
    /\ {"retry", "human", "create_pr"} \subseteq
         Graph!NextStages(Graph!Edges, "verify")
    /\ "execute" \in Graph!NextStages(Graph!Edges, "retry")
  <1>1. /\ <<"execute", "verify">> \in Graph!Edges
        /\ <<"verify", "retry">> \in Graph!Edges
        /\ <<"verify", "human">> \in Graph!Edges
        /\ <<"verify", "create_pr">> \in Graph!Edges
        /\ <<"retry", "execute">> \in Graph!Edges
    BY DEF Graph!Edges
  <1> QED
    BY <1>1 DEF Graph!NextStages

LEMMA NewStateType == NewState \in WorkflowState
  BY EngineAssumption DEF NewState, WorkflowState, WorkflowStatus, Errors

LEMMA CheckpointType == ASSUME EngineTypeOK PROVE Checkpoint \in WorkflowState
  BY NewStateType DEF EngineTypeOK, Checkpoint

-----------------------------------------------------------------------------
(* One step of the loop: from a state at some stage to its successor.       *)

\* What a stage makes of the state, and how many more times the executor ran.
Follows(next, more) ==
    /\ next \in WorkflowState
    /\ RunsAt(next) >= RunsAt(memory) + more
    /\ \/ /\ next.stage \in Graph!NextStages(Graph!Edges, memory.stage)
          /\ next.retries = IF memory.stage = "retry" THEN memory.retries + 1
                            ELSE memory.retries
       \/ memory.stage = "retry" /\ next.stage = "failed"
          /\ next.retries = memory.retries
       \/ Place(next) = Place(memory)

GraphStep == [Graph!GraphNext]_(Graph!graphVars)

LEMMA LoopKeeps ==
    ASSUME EngineInv, memory # Nothing,
           NEW next, NEW more \in {0, 1}, Follows(next, more),
           executed' = executed + more, outcome' \in ExecutionStatus \cup {Nothing},
           flushed' = next, memory' \in {Nothing, next},
           visited' = visited \cup {Place(next)},
           UNCHANGED <<saved, reports, falls>>
    PROVE  EngineInv' /\ GraphStep
  <1>1. memory \in WorkflowState /\ Checkpoint = memory
    BY DEF EngineInv, EngineTypeOK, InStep
  <1>2. next \in WorkflowState /\ next # Nothing
    BY NothingAssumption DEF Follows
  <1>3. Checkpoint' = next
    BY <1>2 DEF Checkpoint
  <1>4. next.stage \in Graph!Stage /\ next.retries \in 0..MaxRetries
    BY <1>2 DEF WorkflowState, Graph!Stage
  <1>5. EngineTypeOK'
    BY <1>2, <1>4 DEF EngineInv, EngineTypeOK, Place
  <1>6. RunsCounted'
    <2>1. /\ RunsAt(next) \in Nat /\ RunsAt(memory) \in Nat
          /\ executed \in Nat /\ (MaxRetries + 1) * falls \in Nat
      BY <1>1, <1>2, EngineAssumption
         DEF RunsAt, WorkflowState, EngineInv, EngineTypeOK
    <2> DEFINE before == (MaxRetries + 1) * falls
    <2>2. executed <= before + RunsAt(memory)
      BY <1>1 DEF EngineInv, RunsCounted
    <2>3. RunsAt(next) >= RunsAt(memory) + more
      BY DEF Follows
    <2> HIDE DEF before
    <2>4. executed + more <= before + RunsAt(next)
      BY <2>1, <2>2, <2>3 DEF before
    <2>5. RunsCounted' <=> executed' <= (MaxRetries + 1) * falls' + RunsAt(next)
      BY <1>3 DEF RunsCounted, RunsAt
    <2> QED
      BY <2>4, <2>5 DEF before
  <1>7. EndedIsPut'
    BY DEF EngineInv, EndedIsPut
  <1>8. InStep' /\ PlacesRemembered'
    BY <1>3 DEF InStep, EngineInv, PlacesRemembered, Place
  <1>9. GraphStep
    <2>1. Place(memory) \in visited
      BY <1>1 DEF EngineInv, PlacesRemembered
    <2>2. CASE Place(next) = Place(memory)
      BY <1>1, <1>3, <2>1, <2>2 DEF GraphStep, Graph!graphVars, Place
    <2>3. CASE /\ memory.stage = "retry" /\ next.stage = "failed"
               /\ next.retries = memory.retries
      BY <1>1, <1>3, <2>3
         DEF GraphStep, Graph!GraphNext, Graph!GiveUp, Place
    <2>4. CASE /\ next.stage \in Graph!NextStages(Graph!Edges, memory.stage)
               /\ next.retries = IF memory.stage = "retry"
                                 THEN memory.retries + 1 ELSE memory.retries
      BY <1>1, <1>3, <1>4, <2>4, EngineAssumption
         DEF GraphStep, Graph!GraphNext, Graph!Walk, Place
    <2> QED
      BY <2>2, <2>3, <2>4 DEF Follows
  <1> QED
    BY <1>5, <1>6, <1>7, <1>8, <1>9 DEF EngineInv

LEMMA AlongEdgeKeeps ==
    ASSUME EngineInv, AdvanceAlongEdge PROVE EngineInv' /\ GraphStep
  <1>1. /\ memory # Nothing /\ memory \in WorkflowState
        /\ memory.stage \notin {"execute", "verify", "retry"}
    BY DEF EngineInv, EngineTypeOK, AdvanceAlongEdge
  <1>2. executed' = executed + 0 /\ outcome' \in ExecutionStatus \cup {Nothing}
    BY DEF AdvanceAlongEdge, EngineInv, EngineTypeOK
  <1>3. CASE Graph!NextStages(Graph!Edges, memory.stage) = {}
    <2> DEFINE next == [memory EXCEPT !.status = "completed"]
    <2>1. Follows(next, 0)
      BY <1>1 DEF Follows, WorkflowState, WorkflowStatus, RunsAt, Place
    <2>2. /\ flushed' = next /\ memory' \in {Nothing, next}
          /\ visited' = visited \cup {Place(next)}
          /\ UNCHANGED <<saved, reports, falls>>
      BY <1>1, <1>3 DEF AdvanceAlongEdge, SaveCheckpoint, Place
    <2> QED
      BY <1>1, <1>2, <2>1, <2>2, LoopKeeps
  <1>4. CASE Graph!NextStages(Graph!Edges, memory.stage) # {}
    <2>1. PICK n \in Graph!NextStages(Graph!Edges, memory.stage) :
            Advanced([memory EXCEPT !.stage = n])
      BY <1>1, <1>4 DEF AdvanceAlongEdge
    <2> DEFINE next == [memory EXCEPT !.stage = n, !.status =
                          IF n = "complete" THEN "completed"
                          ELSE IF n = "failed" THEN "failed" ELSE @]
    <2>2. n \in Graph!Stage /\ (memory.stage \in Early => n \in Early)
            /\ (memory.stage \notin Early => n \notin Early)
      BY <1>1, EdgesOfGraph
    <2>3. Follows(next, 0)
      <3>1. next \in WorkflowState
        BY <1>1, <2>2 DEF WorkflowState, WorkflowStatus, Graph!Stage
      <3>2. RunsAt(next) >= RunsAt(memory) + 0
        BY <1>1, <2>2 DEF RunsAt, WorkflowState
      <3> QED
        BY <1>1, <3>1, <3>2 DEF Follows, WorkflowState
    <2>4. /\ flushed' = next /\ memory' \in {Nothing, next}
          /\ visited' = visited \cup {Place(next)}
          /\ UNCHANGED <<saved, reports, falls>>
      BY <1>1, <2>1 DEF AdvanceAlongEdge, Advanced, SaveCheckpoint, Place,
                        WorkflowState
    <2> QED
      BY <1>1, <1>2, <2>3, <2>4, LoopKeeps
  <1> QED
    BY <1>3, <1>4

LEMMA ExecuteKeeps ==
    ASSUME EngineInv, NEW answer \in EngineAnswers, AdvanceExecute(answer)
    PROVE  EngineInv' /\ GraphStep
  <1>1. memory # Nothing /\ memory \in WorkflowState /\ memory.stage = "execute"
    BY DEF EngineInv, EngineTypeOK, AdvanceExecute
  <1> DEFINE next == [memory EXCEPT !.stage = "verify",
                        !.error = IF answer = "completed" THEN "none" ELSE @]
  <1>2. Follows(next, 1)
    <2>1. next \in WorkflowState /\ next.retries = memory.retries
      BY <1>1 DEF WorkflowState, Errors
    <2>2. RunsAt(next) >= RunsAt(memory) + 1
      BY <1>1, <2>1 DEF RunsAt, Early, WorkflowState
    <2> QED
      BY <1>1, <2>1, <2>2, EngineEdges DEF Follows, WorkflowState
  <1>3. /\ flushed' = next /\ memory' \in {Nothing, next}
        /\ visited' = visited \cup {Place(next)}
        /\ executed' = executed + 1 /\ outcome' \in ExecutionStatus \cup {Nothing}
        /\ UNCHANGED <<saved, reports, falls>>
    BY <1>1, EngineAssumption
       DEF AdvanceExecute, Advanced, SaveCheckpoint, Place, WorkflowState
  <1> QED
    BY <1>1, <1>2, <1>3, LoopKeeps

LEMMA VerifyKeeps ==
    ASSUME EngineInv, AdvanceVerify PROVE EngineInv' /\ GraphStep
  <1>1. memory # Nothing /\ memory \in WorkflowState /\ memory.stage = "verify"
    BY DEF EngineInv, EngineTypeOK, AdvanceVerify
  <1> DEFINE next == DecideAfterVerify(memory)
  <1>2. /\ next \in WorkflowState /\ next.retries = memory.retries
        /\ next.stage \in {"human", "retry", "create_pr"}
    BY <1>1 DEF DecideAfterVerify, WorkflowState, WorkflowStatus
  <1>3. Follows(next, 0)
    <2>1. RunsAt(next) >= RunsAt(memory) + 0
      BY <1>1, <1>2 DEF RunsAt, Early, WorkflowState
    <2> QED
      BY <1>1, <1>2, <2>1, EngineEdges DEF Follows
  <1>4. /\ flushed' = next /\ memory' \in {Nothing, next}
        /\ visited' = visited \cup {Place(next)}
    <2>1. next = [next EXCEPT !.status = CASE next.stage = "complete" -> "completed"
                                           [] next.stage = "failed" -> "failed"
                                           [] OTHER -> next.status]
      BY <1>2 DEF WorkflowState
    <2> HIDE DEF next
    <2> QED
      BY <2>1 DEF AdvanceVerify, Advanced, SaveCheckpoint, Place, next
  <1>5. /\ executed' = executed + 0 /\ outcome' \in ExecutionStatus \cup {Nothing}
        /\ UNCHANGED <<saved, reports, falls>>
    BY DEF AdvanceVerify, EngineInv, EngineTypeOK
  <1> QED
    BY <1>1, <1>3, <1>4, <1>5, LoopKeeps

LEMMA RetryKeeps ==
    ASSUME EngineInv, AdvanceRetry PROVE EngineInv' /\ GraphStep
  <1>1. memory # Nothing /\ memory \in WorkflowState /\ memory.stage = "retry"
    BY DEF EngineInv, EngineTypeOK, AdvanceRetry
  <1> DEFINE next == Retried(memory)
  <1>2. /\ next \in WorkflowState
        /\ \/ next.stage = "execute" /\ next.retries = memory.retries + 1
           \/ next.stage = "failed" /\ next.status = "failed"
              /\ next.retries = memory.retries
    <2>1. MaxRetries \in Nat
      BY EngineAssumption
    <2>2. \/ /\ next = [memory EXCEPT !.stage = "execute", !.retries = @ + 1]
             /\ memory.retries < MaxRetries
          \/ next = [memory EXCEPT !.stage = "failed", !.status = "failed"]
      BY DEF Retried, RetryDecision
    <2> HIDE DEF next
    <2>3. CASE next = [memory EXCEPT !.stage = "execute", !.retries = @ + 1]
                 /\ memory.retries < MaxRetries
      <3>1. /\ next.stage = "execute" /\ next.retries = memory.retries + 1
            /\ next.status = memory.status /\ next.error = memory.error
            /\ next = [stage |-> next.stage, status |-> next.status,
                       retries |-> next.retries, error |-> next.error]
        BY <1>1, <2>3 DEF WorkflowState
      <3>2. memory.retries + 1 \in 0..MaxRetries
        BY <1>1, <2>1, <2>3 DEF WorkflowState
      <3> QED
        BY <1>1, <3>1, <3>2 DEF WorkflowState
    <2>4. CASE next = [memory EXCEPT !.stage = "failed", !.status = "failed"]
      BY <1>1, <2>4 DEF WorkflowState, WorkflowStatus
    <2> QED
      BY <2>2, <2>3, <2>4
  <1>3. Follows(next, 0)
    <2>1. RunsAt(next) >= RunsAt(memory) + 0
      BY <1>1, <1>2 DEF RunsAt, Early, WorkflowState
    <2> QED
      BY <1>1, <1>2, <2>1, EngineEdges DEF Follows
  <1>4. /\ flushed' = next /\ memory' \in {Nothing, next}
        /\ visited' = visited \cup {Place(next)}
    <2>1. next = [next EXCEPT !.status = CASE next.stage = "complete" -> "completed"
                                           [] next.stage = "failed" -> "failed"
                                           [] OTHER -> next.status]
      BY <1>2 DEF WorkflowState
    <2> HIDE DEF next
    <2> QED
      BY <2>1 DEF AdvanceRetry, Advanced, SaveCheckpoint, Place, next
  <1>5. /\ executed' = executed + 0 /\ outcome' \in ExecutionStatus \cup {Nothing}
        /\ UNCHANGED <<saved, reports, falls>>
    BY DEF AdvanceRetry, EngineInv, EngineTypeOK
  <1> QED
    BY <1>1, <1>3, <1>4, <1>5, LoopKeeps

-----------------------------------------------------------------------------
(* The steps between two loops.                                             *)

LEMMA StartKeeps == ASSUME EngineInv, Start PROVE EngineInv' /\ GraphStep
  <1>1. /\ Checkpoint = NewState /\ saved' = Nothing /\ memory' = memory
        /\ flushed' = NewState /\ UNCHANGED <<executed, outcome, reports, falls>>
    BY DEF Start, SaveCheckpoint, Checkpoint
  <1>2. NewState \in WorkflowState /\ NewState # Nothing
    BY NewStateType, NothingAssumption
  <1>3. Checkpoint' = NewState
    BY <1>1, <1>2 DEF Checkpoint
  <1>4. visited' = visited
    BY <1>1 DEF Start, SaveCheckpoint, EngineInv, PlacesRemembered, Place
  <1>5. EngineTypeOK' /\ InStep'
    BY <1>1, <1>2, <1>3, <1>4 DEF EngineInv, EngineTypeOK, InStep
  <1>6. RunsCounted' /\ EndedIsPut' /\ PlacesRemembered'
    BY <1>1, <1>3, <1>4 DEF EngineInv, RunsCounted, RunsAt, EndedIsPut, PlacesRemembered,
                            Place
  <1>7. GraphStep
    BY <1>1, <1>3, <1>4 DEF GraphStep, Graph!graphVars
  <1> QED
    BY <1>5, <1>6, <1>7 DEF EngineInv

LEMMA ResumeKeeps == ASSUME EngineInv, Resume PROVE EngineInv' /\ GraphStep
  <1>1. Checkpoint' = Checkpoint /\ Checkpoint \in WorkflowState
    BY CheckpointType DEF Resume, Checkpoint, EngineInv
  <1>2. EngineTypeOK' /\ InStep'
    BY <1>1 DEF EngineInv, EngineTypeOK, InStep, Resume
  <1>3. EndedIsPut'
    BY DEF EngineInv, EndedIsPut, Resume, Checkpoint
  <1>4. RunsCounted' /\ PlacesRemembered'
    BY <1>1 DEF EngineInv, RunsCounted, RunsAt, PlacesRemembered, Place, Resume
  <1>5. GraphStep
    BY <1>1 DEF GraphStep, Graph!graphVars, Resume
  <1> QED
    BY <1>2, <1>3, <1>4, <1>5 DEF EngineInv

LEMMA NoExecutorKeeps ==
    ASSUME EngineInv, NoExecutorAvailable PROVE EngineInv' /\ GraphStep
  <1>1. Checkpoint' = Checkpoint
    BY DEF NoExecutorAvailable, Checkpoint
  <1> QED
    BY <1>1 DEF NoExecutorAvailable, EngineInv, EngineTypeOK, InStep, RunsCounted,
                RunsAt, EndedIsPut, PlacesRemembered, Place, GraphStep, Graph!graphVars

LEMMA ReportKeeps ==
    ASSUME EngineInv, NEW error \in Errors \ {"none"}, ReportError(error)
    PROVE  EngineInv' /\ GraphStep
  <1> DEFINE state == [Checkpoint EXCEPT !.error = error]
  <1>1. Checkpoint \in WorkflowState
    BY CheckpointType DEF EngineInv
  <1>2. /\ state \in WorkflowState /\ state # Nothing
        /\ state.stage = Checkpoint.stage /\ state.retries = Checkpoint.retries
    BY <1>1, NothingAssumption DEF WorkflowState
  <1>3. flushed' = state /\ Checkpoint' = state
    BY <1>2 DEF ReportError, Checkpoint
  <1>4. EngineTypeOK' /\ InStep'
    BY <1>2, <1>3, EngineAssumption
       DEF EngineInv, EngineTypeOK, InStep, ReportError
  <1>5. EndedIsPut'
    BY <1>3 DEF EngineInv, EndedIsPut, ReportError, Checkpoint
  <1>6. RunsCounted' /\ PlacesRemembered'
    BY <1>2, <1>3 DEF EngineInv, RunsCounted, RunsAt, PlacesRemembered, Place, ReportError
  <1>7. GraphStep
    BY <1>2, <1>3 DEF GraphStep, Graph!graphVars, ReportError
  <1> QED
    BY <1>4, <1>5, <1>6, <1>7 DEF EngineInv

LEMMA EngineCommitKeeps ==
    ASSUME EngineInv, CommitCheckpoint PROVE EngineInv' /\ GraphStep
  <1>1. Checkpoint' = Checkpoint /\ saved' = Checkpoint
    BY DEF CommitCheckpoint, Checkpoint
  <1> QED
    BY <1>1 DEF CommitCheckpoint, EngineInv, EngineTypeOK, InStep, RunsCounted,
                RunsAt, EndedIsPut, PlacesRemembered, Place, GraphStep, Graph!graphVars

\* A crash pays for all the runs that the lost checkpoints may count again.
LEMMA CrashKeeps ==
    ASSUME EngineInv, CrashEngine PROVE EngineInv' /\ GraphStep
  <1>1. /\ Checkpoint' = saved /\ saved \in WorkflowState
        /\ memory' = Nothing /\ flushed' = Nothing /\ falls' = falls + 1
        /\ UNCHANGED <<saved, executed, outcome, reports, visited>>
    BY DEF CrashEngine, Checkpoint, EngineInv, EngineTypeOK
  <1>2. EngineTypeOK' /\ InStep' /\ EndedIsPut' /\ PlacesRemembered'
    BY <1>1, EngineAssumption
       DEF CrashEngine, EngineInv, EngineTypeOK, InStep, EndedIsPut, PlacesRemembered, Place
  <1>3. RunsCounted'
    <2>1. Checkpoint \in WorkflowState
      BY CheckpointType DEF EngineInv
    <2>2. /\ MaxRetries \in Nat /\ falls \in Nat /\ executed \in Nat
          /\ RunsAt(Checkpoint) \in 0..(MaxRetries + 1) /\ RunsAt(saved) \in Nat
      BY <1>1, <2>1, EngineAssumption
         DEF RunsAt, WorkflowState, EngineInv, EngineTypeOK
    <2>3. (MaxRetries + 1) * (falls + 1) = (MaxRetries + 1) * falls + (MaxRetries + 1)
            /\ (MaxRetries + 1) * falls \in Nat
      BY <2>2
    <2>4. executed <= (MaxRetries + 1) * falls + RunsAt(Checkpoint)
      BY DEF EngineInv, RunsCounted
    <2>5. executed <= (MaxRetries + 1) * (falls + 1) + RunsAt(saved)
      BY <2>2, <2>3, <2>4
    <2> QED
      BY <1>1, <2>5 DEF RunsCounted, RunsAt
  <1>4. GraphStep
    BY <1>1 DEF GraphStep, Graph!GraphNext, Graph!FallBack, CrashEngine, EngineInv,
                PlacesRemembered, Place
  <1> QED
    BY <1>2, <1>3, <1>4 DEF EngineInv

LEMMA StutterKeeps ==
    ASSUME EngineInv, UNCHANGED engineVars PROVE EngineInv' /\ GraphStep
  BY DEF engineVars, EngineInv, EngineTypeOK, InStep, RunsCounted, RunsAt,
         EndedIsPut, PlacesRemembered, Place, GraphStep, Graph!graphVars, Checkpoint

LEMMA EngineKeeps ==
    ASSUME EngineInv, [EngineNext]_engineVars PROVE EngineInv' /\ GraphStep
  BY AlongEdgeKeeps, ExecuteKeeps, VerifyKeeps, RetryKeeps, StartKeeps, ResumeKeeps,
     NoExecutorKeeps, ReportKeeps, EngineCommitKeeps, CrashKeeps, StutterKeeps
     DEF EngineNext, EngineStep

LEMMA EngineStarts ==
    ASSUME EngineInit PROVE EngineInv /\ Graph!GraphInit
  <1>1. Checkpoint = NewState
    BY DEF EngineInit, Checkpoint
  <1>2. EngineTypeOK
    BY EngineAssumption DEF EngineInit, EngineTypeOK, Graph!Stage
  <1>3. InStep /\ EndedIsPut /\ PlacesRemembered
    BY <1>1 DEF EngineInit, InStep, EndedIsPut, PlacesRemembered, Place, NewState
  <1>4. RunsCounted
    <2>1. MaxRetries + 1 \in Nat /\ (MaxRetries + 1) * 0 = 0
      BY EngineAssumption
    <2>2. RunsAt(NewState) = 0
      BY DEF RunsAt, NewState, Early
    <2> QED
      BY <1>1, <2>1, <2>2 DEF EngineInit, RunsCounted
  <1>5. Graph!GraphInit
    BY <1>1 DEF Graph!GraphInit, EngineInit, NewState
  <1> QED
    BY <1>2, <1>3, <1>4, <1>5 DEF EngineInv

-----------------------------------------------------------------------------
(* The theorems.                                                            *)

\* The inductive invariant of resume(), save_checkpoint() and crashes.
THEOREM EngineInvariant == EngineSpec => []EngineInv
  BY EngineStarts, EngineKeeps, PTL DEF EngineSpec

\* The executor runs at most MaxRetries + 1 times, and as often again for
\* every crash that lost checkpoints (WorkflowEngineService.resume).
THEOREM ExecutionsBounded == EngineSpec => []ExecutionsAreBounded
  <1>1. EngineInv => ExecutionsAreBounded
    <2> SUFFICES ASSUME EngineInv PROVE ExecutionsAreBounded
      OBVIOUS
    <2>2. Checkpoint \in WorkflowState
      BY CheckpointType DEF EngineInv
    <2>3. /\ MaxRetries \in Nat /\ falls \in Nat /\ executed \in Nat
          /\ RunsAt(Checkpoint) \in 0..(MaxRetries + 1)
      BY <2>2, EngineAssumption DEF RunsAt, WorkflowState, EngineInv, EngineTypeOK
    <2>4. (MaxRetries + 1) * (falls + 1) = (MaxRetries + 1) * falls + (MaxRetries + 1)
            /\ (MaxRetries + 1) * falls \in Nat
      BY <2>3
    <2>5. executed <= (MaxRetries + 1) * falls + RunsAt(Checkpoint)
      BY DEF EngineInv, RunsCounted
    <2> QED
      BY <2>3, <2>4, <2>5 DEF ExecutionsAreBounded
  <1> QED
    BY <1>1, EngineInvariant, PTL

\* A workflow whose committed checkpoint has ended is never moved again, and
\* the executor not run for it (the loop condition of resume()).
THEOREM EndedIsStill == EngineSpec => EndedWorkflowIsStill
  <1>1. ASSUME EngineInv, [EngineNext]_engineVars, saved # Nothing,
               saved.status # "running"
        PROVE  executed' = executed /\ saved' = saved
    BY <1>1 DEF EngineInv, EndedIsPut, EngineNext, EngineStep, engineVars, Start,
       Resume, AdvanceAlongEdge, AdvanceExecute, AdvanceVerify, AdvanceRetry,
       NoExecutorAvailable, ReportError, CommitCheckpoint, CrashEngine
  <1>2. EngineInv /\ [EngineNext]_engineVars =>
          [saved # Nothing /\ saved.status # "running"
             => executed' = executed /\ saved' = saved]_engineVars
    BY <1>1
  <1> QED
    BY <1>2, EngineInvariant, PTL DEF EngineSpec, EndedWorkflowIsStill

\* The engine implements the main engineering graph: each checkpoint is a
\* node, each step an edge, a retry given up, or a return to a checkpoint.
THEOREM EngineImplementsGraph == EngineSpec => EngineFollowsGraph
  <1>1. EngineInit => Graph!GraphInit
    BY EngineStarts
  <1>2. EngineInv /\ [EngineNext]_engineVars => [Graph!GraphNext]_(Graph!graphVars)
    BY EngineKeeps DEF GraphStep
  <1> QED
    BY <1>1, <1>2, EngineInvariant, PTL
       DEF EngineSpec, EngineFollowsGraph, Graph!GraphSpec

-----------------------------------------------------------------------------
(* The orchestrator.                                                       *)

OrchSpec == OrchInit /\ [][OrchNext]_orchVars

Lost == {"failed", "blocked", "cancelled"}

\* Some execution of the run succeeded and reported files.
Changed == \E o \in outcomes : o.status \notin Lost /\ o.files # {}

\* The nodes that come once, before the loop of execution and verification.
Preparing == {"load_work_item", "understand", "analyze", "create_observation",
              "build_context"}

\* The files of the state were reported, and verification lets no run pass
\* without files.
ChangeInv ==
    /\ orch.files # {} => Changed
    /\ nodes \cap {"pr_readiness", "create_pr"} # {} => orch.files # {}
    /\ pulls > 0 => Changed

\* A pull request is followed by publishing only, and no run begins again.
PullInv ==
    /\ pulls > 0 => nodes \subseteq {"publish_observation", "update_brain"}
    /\ orch.stage = "intake" => pulls = 0 /\ ran = 0

\* Every execution but the first was paid for with a retry.
CountInv ==
    /\ ran <= orch.retries + 1
    /\ nodes = {"execute"} => ran <= orch.retries
    /\ \A n \in Preparing : nodes = {n} => ran = 0

OrchInv == OrchTypeOK /\ ChangeInv /\ PullInv /\ CountInv

-----------------------------------------------------------------------------
(* What the operators of the graph and of the gates do.                     *)

LEMMA NextNodesType == ASSUME NEW n \in Node \ {"verify", "retry"}
                       PROVE  NextNodes(n) \subseteq Node
  BY DEF NextNodes, Node

\* An empty change set fails (VerificationEngine._aggregate_verdict).
LEMMA PassHasFiles ==
    ASSUME NEW x, NEW criteria, NEW files, NEW expected,
           Verify(x, criteria, files, expected) = "pass"
    PROVE  files # {}
  BY DEF Verify, AggregateVerdict

LEMMA AnswerStatus ==
    ASSUME NEW a \in OrchAnswers, ~Raises(a) PROVE StatusFrom(a) \in ExecutionStatus
  BY OrchAssumption DEF Answers, Raises, StatusFrom, ExecutionStatus

LEMMA OrchInitial == ASSUME OrchInit PROVE OrchInv
  <1>1. OrchTypeOK
    <2>1. InitialState \in EngineeringState
      BY DEF InitialState, EngineeringState
    <2> QED
      <3>1. 0 \in 0..MaxEdits /\ 0 \in 0..MaxCounted
        BY OrchAssumption DEF MaxCounted
      <3>2. capsules \in BOOLEAN /\ notices \in BOOLEAN /\ raised \in BOOLEAN
        BY Zenon DEF OrchInit
      <3>3. nodes \subseteq Node /\ outcomes \subseteq Outcome /\ pulls \in 0..1
        BY DEF OrchInit
      <3> QED
        BY <2>1, <3>1, <3>2, <3>3, Zenon DEF OrchInit, OrchTypeOK
  <1> QED
    BY <1>1 DEF OrchInit, OrchInv, ChangeInv, PullInv, CountInv, InitialState,
       Preparing

-----------------------------------------------------------------------------
(* The steps, by the part of the graph they belong to.                      *)

LEMMA PrepareStep ==
    ASSUME OrchInv,
           Invoke \/ LoadWorkItem \/ Understand \/ Analyze \/ CreateObservation
             \/ BuildContext
    PROVE  OrchInv'
  <1>1. CASE Invoke
    <2>1. OrchTypeOK'
      BY <1>1 DEF Invoke, OrchInv, OrchTypeOK, Node
    <2> QED
      BY <1>1, <2>1 DEF Invoke, OrchInv, OrchTypeOK, ChangeInv, PullInv, CountInv,
         Changed, InitialState, Preparing
  <1>2. ASSUME NEW n \in Preparing, NEW state \in EngineeringState,
               RunAlone(n, state), state.files = orch.files,
               state.retries = orch.retries, state.stage # "intake",
               UNCHANGED <<item, ran, outcomes, pulls, raised, edits>>,
               capsules' \in BOOLEAN, notices' \in BOOLEAN
        PROVE  OrchInv'
    <2>1. /\ nodes = {n} /\ orch' = state /\ nodes' = NextNodes(n)
          /\ nodes' \in {{"understand"}, {"analyze"}, {"create_observation"},
                         {"build_context"}, {"execute"}}
      BY <1>2 DEF RunAlone, NextNodes, Preparing
    <2>2. ran = 0 /\ pulls = 0
      BY <1>2, <2>1 DEF OrchInv, OrchTypeOK, CountInv, PullInv, Preparing
    <2>3. OrchTypeOK'
      BY <1>2, <2>1 DEF OrchInv, OrchTypeOK, Node
    <2>4. ChangeInv'
      BY <1>2, <2>1 DEF OrchInv, ChangeInv, Changed
    <2>5. PullInv' /\ CountInv'
      BY <1>2, <2>1, <2>2 DEF OrchInv, OrchTypeOK, PullInv, CountInv,
         EngineeringState
    <2> QED
      BY <2>3, <2>4, <2>5 DEF OrchInv
  <1>3. orch \in EngineeringState
    BY DEF OrchInv, OrchTypeOK
  <1>4. CASE LoadWorkItem
    <2> DEFINE state == [orch EXCEPT !.stage = IF item.exists THEN "understand"
                                               ELSE "failed",
                                     !.project = item.exists]
    <2>1. /\ state \in EngineeringState /\ state.files = orch.files
          /\ state.retries = orch.retries /\ state.stage # "intake"
      BY <1>3 DEF EngineeringState, Node, OrchInv, OrchTypeOK, WorkItemRow
    <2> QED
      BY <1>2, <1>4, <2>1
         DEF LoadWorkItem, surroundings, Preparing, OrchInv, OrchTypeOK
  <1>5. CASE Understand
    <2> DEFINE state == [orch EXCEPT !.stage = "analyze"]
    <2>1. /\ state \in EngineeringState /\ state.files = orch.files
          /\ state.retries = orch.retries /\ state.stage # "intake"
      BY <1>3 DEF EngineeringState, Node
    <2> QED
      BY <1>2, <1>5, <2>1
         DEF Understand, surroundings, Preparing, OrchInv, OrchTypeOK
  <1>6. CASE Analyze
    <2> DEFINE seen == CASE ~item.exists -> "analyzed"
                         [] item.exists /\ item.implemented -> "implemented"
                         [] OTHER -> "open"
               state == [orch EXCEPT !.stage = "build_context",
                                     !.implementation = seen]
    <2>1. seen \in {"analyzed", "open", "implemented"}
      OBVIOUS
    <2>2. /\ state \in EngineeringState /\ state.files = orch.files
          /\ state.retries = orch.retries /\ state.stage # "intake"
      <3> HIDE DEF seen
      <3> QED
        BY <1>3, <2>1 DEF EngineeringState, Node
    <2>3. RunAlone("analyze", state) /\ UNCHANGED surroundings
      BY <1>6 DEF Analyze
    <2> HIDE DEF state
    <2> QED
      BY <1>2, <2>2, <2>3 DEF surroundings, Preparing, OrchInv, OrchTypeOK
  <1>7. CASE CreateObservation
    <2> DEFINE state == [orch EXCEPT !.stage = "build_context"]
    <2>1. /\ state \in EngineeringState /\ state.files = orch.files
          /\ state.retries = orch.retries /\ state.stage # "intake"
      BY <1>3 DEF EngineeringState, Node
    <2>2. notices' \in BOOLEAN
      BY <1>3, <1>7
         DEF CreateObservation, OrchInv, OrchTypeOK, EngineeringState
    <2> QED
      BY <1>2, <1>7, <2>1, <2>2
         DEF CreateObservation, Preparing, OrchInv, OrchTypeOK
  <1>8. CASE BuildContext
    <2> DEFINE state == [orch EXCEPT !.stage = "execute"]
    <2>1. /\ state \in EngineeringState /\ state.files = orch.files
          /\ state.retries = orch.retries /\ state.stage # "intake"
      BY <1>3 DEF EngineeringState, Node
    <2> QED
      BY <1>2, <1>8, <2>1 DEF BuildContext, Preparing, OrchInv, OrchTypeOK
  <1> QED
    BY <1>1, <1>4, <1>5, <1>6, <1>7, <1>8

LEMMA ExecuteStep ==
    ASSUME OrchInv, NEW answer \in OrchAnswers, NEW files \in OrchReports,
           Execute(answer, files)
    PROVE  OrchInv'
  <1> DEFINE status == StatusFrom(answer)
             new == [status |-> status, files |-> files]
  <1>1. status \in ExecutionStatus /\ files \in SUBSET Files
    BY AnswerStatus, OrchAssumption DEF Execute
  <1>2. /\ nodes = {"execute"} /\ nodes' = {"verify"}
        /\ orch' = IF status \in Lost THEN [orch EXCEPT !.stage = "retry"]
                   ELSE [orch EXCEPT !.stage = "verify", !.files = files]
        /\ ran' = IF ran < MaxCounted THEN ran + 1 ELSE ran
        /\ outcomes' = outcomes \cup {new}
        /\ UNCHANGED <<item, capsules, notices, pulls, raised, edits>>
    BY DEF Execute, RunAlone, NextNodes, Lost
  <1> HIDE DEF status
  <1>3. orch \in EngineeringState /\ ran \in 0..MaxCounted
    BY DEF OrchInv, OrchTypeOK
  <1>4. /\ orch' \in EngineeringState /\ orch'.retries = orch.retries
        /\ orch'.stage # "intake"
        /\ orch'.files = IF status \in Lost THEN orch.files ELSE files
    BY <1>1, <1>2, <1>3 DEF EngineeringState, Node
  <1>5. OrchTypeOK'
    <2>1. new \in Outcome
      BY <1>1 DEF Outcome
    <2> QED
      BY <1>2, <1>3, <1>4, <2>1 DEF OrchInv, OrchTypeOK, Node, MaxCounted
  <1>6. pulls = 0
    BY <1>2 DEF OrchInv, OrchTypeOK, PullInv
  <1>7. ChangeInv'
    <2>1. status \notin Lost /\ files # {} => Changed'
      <3>1. new \in outcomes' /\ new.status = status /\ new.files = files
        BY <1>2
      <3> QED
        BY <3>1 DEF Changed
    <2>2. Changed => Changed'
      BY <1>2 DEF Changed
    <2> QED
      BY <1>2, <1>4, <1>6, <2>1, <2>2 DEF OrchInv, ChangeInv
  <1>8. PullInv' /\ CountInv'
    BY <1>2, <1>3, <1>4, <1>6
       DEF OrchInv, PullInv, CountInv, Preparing, MaxCounted, EngineeringState
  <1> QED
    BY <1>5, <1>7, <1>8 DEF OrchInv

\* The files are what verification let pass.
LEMMA VerifyStep == ASSUME OrchInv, VerifyStage PROVE OrchInv'
  <1> DEFINE next == IF OrchVerdict = "pass" THEN "pr_readiness"
                     ELSE IF orch.retries >= 3 THEN "human" ELSE "retry"
             state == [orch EXCEPT !.stage = next, !.waiting = @ \/ next = "human"]
  <1>1. /\ nodes = {"verify"} /\ nodes' = {next} /\ orch' = state
        /\ UNCHANGED <<item, capsules, notices, ran, outcomes, pulls, raised, edits>>
    BY DEF VerifyStage, surroundings
  <1>2. /\ next \in {"pr_readiness", "human", "retry"}
        /\ next = "pr_readiness" => orch.files # {}
    BY PassHasFiles DEF OrchVerdict
  <1> HIDE DEF next
  <1>3. orch \in EngineeringState
    BY DEF OrchInv, OrchTypeOK
  <1>4. /\ state \in EngineeringState /\ state.files = orch.files
        /\ state.retries = orch.retries /\ state.stage # "intake"
    BY <1>2, <1>3 DEF EngineeringState, Node
  <1> HIDE DEF state
  <1>5. pulls = 0
    BY <1>1 DEF OrchInv, OrchTypeOK, PullInv
  <1>6. OrchTypeOK'
    BY <1>1, <1>2, <1>4 DEF OrchInv, OrchTypeOK, Node
  <1>7. ChangeInv'
    BY <1>1, <1>2, <1>4, <1>5 DEF OrchInv, ChangeInv, Changed
  <1>8. PullInv' /\ CountInv'
    BY <1>1, <1>2, <1>4, <1>5 DEF OrchInv, PullInv, CountInv, Preparing
  <1> QED
    BY <1>6, <1>7, <1>8 DEF OrchInv

LEMMA LoopStep == ASSUME OrchInv, Retry \/ Human \/ PRReadiness PROVE OrchInv'
  <1>1. orch \in EngineeringState /\ ran \in 0..MaxCounted
    BY DEF OrchInv, OrchTypeOK
  <1>2. CASE Retry
    <2>1. /\ nodes = {"retry"} /\ orch' = RetryState
          /\ nodes' = {IF orch'.waiting THEN "human" ELSE "execute"}
          /\ UNCHANGED <<item, capsules, notices, ran, outcomes, pulls, raised,
                        edits>>
      BY <1>2 DEF Retry, surroundings
    <2>2. /\ orch' \in EngineeringState /\ orch'.files = orch.files
          /\ orch'.stage # "intake"
          /\ orch'.retries \in {orch.retries, orch.retries + 1}
          /\ ~orch'.waiting => orch'.retries = orch.retries + 1
      <3>1. CASE orch.retries >= 3
        <4>1. orch' = [orch EXCEPT !.stage = "human", !.waiting = TRUE]
          BY <2>1, <3>1 DEF RetryState
        <4> QED
          BY <1>1, <4>1 DEF EngineeringState, Node
      <3>2. CASE ~(orch.retries >= 3)
        <4>1. orch' = [orch EXCEPT !.stage = "execute", !.retries = @ + 1]
          BY <2>1, <3>2 DEF RetryState
        <4>2. orch.retries \in 0..3 /\ orch.retries + 1 \in 0..3
          BY <1>1, <3>2 DEF EngineeringState
        <4> DEFINE n == orch.retries + 1
        <4>3. orch' = [orch EXCEPT !.stage = "execute", !.retries = n]
          BY <1>1, <4>1 DEF EngineeringState
        <4> HIDE DEF n
        <4>4. n \in 0..3
          BY <4>2 DEF n
        <4>5. /\ orch' \in EngineeringState /\ orch'.files = orch.files
              /\ orch'.stage = "execute" /\ orch'.retries = n
          BY <1>1, <4>3, <4>4 DEF EngineeringState, Node
        <4> QED
          BY <4>5 DEF n
      <3> QED
        BY <3>1, <3>2
    <2>3. OrchTypeOK'
      BY <2>1, <2>2 DEF OrchInv, OrchTypeOK, Node
    <2>4. pulls = 0
      BY <2>1 DEF OrchInv, OrchTypeOK, PullInv
    <2>5. ChangeInv'
      BY <2>1, <2>2, <2>4 DEF OrchInv, ChangeInv, Changed
    <2>6. PullInv' /\ CountInv'
      BY <1>1, <2>1, <2>2, <2>4
         DEF OrchInv, PullInv, CountInv, Preparing, EngineeringState, MaxCounted
    <2> QED
      BY <2>3, <2>5, <2>6 DEF OrchInv
  <1>3. CASE Human
    <2>1. /\ nodes = {"human"} /\ nodes' = {}
          /\ orch' = [orch EXCEPT !.stage = "human", !.waiting = TRUE]
          /\ UNCHANGED <<item, capsules, notices, ran, outcomes, pulls, raised,
                        edits>>
      BY <1>3 DEF Human, RunAlone, NextNodes, surroundings
    <2>2. /\ orch' \in EngineeringState /\ orch'.files = orch.files
          /\ orch'.stage # "intake" /\ orch'.retries = orch.retries
      BY <1>1, <2>1 DEF EngineeringState, Node
    <2>3. OrchTypeOK'
      BY <2>1, <2>2 DEF OrchInv, OrchTypeOK, Node
    <2>4. ChangeInv' /\ PullInv' /\ CountInv'
      BY <2>1, <2>2 DEF OrchInv, ChangeInv, Changed, PullInv, CountInv
    <2> QED
      BY <2>3, <2>4 DEF OrchInv
  <1>4. CASE PRReadiness
    <2>1. PICK stage \in {"create_pr", "publish_observation"} :
                 RunAlone("pr_readiness", [orch EXCEPT !.stage = stage])
      BY <1>4 DEF PRReadiness
    <2>2. /\ nodes = {"pr_readiness"}
          /\ nodes' = {"create_pr", "publish_observation"}
          /\ orch' = [orch EXCEPT !.stage = stage]
          /\ UNCHANGED <<item, capsules, notices, ran, outcomes, pulls, raised,
                        edits>>
      BY <1>4, <2>1 DEF PRReadiness, RunAlone, NextNodes, surroundings
    <2>3. /\ orch' \in EngineeringState /\ orch'.files = orch.files
          /\ orch'.stage # "intake" /\ orch'.retries = orch.retries
      BY <1>1, <2>2 DEF EngineeringState, Node
    <2>4. OrchTypeOK'
      BY <2>2, <2>3 DEF OrchInv, OrchTypeOK, Node
    <2>5. pulls = 0
      BY <2>2 DEF OrchInv, OrchTypeOK, PullInv
    <2>6. ChangeInv' /\ PullInv' /\ CountInv'
      BY <2>2, <2>3, <2>5
         DEF OrchInv, ChangeInv, Changed, PullInv, CountInv, Preparing
    <2> QED
      BY <2>4, <2>6 DEF OrchInv
  <1> QED
    BY <1>2, <1>3, <1>4

\* The supersteps that publish: two nodes of which either writes last, or one.
LEMMA PublishStep ==
    ASSUME OrchInv, CreatePR \/ PublishBesideUpdate \/ UpdateBrain
    PROVE  OrchInv'
  <1>1. orch \in EngineeringState /\ pulls \in 0..1
    BY DEF OrchInv, OrchTypeOK
  <1>2. /\ \A stage \in {"publish_observation", "update_brain"} :
             [orch EXCEPT !.stage = stage] \in EngineeringState
        /\ Completed \in EngineeringState
    BY <1>1 DEF Completed, EngineeringState, Node
  <1>3. orch' \in {[orch EXCEPT !.stage = "publish_observation"],
                   [orch EXCEPT !.stage = "update_brain"], Completed}
    BY DEF CreatePR, PublishBesideUpdate, UpdateBrain, RunBoth, RunAlone
  <1>4. /\ orch' \in EngineeringState /\ orch'.files = orch.files
        /\ orch'.stage # "intake" /\ orch'.retries = orch.retries
    BY <1>1, <1>2, <1>3 DEF Completed, EngineeringState
  <1>5. UNCHANGED <<item, capsules, notices, ran, outcomes, raised, edits>>
    BY DEF CreatePR, PublishBesideUpdate, UpdateBrain, surroundings
  <1>6. nodes' \subseteq {"publish_observation", "update_brain"}
    BY DEF CreatePR, PublishBesideUpdate, UpdateBrain, RunBoth, RunAlone, NextNodes
  <1>7. /\ pulls' \in 0..1
        /\ pulls' > 0 => Changed
    <2>1. CASE CreatePR
      <3>1. nodes = {"create_pr", "publish_observation"}
              /\ pulls' = pulls + (IF Opens THEN 1 ELSE 0)
        BY <2>1 DEF CreatePR, RunBoth
      <3>2. pulls = 0 /\ Changed
        BY <1>1, <3>1 DEF OrchInv, PullInv, ChangeInv
      <3> QED
        BY <3>1, <3>2
    <2>2. CASE pulls' = pulls
      BY <1>1, <2>2 DEF OrchInv, ChangeInv
    <2> QED
      BY <2>1, <2>2 DEF PublishBesideUpdate, UpdateBrain, surroundings
  <1>8. OrchTypeOK'
    BY <1>4, <1>5, <1>6, <1>7 DEF OrchInv, OrchTypeOK, Node
  <1>9. ChangeInv'
    BY <1>4, <1>5, <1>6, <1>7 DEF OrchInv, ChangeInv, Changed
  <1>10. PullInv' /\ CountInv'
    BY <1>4, <1>5, <1>6 DEF OrchInv, PullInv, CountInv, Preparing
  <1> QED
    BY <1>8, <1>9, <1>10 DEF OrchInv

\* A node that raises ends the run; people change the item at any time.
LEMMA OutsideStep ==
    ASSUME OrchInv,
           \/ \E answer \in OrchAnswers : ExecuteRaises(answer)
           \/ PullRequestFails \/ EditWorkItem \/ ReceiveFeedback
           \/ UNCHANGED orchVars
    PROVE  OrchInv'
  <1>1. /\ UNCHANGED <<orch, notices, ran, outcomes, pulls>>
        /\ nodes' \in {nodes, {}} /\ item' \in WorkItemRow
        /\ edits' \in 0..MaxEdits
    BY OrchAssumption DEF ExecuteRaises, PullRequestFails, EditWorkItem,
       ReceiveFeedback, orchVars, surroundings, OrchInv, OrchTypeOK
  <1>4. capsules' \in BOOLEAN /\ raised' \in BOOLEAN
    <2>1. capsules' \in {capsules, FALSE} /\ raised' \in {raised, TRUE}
      BY DEF ExecuteRaises, PullRequestFails, EditWorkItem, ReceiveFeedback,
         orchVars, surroundings
    <2> QED
      BY <2>1, Zenon DEF OrchInv, OrchTypeOK
  <1>2. OrchTypeOK'
    BY <1>1, <1>4 DEF OrchInv, OrchTypeOK
  <1>3. ChangeInv' /\ PullInv' /\ CountInv'
    BY <1>1 DEF OrchInv, ChangeInv, Changed, PullInv, CountInv, Preparing
  <1> QED
    BY <1>2, <1>3 DEF OrchInv

LEMMA OrchStep == ASSUME OrchInv, [OrchNext]_orchVars PROVE OrchInv'
  BY PrepareStep, ExecuteStep, VerifyStep, LoopStep, PublishStep, OutsideStep
     DEF OrchNext, Superstep

-----------------------------------------------------------------------------
(* The theorems.                                                            *)

\* The invariant of the orchestrator, its types included.
THEOREM OrchInvariant == OrchSpec => []OrchInv
  BY OrchInitial, OrchStep, PTL DEF OrchSpec

\* A run opens a pull request only for changes that an execution of this run
\* reported, whatever is done to the work item meanwhile (_create_pr behind
\* _verify).
THEOREM PullRequestsHaveChanges == OrchSpec => []PullRequestHasChanges
  <1>1. OrchInv => PullRequestHasChanges
    BY DEF OrchInv, ChangeInv, Changed, Lost, PullRequestHasChanges
  <1> QED
    BY <1>1, OrchInvariant, PTL

\* A run executes at most four times, whether executions or verifications fail
\* (_retry counts both), and opens at most one pull request.
THEOREM RunIsBounded == OrchSpec => [](ran <= 4 /\ pulls <= 1)
  <1>1. OrchInv => ran <= 4 /\ pulls <= 1
    BY DEF OrchInv, OrchTypeOK, CountInv, EngineeringState
  <1> QED
    BY <1>1, OrchInvariant, PTL
=============================================================================
