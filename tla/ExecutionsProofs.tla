-------------------------- MODULE ExecutionsProofs --------------------------
(***************************************************************************)
(* Executions for every set of workers, commands, repositories, executor   *)
(* answers, requests and crashes: types, locks, announced pull requests,   *)
(* and that an execution which ended stays as it ended.                    *)
(***************************************************************************)
EXTENDS Executions, TLAPS

ExecSpec == Init /\ [][Next]_vars

Busy(w) == at[w] \in {"begin", "running"}

\* A worker at a place of a handler works on an execution, inside
\* EXECUTE_WORK_ITEM on an attempt of a command that was taken.
AtWork(w) ==
    /\ at[w] # "idle" => current[w] \in Exec
    /\ Busy(w) => current[w] \in Attempted /\ work[current[w].command] # "queued"

TypeInv == TypeOK /\ \A w \in Workers : AtWork(w)

-----------------------------------------------------------------------------
(* Types of what the handlers write.                                        *)

LEMMA RowsType ==
    ASSUME NEW t \in Tables, NEW e \in Exec,
           NEW v \in ExecutionStatus \cup {Absent}
    PROVE  [t EXCEPT !.rows[e] = v] \in Tables
  BY DEF Tables

LEMMA NotesType ==
    ASSUME NEW t \in Tables, NEW k \in SUBSET ObservationKey
    PROVE  [t EXCEPT !.notes = k] \in Tables
  BY DEF Tables

LEMMA AuditType ==
    ASSUME NEW t \in Tables, NEW e \in Exec, NEW v \in ExecutionStatus
    PROVE  [t EXCEPT !.audit = @ \cup {<<e, v>>}] \in Tables
  BY DEF Tables, AuditRow

LEMMA RunsType ==
    ASSUME NEW t \in Tables, NEW e \in Exec, NEW v \in Verdict
    PROVE  [t EXCEPT !.runs = @ \cup {<<e, v>>}] \in Tables
  BY DEF Tables, VerificationRun

LEMMA NoRowsType == NoRows \in Tables
  BY DEF NoRows, Tables, AuditRow, ObservationKey, VerificationRun

LEMMA FlushedType ==
    ASSUME TypeOK, NEW p \in Processes PROVE Flushed(p) \in Tables
  BY DEF TypeOK, Flushed, Tables

LEMMA NotedType ==
    ASSUME TypeOK, NEW p \in Processes, NEW k \in SUBSET ObservationKey
    PROVE  Noted(p, k) \in SUBSET ObservationKey
  BY DEF TypeOK, Noted, Tables

LEMMA VerifyType ==
    ASSUME NEW x, NEW a, NEW b, NEW c PROVE Verify(x, a, b, c) \in Verdict
  BY DEF Verify, AggregateVerdict, Verdict

LEMMA StatusFromType ==
    ASSUME NEW a \in Answers, ~Raises(a) PROVE StatusFrom(a) \in ExecutionStatus
  BY DEF Answers, Raises, StatusFrom, ExecutionStatus

LEMMA ExecParts ==
    /\ Attempted \subseteq Exec /\ RequestedExec \in Exec
    /\ RequestedExec \notin Attempted
    /\ \A e \in Attempted : /\ e.command \in Commands
                            /\ e.attempt \in 1..MaxAttempts
  BY DEF Exec, Attempted, Requested, RequestedExec

LEMMA RepositoryType ==
    ASSUME NEW e \in Exec, Repository(e) # NoRepository
    PROVE  Repository(e) \in Repositories
  BY DEF Repository, Repositories

-----------------------------------------------------------------------------
(* Types and places, one lemma per action that changes them.                *)

LEMMA TakeTypes ==
    ASSUME TypeInv, NEW w \in Workers, NEW c \in Commands, Take(w, c)
    PROVE  TypeInv'
  <1>1. [command |-> c, attempt |-> 1] \in Attempted
    BY ExecutionAssumption DEF Attempted
  <1>2. TypeOK'
    BY <1>1, ExecParts DEF TypeInv, TypeOK, Take, Goto
  <1>3. ASSUME NEW v \in Workers PROVE AtWork(v)'
    BY <1>1, <1>3, ExecParts DEF TypeInv, TypeOK, AtWork, Busy, Take, Goto
  <1> QED
    BY <1>2, <1>3 DEF TypeInv

LEMMA BeginTypes ==
    ASSUME TypeInv, NEW w \in Workers, Begin(w) PROVE TypeInv'
  <1> DEFINE e == current[w]
             known == ItemOfExec(e) \in KnownItems
             r == Repository(e)
             blocked == r # NoRepository /\ ~Free(w, r)
             writes == CASE blocked -> MarkBlocked(w, e)
                         [] known /\ ~blocked -> Stored(session[w], e, "started")
                         [] OTHER -> session[w]
  <1>1. w \in Processes /\ session[w] \in Tables /\ e \in Exec
    BY DEF TypeInv, TypeOK, AtWork, Begin, Processes
  <1>2. MarkBlocked(w, e) \in Tables
    <2> DEFINE a == [session[w] EXCEPT !.rows[e] = IF known THEN "blocked" ELSE @]
               n == IF known THEN Noted(w, {<<"blocked-lock", e>>})
                    ELSE session[w].notes
               b == [a EXCEPT !.notes = n]
    <2>1. a \in Tables
      BY <1>1, RowsType DEF Tables, ExecutionStatus
    <2>2. n \in SUBSET ObservationKey
      <3>1. {<<"blocked-lock", e>>} \in SUBSET ObservationKey
        BY <1>1 DEF ObservationKey
      <3> QED
        BY <1>1, <3>1, NotedType DEF TypeInv, Tables
    <2>3. b \in Tables
      <3> HIDE DEF a, n
      <3> QED
        BY <2>1, <2>2, NotesType
    <2>4. [b EXCEPT !.audit = @ \cup {<<e, "blocked">>}] \in Tables
      <3> HIDE DEF b
      <3> QED
        BY <1>1, <2>3, AuditType DEF ExecutionStatus
    <2>5. MarkBlocked(w, e) = [b EXCEPT !.audit = @ \cup {<<e, "blocked">>}]
      BY <1>1 DEF MarkBlocked, Tables
    <2> QED
      BY <2>4, <2>5
  <1>3. writes \in Tables
    <2>1. Stored(session[w], e, "started") \in Tables
      BY <1>1, RowsType DEF Stored, ExecutionStatus
    <2> QED
      BY <1>1, <1>2, <2>1
  <1>4. session' = [session EXCEPT ![w] = writes]
    BY Zenon DEF Begin
  <1>5. session' \in [Processes -> Tables]
    <2> HIDE DEF writes
    <2> QED
      BY <1>1, <1>3, <1>4 DEF TypeInv, TypeOK
  <1>6. locks' \in [Workers -> [Repositories -> Exec \cup {None}]]
    BY <1>1, RepositoryType DEF Begin, TypeInv, TypeOK
  <1>7. TypeOK'
    BY <1>5, <1>6 DEF Begin, Goto, TypeInv, TypeOK
  <1>8. ASSUME NEW v \in Workers PROVE AtWork(v)'
    BY <1>1, <1>8 DEF TypeInv, TypeOK, AtWork, Busy, Begin, Goto
  <1> QED
    BY <1>7, <1>8 DEF TypeInv

LEMMA ReturnTypes ==
    ASSUME TypeInv, NEW w \in Workers, NEW answer \in ExecutorAnswers,
           ExecutorReturns(w, answer)
    PROVE  TypeInv'
  <1> DEFINE e == current[w]
             audited == Audited(session[w], e, StatusFrom(answer))
             writes == IF View(w, e) # Absent
                       THEN Stored(audited, e, StatusFrom(answer)) ELSE audited
  <1>1. w \in Processes /\ session[w] \in Tables /\ e \in Exec
    BY DEF TypeInv, TypeOK, AtWork, ExecutorReturns, Processes
  <1>2. StatusFrom(answer) \in ExecutionStatus
    BY StatusFromType, ExecutionAssumption DEF ExecutorReturns
  <1>3. audited \in Tables
    BY <1>1, <1>2, AuditType DEF Audited
  <1>4. writes \in Tables
    <2> HIDE DEF audited
    <2> QED
      BY <1>1, <1>2, <1>3, RowsType DEF Stored
  <1>5. session' = [session EXCEPT ![w] = writes]
    BY Zenon DEF ExecutorReturns
  <1>6. session' \in [Processes -> Tables]
    <2> HIDE DEF writes
    <2> QED
      BY <1>1, <1>4, <1>5 DEF TypeInv, TypeOK
  <1>7. TypeOK'
    BY <1>6 DEF ExecutorReturns, Release, Goto, TypeInv, TypeOK
  <1>8. ASSUME NEW v \in Workers PROVE AtWork(v)'
    BY <1>1, <1>8 DEF TypeInv, TypeOK, AtWork, Busy, ExecutorReturns, Goto
  <1> QED
    BY <1>7, <1>8 DEF TypeInv

LEMMA RaiseTypes ==
    ASSUME TypeInv, NEW w \in Workers, NEW answer \in ExecutorAnswers,
           ExecutorRaises(w, answer)
    PROVE  TypeInv'
  <1> DEFINE e == current[w]
  <1>1. e \in Attempted /\ e.command \in Commands /\ work[e.command] # "queued"
    BY ExecParts DEF TypeInv, AtWork, Busy, ExecutorRaises
  <1>2. CASE e.attempt < MaxAttempts
    <2>1. [e EXCEPT !.attempt = @ + 1] \in Attempted
            /\ [e EXCEPT !.attempt = @ + 1].command = e.command
      BY <1>1, <1>2, ExecutionAssumption DEF Attempted
    <2>2. /\ current' = [current EXCEPT ![w] = [e EXCEPT !.attempt = @ + 1]]
          /\ at' = [at EXCEPT ![w] = "begin"] /\ work' = work
      BY <1>2 DEF ExecutorRaises, Goto
    <2> DEFINE next == [e EXCEPT !.attempt = @ + 1]
    <2> HIDE DEF next
    <2>3. TypeOK'
      BY <2>1, <2>2, ExecParts DEF ExecutorRaises, Release, TypeInv, TypeOK, next
    <2>4. ASSUME NEW v \in Workers PROVE AtWork(v)'
      BY <1>1, <2>1, <2>2, <2>4, ExecParts DEF TypeInv, TypeOK, AtWork, Busy, next
    <2> QED
      BY <2>3, <2>4 DEF TypeInv
  <1>3. CASE ~(e.attempt < MaxAttempts)
    <2>1. TypeOK'
      <3>1. /\ work' = [work EXCEPT ![e.command] = "dead"]
            /\ current' = [current EXCEPT ![w] = None]
            /\ at' = [at EXCEPT ![w] = "idle"]
            /\ UNCHANGED <<session, db, results, requests, tick, overdue, asked,
                          crashes>>
        BY <1>3 DEF ExecutorRaises, Goto
      <3>2. locks' \in [Workers -> [Repositories -> Exec \cup {None}]]
        BY DEF ExecutorRaises, Release, TypeInv, TypeOK
      <3> QED
        BY <1>1, <3>1, <3>2 DEF TypeInv, TypeOK
    <2>2. ASSUME NEW v \in Workers PROVE AtWork(v)'
      BY <1>1, <1>3, <2>2, ExecParts
         DEF TypeInv, TypeOK, AtWork, Busy, ExecutorRaises, Goto
    <2> QED
      BY <2>1, <2>2 DEF TypeInv
  <1> QED
    BY <1>2, <1>3

LEMMA CommitTypes ==
    ASSUME TypeInv, NEW w \in Workers, Commit(w) PROVE TypeInv'
  <1>1. w \in Processes
    BY DEF Processes
  <1>2. TypeOK'
    BY <1>1, FlushedType, NoRowsType DEF Commit, Goto, TypeInv, TypeOK
  <1>3. ASSUME NEW v \in Workers PROVE AtWork(v)'
    BY <1>3, ExecParts DEF TypeInv, TypeOK, AtWork, Busy, Commit, Goto
  <1> QED
    BY <1>2, <1>3 DEF TypeInv

LEMMA CrashTypes ==
    ASSUME TypeInv, NEW w \in Workers, Crash(w) PROVE TypeInv'
  <1>1. w \in Processes
    BY DEF Processes
  <1>2. TypeOK'
    BY <1>1, NoRowsType, ExecutionAssumption DEF Crash, Goto, TypeInv, TypeOK
  <1>3. ASSUME NEW v \in Workers PROVE AtWork(v)'
    BY <1>3, ExecParts DEF TypeInv, TypeOK, AtWork, Busy, Crash, Goto
  <1> QED
    BY <1>2, <1>3 DEF TypeInv

LEMMA VerifyTypes ==
    ASSUME TypeInv, NEW w \in Workers, NEW e \in Targets, VerifyExecution(w, e)
    PROVE  TypeInv'
  <1> DEFINE v == Verify({}, FALSE, {}, {})
  <1>1. w \in Processes /\ e \in Exec /\ session[w] \in Tables
    BY ExecutionAssumption DEF Processes, TypeInv, TypeOK
  <1>2. [session[w] EXCEPT !.runs = @ \cup {<<e, v>>}] \in Tables
    <2>1. v \in Verdict
      BY VerifyType
    <2> HIDE DEF v
    <2> QED
      BY <1>1, <2>1, RunsType
  <1>3. session' = [session EXCEPT ![w] =
                      [session[w] EXCEPT !.runs = @ \cup {<<e, v>>}]]
    BY Zenon DEF VerifyExecution
  <1>4. session' \in [Processes -> Tables]
    BY <1>1, <1>2, <1>3 DEF TypeInv, TypeOK
  <1>5. TypeOK'
    BY <1>4, ExecParts, ExecutionAssumption
       DEF VerifyExecution, Ask, Goto, TypeInv, TypeOK
  <1>6. ASSUME NEW x \in Workers PROVE AtWork(x)'
    BY <1>6, ExecParts DEF VerifyExecution, Goto, TypeInv, TypeOK, AtWork, Busy
  <1> QED
    BY <1>5, <1>6 DEF TypeInv

LEMMA CreateTypes ==
    ASSUME TypeInv, NEW w \in Workers, NEW e \in Targets, CreatePullRequest(w, e)
    PROVE  TypeInv'
  <1>1. e \in Exec
    BY ExecutionAssumption
  <1>2. TypeOK'
    BY <1>1, ExecutionAssumption
       DEF CreatePullRequest, Ask, Goto, TypeInv, TypeOK, MergeRequest
  <1>3. ASSUME NEW x \in Workers PROVE AtWork(x)'
    BY <1>1, <1>3, ExecParts
       DEF CreatePullRequest, Goto, TypeInv, TypeOK, AtWork, Busy
  <1> QED
    BY <1>2, <1>3 DEF TypeInv

LEMMA JournalTypes ==
    ASSUME TypeInv, NEW w \in Workers, JournalPullRequest(w) PROVE TypeInv'
  <1> DEFINE k == Noted(w, {<<"pr-created", current[w]>>})
  <1>1. w \in Processes /\ session[w] \in Tables /\ current[w] \in Exec
    BY DEF Processes, TypeInv, TypeOK, AtWork, JournalPullRequest
  <1>2. k \in SUBSET ObservationKey
    <2>1. {<<"pr-created", current[w]>>} \in SUBSET ObservationKey
      BY <1>1 DEF ObservationKey
    <2> QED
      BY <1>1, <2>1, NotedType DEF TypeInv
  <1>3. session' = [session EXCEPT ![w] = [session[w] EXCEPT !.notes = k]]
    BY Zenon DEF JournalPullRequest
  <1>4. session' \in [Processes -> Tables]
    <2> HIDE DEF k
    <2> QED
      BY <1>1, <1>2, <1>3, NotesType DEF TypeInv, TypeOK
  <1>5. TypeOK'
    BY <1>4 DEF JournalPullRequest, Goto, TypeInv, TypeOK
  <1>6. ASSUME NEW x \in Workers PROVE AtWork(x)'
    BY <1>1, <1>6 DEF JournalPullRequest, Goto, TypeInv, TypeOK, AtWork, Busy
  <1> QED
    BY <1>5, <1>6 DEF TypeInv

\* The steps that leave the workers where they are.
LEMMA PlacesKept ==
    ASSUME TypeInv, UNCHANGED <<work, at, current>>
    PROVE  \A w \in Workers : AtWork(w)'
  BY DEF TypeInv, AtWork, Busy

LEMMA RouteTypes ==
    ASSUME TypeInv,
           \/ StartExecution
           \/ \E e \in Targets : RecordResult(e) \/ PullRequestRoute(e)
           \/ \E e \in Exec : BecomesOverdue(e)
    PROVE  TypeInv'
  <1>1. CASE StartExecution
    <2>1. API \in Processes
      BY DEF Processes
    <2>2. session' = [session EXCEPT ![API] =
                        [session[API] EXCEPT !.rows[RequestedExec] = "requested"]]
      BY <1>1, <2>1 DEF StartExecution, Save, TypeInv, TypeOK
    <2>3. session' \in [Processes -> Tables]
      <3>1. [session[API] EXCEPT !.rows[RequestedExec] = "requested"] \in Tables
        BY <2>1, RowsType, ExecParts DEF TypeInv, TypeOK, ExecutionStatus
      <3> QED
        BY <2>1, <2>2, <3>1 DEF TypeInv, TypeOK
    <2>4. TypeOK'
      BY <1>1, <2>3, ExecutionAssumption DEF StartExecution, Ask, TypeInv, TypeOK
    <2> QED
      BY <1>1, <2>4, PlacesKept DEF StartExecution, TypeInv
  <1>2. CASE \E e \in Targets : RecordResult(e)
    BY <1>2, PlacesKept, ExecutionAssumption DEF RecordResult, Ask, TypeInv, TypeOK
  <1>3. CASE \E e \in Targets : PullRequestRoute(e)
    BY <1>3, PlacesKept, ExecutionAssumption
       DEF PullRequestRoute, Ask, TypeInv, TypeOK, MergeRequest
  <1>4. CASE \E e \in Exec : BecomesOverdue(e)
    BY <1>4, PlacesKept DEF BecomesOverdue, TypeInv, TypeOK
  <1> QED
    BY <1>1, <1>2, <1>3, <1>4

LEMMA VerifyRouteTypes ==
    ASSUME TypeInv, NEW e \in Targets, NEW input \in VerifyRequests,
           VerifyRoute(e, input)
    PROVE  TypeInv'
  <1> DEFINE v == Verify({}, input.criteria, input.changed, input.expected)
  <1>1. API \in Processes /\ e \in Exec /\ session[API] \in Tables
    BY ExecutionAssumption DEF Processes, TypeInv, TypeOK
  <1>2. [session[API] EXCEPT !.runs = @ \cup {<<e, v>>}] \in Tables
    <2>1. v \in Verdict
      BY VerifyType
    <2> HIDE DEF v
    <2> QED
      BY <1>1, <2>1, RunsType
  <1>3. session' = [session EXCEPT ![API] =
                      [session[API] EXCEPT !.runs = @ \cup {<<e, v>>}]]
    BY Zenon DEF VerifyRoute
  <1>4. session' \in [Processes -> Tables]
    BY <1>1, <1>2, <1>3 DEF TypeInv, TypeOK
  <1>5. TypeOK'
    BY <1>4, ExecutionAssumption DEF VerifyRoute, Ask, TypeInv, TypeOK
  <1> QED
    BY <1>5, PlacesKept DEF VerifyRoute, TypeInv

LEMMA SchedulerTypes ==
    ASSUME TypeInv, ReconcileDocumentation \/ DetectStuckExecutions
    PROVE  TypeInv'
  <1>1. Scheduler \in Processes /\ session[Scheduler] \in Tables
    BY DEF Processes, TypeInv, TypeOK
  <1>2. CASE ReconcileDocumentation
    <2>1. db' \in Tables /\ session' \in [Processes -> Tables]
      BY <1>1, <1>2, FlushedType, NoRowsType
         DEF ReconcileDocumentation, TypeInv, TypeOK
    <2>2. TypeOK'
      BY <1>2, <2>1 DEF ReconcileDocumentation, TypeInv, TypeOK
    <2> QED
      BY <1>2, <2>2, PlacesKept DEF ReconcileDocumentation, TypeInv
  <1>3. CASE DetectStuckExecutions
    <2> DEFINE k == Noted(Scheduler, {<<"stuck", e>> : e \in Stuck})
               rows == [e \in Exec |-> IF e \in Stuck THEN "blocked"
                                       ELSE session[Scheduler].rows[e]]
    <2>1. k \in SUBSET ObservationKey
      <3>1. {<<"stuck", e>> : e \in Stuck} \in SUBSET ObservationKey
        BY DEF Stuck, TypeInv, TypeOK, ObservationKey
      <3> QED
        BY <1>1, <3>1, NotedType DEF TypeInv
    <2>2. rows \in [Exec -> ExecutionStatus \cup {Absent}]
      BY <1>1 DEF Tables, ExecutionStatus
    <2>3. session' = [session EXCEPT ![Scheduler] =
                        [session[Scheduler] EXCEPT !.rows = rows, !.notes = k]]
      <3> HIDE DEF k
      <3> QED
        BY <1>1, <1>3 DEF DetectStuckExecutions, TypeInv, TypeOK, Tables, k
    <2>4. session' \in [Processes -> Tables]
      <3> HIDE DEF k, rows
      <3> QED
        BY <1>1, <2>1, <2>2, <2>3 DEF TypeInv, TypeOK, Tables
    <2>5. TypeOK'
      BY <1>3, <2>4 DEF DetectStuckExecutions, TypeInv, TypeOK
    <2> QED
      BY <1>3, <2>5, PlacesKept DEF DetectStuckExecutions, TypeInv
  <1> QED
    BY <1>2, <1>3

LEMMA TypeStep == ASSUME TypeInv, [Next]_vars PROVE TypeInv'
  <1>1. CASE UNCHANGED vars
    BY <1>1 DEF vars, TypeInv, TypeOK, AtWork, Busy
  <1>2. CASE Next
    BY <1>2, TakeTypes, BeginTypes, ReturnTypes, RaiseTypes, JournalTypes,
       CommitTypes, CrashTypes, VerifyTypes, CreateTypes, RouteTypes,
       VerifyRouteTypes, SchedulerTypes DEF Next, Step
  <1> QED
    BY <1>1, <1>2

LEMMA TypeInit == ASSUME Init PROVE TypeInv
  BY NoRowsType, ExecutionAssumption DEF Init, TypeInv, TypeOK, AtWork, Busy

\* Types of the processes' state (the repositories and stores the handlers use).
THEOREM ExecutionTypes == ExecSpec => []TypeOK
  <1>1. TypeInv => TypeOK
    BY DEF TypeInv
  <1> QED
    BY <1>1, TypeInit, TypeStep, PTL DEF ExecSpec

-----------------------------------------------------------------------------
(* Locks.                                                                   *)

LEMMA LockInit == ASSUME Init PROVE LocksFollowExecutions
  BY DEF Init, LocksFollowExecutions

\* A worker outside the executor holds no lock.
LEMMA NoLocksOutside ==
    ASSUME TypeInv, LocksFollowExecutions, NEW w \in Workers, at[w] # "running",
           NEW r \in Repositories
    PROVE  locks[w][r] = None
  BY DEF LocksFollowExecutions

LEMMA LockStep ==
    ASSUME TypeInv, LocksFollowExecutions, [Next]_vars
    PROVE  LocksFollowExecutions'
  <1>1. ASSUME NEW w \in Workers, NEW c \in Commands, Take(w, c)
        PROVE  LocksFollowExecutions'
    BY <1>1 DEF Take, Goto, TypeInv, TypeOK, LocksFollowExecutions
  <1>2. ASSUME NEW w \in Workers, Begin(w) PROVE LocksFollowExecutions'
    <2> DEFINE e == current[w]
    <2>1. CASE Repository(e) # NoRepository /\ Free(w, Repository(e))
      <3>1. /\ locks' = [locks EXCEPT ![w][Repository(e)] = e]
            /\ at' = [at EXCEPT ![w] = "running"] /\ current' = current
            /\ Repository(e) \in Repositories
        BY <1>2, <2>1, RepositoryType DEF Begin, Goto, TypeInv, AtWork
      <3>2. \A v \in Workers \ {w} : at'[v] = at[v] /\ locks'[v] = locks[v]
        BY <3>1 DEF TypeInv, TypeOK
      <3>3. at'[w] = "running" /\ current'[w] = e
        BY <3>1 DEF TypeInv, TypeOK
      <3>4. \A r \in Repositories :
              locks'[w][r] # None => r = Repository(e) /\ locks'[w][r] = e
        BY <1>2, <3>1, NoLocksOutside DEF Begin, TypeInv, TypeOK
      <3>5. \A x : Repository(x)' = Repository(x)
        BY DEF Repository, ItemOfExec
      <3> QED
        BY <3>1, <3>2, <3>3, <3>4, <3>5 DEF LocksFollowExecutions
    <2>2. CASE ~(Repository(e) # NoRepository /\ Free(w, Repository(e)))
      <3>1. locks' = locks /\ current' = current
        BY <1>2, <2>2 DEF Begin
      <3>2. \A v \in Workers \ {w} : at'[v] = at[v]
        BY <1>2 DEF Begin, Goto, TypeInv, TypeOK
      <3> QED
        BY <1>2, <3>1, <3>2, NoLocksOutside
           DEF Begin, LocksFollowExecutions, Repository, ItemOfExec
    <2> QED
      BY <2>1, <2>2
  <1>3. ASSUME NEW w \in Workers, NEW answer \in ExecutorAnswers,
               ExecutorReturns(w, answer) \/ ExecutorRaises(w, answer)
        PROVE  LocksFollowExecutions'
    <2>1. Release(w, current[w]) /\ at[w] = "running"
      BY <1>3 DEF ExecutorReturns, ExecutorRaises
    <2>2. \A r \in Repositories : locks'[w][r] = None
      BY <2>1 DEF Release, TypeInv, TypeOK, LocksFollowExecutions
    <2>3. \A v \in Workers \ {w} :
            at'[v] = at[v] /\ current'[v] = current[v] /\ locks'[v] = locks[v]
      BY <1>3 DEF ExecutorReturns, ExecutorRaises, Release, Goto, TypeInv, TypeOK
    <2> QED
      BY <2>2, <2>3 DEF LocksFollowExecutions, Repository, ItemOfExec
  <1>4. ASSUME NEW w \in Workers,
               \/ Commit(w) \/ JournalPullRequest(w)
               \/ \E e \in Targets : VerifyExecution(w, e) \/ CreatePullRequest(w, e)
        PROVE  LocksFollowExecutions'
    <2>1. at[w] # "running" /\ locks' = locks
      BY <1>4 DEF Commit, JournalPullRequest, VerifyExecution, CreatePullRequest
    <2>2. \A v \in Workers \ {w} : at'[v] = at[v] /\ current'[v] = current[v]
      BY <1>4 DEF Commit, JournalPullRequest, VerifyExecution, CreatePullRequest,
                  Goto, TypeInv, TypeOK
    <2> QED
      BY <2>1, <2>2, NoLocksOutside DEF LocksFollowExecutions, Repository, ItemOfExec
  <1>5. ASSUME NEW w \in Workers, Crash(w) PROVE LocksFollowExecutions'
    BY <1>5 DEF Crash, Goto, TypeInv, TypeOK, LocksFollowExecutions, Repository,
                ItemOfExec
  <1>6. CASE UNCHANGED <<at, current, locks>>
    BY <1>6 DEF LocksFollowExecutions, Repository, ItemOfExec
  <1>7. CASE UNCHANGED vars
    BY <1>6, <1>7 DEF vars
  <1>8. CASE \/ StartExecution \/ ReconcileDocumentation \/ DetectStuckExecutions
             \/ \E e \in Targets : RecordResult(e) \/ PullRequestRoute(e)
             \/ \E e \in Targets, input \in VerifyRequests : VerifyRoute(e, input)
             \/ \E e \in Exec : BecomesOverdue(e)
    BY <1>6, <1>8 DEF StartExecution, ReconcileDocumentation, DetectStuckExecutions,
       RecordResult, PullRequestRoute, VerifyRoute, BecomesOverdue
  <1> QED
    BY <1>1, <1>2, <1>3, <1>4, <1>5, <1>7, <1>8 DEF Next, Step

\* A repository is locked only by the execution that is inside the executor
\* (try/finally in _execute_work_item), for any workers and repositories.
THEOREM LocksFollow == ExecSpec => []LocksFollowExecutions
  BY TypeInit, TypeStep, LockInit, LockStep, PTL DEF ExecSpec

-----------------------------------------------------------------------------
(* Announcements.  A worker writes one only after the provider's answer,    *)
(* and what is in a session may be committed at any later time.             *)

HasRequest(e) == \E m \in requests : m.execution = e
Announced(e) == <<"pr-created", e>>

AnnounceInv ==
    /\ \A e \in Exec : Announced(e) \in db.notes => HasRequest(e)
    /\ \A p \in Processes, e \in Exec :
          Announced(e) \in session[p].notes => HasRequest(e)
    /\ \A w \in Workers : at[w] = "journal" => HasRequest(current[w])

LEMMA AnnounceInit == ASSUME Init PROVE AnnounceInv
  BY DEF Init, AnnounceInv, NoRows

\* A step that adds no announcement and leaves the others where they are.
LEMMA AnnounceKept ==
    ASSUME AnnounceInv, requests \subseteq requests',
           \A e \in Exec : Announced(e) \in db'.notes =>
              \/ Announced(e) \in db.notes
              \/ \E p \in Processes : Announced(e) \in session[p].notes,
           \A p \in Processes, e \in Exec :
              Announced(e) \in session'[p].notes =>
                 \/ Announced(e) \in session[p].notes
                 \/ p \in Workers /\ at[p] = "journal" /\ current[p] = e,
           \A w \in Workers : at'[w] = "journal" =>
              at[w] = "journal" /\ current'[w] = current[w]
    PROVE  AnnounceInv'
  BY DEF AnnounceInv, HasRequest

\* Notes of other kinds announce nothing.
LEMMA NotedOther ==
    ASSUME NEW p \in Processes, NEW k, \A e \in Exec : Announced(e) \notin k,
           NEW e \in Exec, Announced(e) \in Noted(p, k)
    PROVE  Announced(e) \in session[p].notes
  BY DEF Noted

LEMMA AnnounceStep ==
    ASSUME TypeInv, AnnounceInv, [Next]_vars PROVE AnnounceInv'
  <1> USE DEF Processes
  <1>1. ASSUME NEW w \in Workers, NEW c \in Commands, Take(w, c)
        PROVE  AnnounceInv'
    <2>1. \A v \in Workers : at'[v] = "journal" =>
            at[v] = "journal" /\ current'[v] = current[v]
      BY <1>1 DEF Take, Goto, TypeInv, TypeOK
    <2> QED
      BY <1>1, <2>1, AnnounceKept DEF Take
  <1>2. ASSUME NEW w \in Workers, Begin(w) PROVE AnnounceInv'
    <2> DEFINE e == current[w]
    <2>1. \A v \in Workers : at'[v] = "journal" =>
            at[v] = "journal" /\ current'[v] = current[v]
      BY <1>2 DEF Begin, Goto, TypeInv, TypeOK
    <2>2. \A x \in Exec : Announced(x) \in MarkBlocked(w, e).notes =>
                            Announced(x) \in session[w].notes
      <3>1. \A x \in Exec : Announced(x) \notin {<<"blocked-lock", e>>}
        BY DEF Announced
      <3>2. session[w] \in Tables
        BY DEF TypeInv, TypeOK
      <3>3. MarkBlocked(w, e).notes \in {Noted(w, {<<"blocked-lock", e>>}),
                                         session[w].notes}
        BY <3>2 DEF MarkBlocked, Tables
      <3> QED
        BY <3>1, <3>3, NotedOther
    <2>3. Stored(session[w], e, "started").notes = session[w].notes
      BY DEF Stored, TypeInv, TypeOK, Tables
    <2>4. session'[w] \in {MarkBlocked(w, e), Stored(session[w], e, "started"),
                           session[w]}
            /\ \A p \in Processes \ {w} : session'[p] = session[p]
      BY <1>2 DEF Begin, TypeInv, TypeOK
    <2>5. db' = db /\ requests' = requests
      BY <1>2 DEF Begin
    <2> QED
      BY <2>1, <2>2, <2>3, <2>4, <2>5, AnnounceKept
  <1>3. ASSUME NEW w \in Workers, NEW answer \in ExecutorAnswers,
               ExecutorReturns(w, answer)
        PROVE  AnnounceInv'
    <2> DEFINE e == current[w]
               audited == Audited(session[w], e, StatusFrom(answer))
    <2>1. \A v \in Workers : at'[v] = "journal" =>
            at[v] = "journal" /\ current'[v] = current[v]
      BY <1>3 DEF ExecutorReturns, Goto, TypeInv, TypeOK
    <2>2. session'[w] \in {Stored(audited, e, StatusFrom(answer)), audited}
            /\ \A p \in Processes \ {w} : session'[p] = session[p]
      BY <1>3 DEF ExecutorReturns, TypeInv, TypeOK
    <2>3. session'[w].notes = session[w].notes
      BY <2>2 DEF Stored, Audited, TypeInv, TypeOK, Tables
    <2> QED
      BY <1>3, <2>1, <2>2, <2>3, AnnounceKept DEF ExecutorReturns
  <1>4. ASSUME NEW w \in Workers, NEW answer \in ExecutorAnswers,
               ExecutorRaises(w, answer)
        PROVE  AnnounceInv'
    <2>1. \A v \in Workers : at'[v] = "journal" =>
            at[v] = "journal" /\ current'[v] = current[v]
      BY <1>4 DEF ExecutorRaises, Goto, TypeInv, TypeOK
    <2> QED
      BY <1>4, <2>1, AnnounceKept DEF ExecutorRaises
  <1>5. ASSUME NEW w \in Workers, JournalPullRequest(w) PROVE AnnounceInv'
    <2>1. \A v \in Workers : at'[v] = "journal" =>
            at[v] = "journal" /\ current'[v] = current[v]
      BY <1>5 DEF JournalPullRequest, Goto, TypeInv, TypeOK
    <2>2. \A e \in Exec : Announced(e) \in session'[w].notes =>
            Announced(e) \in session[w].notes \/ current[w] = e
      BY <1>5 DEF JournalPullRequest, Noted, Announced, TypeInv, TypeOK, Tables
    <2>3. \A p \in Processes \ {w} : session'[p] = session[p]
      BY <1>5 DEF JournalPullRequest, TypeInv, TypeOK
    <2> QED
      BY <1>5, <2>1, <2>2, <2>3, AnnounceKept DEF JournalPullRequest
  <1>6. ASSUME NEW p \in Processes, NEW e \in Exec,
               Announced(e) \in Flushed(p).notes
        PROVE  Announced(e) \in db.notes \/ Announced(e) \in session[p].notes
    BY <1>6 DEF Flushed
  <1>7. ASSUME NEW w \in Workers, Commit(w) \/ Crash(w) PROVE AnnounceInv'
    <2>1. \A v \in Workers : at'[v] = "journal" =>
            at[v] = "journal" /\ current'[v] = current[v]
      BY <1>7 DEF Commit, Crash, Goto, TypeInv, TypeOK
    <2>2. session' = [session EXCEPT ![w] = NoRows] /\ db' \in {db, Flushed(w)}
            /\ requests' = requests
      BY <1>7 DEF Commit, Crash
    <2>3. \A p \in Processes : session'[p].notes \in {{}, session[p].notes}
      BY <2>2 DEF NoRows, TypeInv, TypeOK
    <2> QED
      BY <1>6, <2>1, <2>2, <2>3, AnnounceKept
  <1>8. ASSUME NEW w \in Workers, NEW e \in Targets, VerifyExecution(w, e)
        PROVE  AnnounceInv'
    <2>1. \A v \in Workers : at'[v] = "journal" =>
            at[v] = "journal" /\ current'[v] = current[v]
      BY <1>8 DEF VerifyExecution, Goto, TypeInv, TypeOK
    <2>2. \A p \in Processes : session'[p].notes = session[p].notes
      BY <1>8 DEF VerifyExecution, TypeInv, TypeOK, Tables
    <2> QED
      BY <1>8, <2>1, <2>2, AnnounceKept DEF VerifyExecution
  <1>9. ASSUME NEW w \in Workers, NEW e \in Targets, CreatePullRequest(w, e)
        PROVE  AnnounceInv'
    <2>1. requests' = requests \cup
                        {[execution |-> e, branch |-> WorkingBranch(e)]}
            /\ db' = db /\ session' = session
      BY <1>9 DEF CreatePullRequest
    <2>2. \A x : HasRequest(x) => HasRequest(x)'
      BY <2>1 DEF HasRequest
    <2>3. HasRequest(e)'
      <3> DEFINE m == [execution |-> e, branch |-> WorkingBranch(e)]
      <3>1. m \in requests' /\ m.execution = e
        BY <2>1
      <3> HIDE DEF m
      <3> QED
        BY <3>1 DEF HasRequest
    <2>4. /\ current'[w] = e
          /\ \A v \in Workers \ {w} : at'[v] = at[v] /\ current'[v] = current[v]
      BY <1>9 DEF CreatePullRequest, Goto, TypeInv, TypeOK
    <2> QED
      BY <2>1, <2>2, <2>3, <2>4 DEF AnnounceInv
  <1>10. CASE StartExecution
    <2>1. \A p \in Processes : session'[p].notes = session[p].notes
      BY <1>10 DEF StartExecution, Save, TypeInv, TypeOK, Tables
    <2> QED
      BY <1>10, <2>1, AnnounceKept DEF StartExecution
  <1>11. ASSUME NEW e \in Targets, NEW input \in VerifyRequests,
                VerifyRoute(e, input)
         PROVE  AnnounceInv'
    <2>1. \A p \in Processes : session'[p].notes = session[p].notes
      BY <1>11 DEF VerifyRoute, TypeInv, TypeOK, Tables
    <2> QED
      BY <1>11, <2>1, AnnounceKept DEF VerifyRoute
  <1>12. ASSUME NEW e \in Exec,
                \/ BecomesOverdue(e)
                \/ e \in Targets /\ (RecordResult(e) \/ PullRequestRoute(e))
         PROVE  AnnounceInv'
    BY <1>12, AnnounceKept DEF BecomesOverdue, RecordResult, PullRequestRoute
  <1>13. CASE ReconcileDocumentation
    <2>1. \A p \in Processes : session'[p].notes \in {{}, session[p].notes}
      BY <1>13 DEF ReconcileDocumentation, NoRows, TypeInv, TypeOK
    <2>2. db' \in {db, Flushed(Scheduler)} /\ requests' = requests
            /\ at' = at /\ current' = current
      BY <1>13 DEF ReconcileDocumentation
    <2> QED
      BY <1>6, <2>1, <2>2, AnnounceKept
  <1>14. CASE DetectStuckExecutions
    <2> DEFINE k == {<<"stuck", e>> : e \in Stuck}
    <2>1. \A e \in Exec : Announced(e) \notin k
      BY DEF Announced
    <2> HIDE DEF k
    <2>2. session'[Scheduler].notes = Noted(Scheduler, k)
            /\ \A p \in Processes \ {Scheduler} : session'[p] = session[p]
      BY <1>14 DEF DetectStuckExecutions, TypeInv, TypeOK, Tables, k
    <2>3. \A e \in Exec : Announced(e) \in Noted(Scheduler, k) =>
                          Announced(e) \in session[Scheduler].notes
      BY <2>1, NotedOther
    <2>4. UNCHANGED <<db, requests, at, current>>
      BY <1>14 DEF DetectStuckExecutions
    <2> QED
      BY <2>2, <2>3, <2>4, AnnounceKept
  <1>15. CASE UNCHANGED vars
    BY <1>15, AnnounceKept DEF vars
  <1> QED
    BY <1>1, <1>2, <1>3, <1>4, <1>5, <1>7, <1>8, <1>9, <1>10, <1>11, <1>12, <1>13,
       <1>14, <1>15, ExecutionAssumption DEF Next, Step

\* A committed announcement is of a pull request that the provider has, across
\* crashes, lost sessions and repeated commands (create_pull_request).
THEOREM AnnouncedExists == ExecSpec => []AnnouncedPullRequestExists
  <1>1. AnnounceInv => AnnouncedPullRequestExists
    BY DEF AnnounceInv, AnnouncedPullRequestExists, Announced, HasRequest
  <1> QED
    BY <1>1, TypeInit, TypeStep, AnnounceInit, AnnounceStep, PTL DEF ExecSpec

-----------------------------------------------------------------------------
(* Ended executions.  An attempt's row is written by one worker, committed  *)
(* once, and only the scheduler changes it afterwards: so a worker never    *)
(* commits a row that is already there, and the scheduler never holds one   *)
(* of an execution that ended.                                              *)

Committed(e) == db.rows[e] # Absent
WrittenBy(w, e) == session[w].rows[e] # Absent

\* A row in a worker's session is an attempt's, and nowhere else.
OwnRow(w, e) ==
    WrittenBy(w, e) => /\ e \in Attempted /\ work[e.command] # "queued"
                       /\ ~Committed(e)
                       /\ \A v \in Workers \ {w} : ~WrittenBy(v, e)

CommittedRow(e) == Committed(e) => e \in Attempted /\ work[e.command] # "queued"

\* The scheduler holds rows of executions that were committed unfinished.
SchedulerRow(e) ==
    WrittenBy(Scheduler, e) => /\ session[Scheduler].rows[e] = "blocked"
                               /\ Committed(e) /\ db.rows[e] \in InProgress

\* A worker in EXECUTE_WORK_ITEM has its command to itself, and no row of this
\* or a later attempt exists but its own.
Unwritten(w) ==
    Busy(w) =>
      /\ \A v \in Workers \ {w} : Busy(v) => current[v].command # current[w].command
      /\ \A e \in Attempted :
           e.command = current[w].command /\ e.attempt >= current[w].attempt =>
             /\ ~Committed(e)
             /\ \A v \in Workers : WrittenBy(v, e) =>
                  v = w /\ at[w] = "running" /\ e = current[w]

RowInv ==
    /\ \A w \in Workers, e \in Exec : OwnRow(w, e)
    /\ \A e \in Exec : CommittedRow(e) /\ SchedulerRow(e)
    /\ \A w \in Workers : Unwritten(w)

LEMMA RowInit == ASSUME Init PROVE RowInv
  BY DEF Init, RowInv, OwnRow, CommittedRow, SchedulerRow, Unwritten, Committed,
         WrittenBy, Busy, NoRows, Processes

\* Steps that write no row, hand out no command and begin no attempt.
LEMMA RowsKept ==
    ASSUME RowInv,
           \A e \in Exec : db'.rows[e] = db.rows[e],
           \A w \in Workers, e \in Exec :
              session'[w].rows[e] \in {Absent, session[w].rows[e]},
           \A e \in Exec :
              session'[Scheduler].rows[e] = session[Scheduler].rows[e],
           \A c \in Commands : work'[c] = "queued" => work[c] = "queued",
           \A w \in Workers : Busy(w)' =>
              at'[w] = at[w] /\ current'[w] = current[w]
    PROVE  RowInv'
  <1>1. \A e \in Attempted : e \in Exec /\ e.command \in Commands
    BY ExecParts
  <1>2. \A w \in Workers : Busy(w)' => Busy(w)
    BY DEF Busy
  <1>3. \A w \in Workers, e \in Exec : OwnRow(w, e)'
    BY <1>1 DEF RowInv, OwnRow, WrittenBy, Committed
  <1>4. \A e \in Exec : CommittedRow(e)' /\ SchedulerRow(e)'
    BY <1>1 DEF RowInv, CommittedRow, SchedulerRow, WrittenBy, Committed
  <1>5. \A w \in Workers : Unwritten(w)'
    BY <1>1, <1>2 DEF RowInv, Unwritten, WrittenBy, Committed
  <1> QED
    BY <1>3, <1>4, <1>5 DEF RowInv

LEMMA TakeRows ==
    ASSUME TypeInv, RowInv, NEW w \in Workers, NEW c \in Commands, Take(w, c)
    PROVE  RowInv'
  <1>1. /\ work[c] = "queued" /\ work' = [work EXCEPT ![c] = "held"]
        /\ current' = [current EXCEPT ![w] = [command |-> c, attempt |-> 1]]
        /\ at' = [at EXCEPT ![w] = "begin"] /\ at[w] = "idle"
        /\ db' = db /\ session' = session
    BY DEF Take, Goto
  <1>2. \A e \in Attempted : e.command = c =>
          ~Committed(e) /\ \A v \in Workers : ~WrittenBy(v, e)
    BY <1>1, ExecParts DEF RowInv, OwnRow, CommittedRow
  <1>3. \A v \in Workers : Busy(v) => current[v].command # c
    BY <1>1 DEF TypeInv, AtWork
  <1>4. \A x \in Commands : work'[x] = "queued" => work[x] = "queued"
    BY <1>1 DEF TypeInv, TypeOK
  <1>5. \A v \in Workers \ {w} : at'[v] = at[v] /\ current'[v] = current[v]
    BY <1>1 DEF TypeInv, TypeOK
  <1>6. current'[w].command = c
    BY <1>1 DEF TypeInv, TypeOK
  <1>7. \A v \in Workers, e \in Exec : OwnRow(v, e)'
    BY <1>1, <1>4, ExecParts DEF RowInv, OwnRow, WrittenBy, Committed
  <1>8. \A e \in Exec : CommittedRow(e)' /\ SchedulerRow(e)'
    BY <1>1, <1>4, ExecParts
       DEF RowInv, CommittedRow, SchedulerRow, WrittenBy, Committed
  <1>9. ASSUME NEW v \in Workers PROVE Unwritten(v)'
    <2>1. CASE v = w
      BY <1>1, <1>2, <1>3, <1>5, <1>6, <2>1
         DEF Unwritten, Busy, WrittenBy, Committed
    <2>2. CASE v # w
      BY <1>1, <1>3, <1>5, <1>6, <1>9, <2>2
         DEF RowInv, Unwritten, Busy, WrittenBy, Committed
    <2> QED
      BY <2>1, <2>2
  <1> QED
    BY <1>7, <1>8, <1>9 DEF RowInv

\* A row of the current attempt is written by the worker that runs it.
LEMMA OwnWrite ==
    ASSUME TypeInv, RowInv, NEW w \in Workers, Busy(w),
           UNCHANGED <<work, db, current>>,
           \A v \in Workers \ {w} : at'[v] = at[v],
           at'[w] \in {"running", "commit"},
           \A v \in (Workers \cup {Scheduler}) \ {w}, e \in Exec :
              session'[v].rows[e] = session[v].rows[e],
           \A e \in Exec \ {current[w]} :
              session'[w].rows[e] = session[w].rows[e]
    PROVE  RowInv'
  <1> DEFINE x == current[w]
  <1>1. /\ x \in Attempted /\ x \in Exec /\ x.attempt >= x.attempt
        /\ work[x.command] # "queued"
    BY ExecParts DEF TypeInv, AtWork
  <1>2. ~Committed(x) /\ \A v \in Workers \ {w} : ~WrittenBy(v, x)
    BY <1>1 DEF RowInv, Unwritten
  <1>3. \A v \in Workers, e \in Exec : OwnRow(v, e)'
    BY <1>1, <1>2 DEF RowInv, OwnRow, WrittenBy, Committed
  <1>4. \A e \in Exec : CommittedRow(e)' /\ SchedulerRow(e)'
    BY ExecutionAssumption DEF RowInv, CommittedRow, SchedulerRow, WrittenBy, Committed
  <1>5. ASSUME NEW v \in Workers PROVE Unwritten(v)'
    <2>1. CASE v = w
      BY <1>1, <2>1, ExecParts DEF RowInv, Unwritten, Busy, WrittenBy, Committed
    <2>2. CASE v # w
      BY <1>1, <2>2, <1>5, ExecParts DEF RowInv, Unwritten, Busy, WrittenBy, Committed
    <2> QED
      BY <2>1, <2>2
  <1> QED
    BY <1>3, <1>4, <1>5 DEF RowInv

LEMMA BeginRows ==
    ASSUME TypeInv, RowInv, NEW w \in Workers, Begin(w) PROVE RowInv'
  <1> DEFINE e == current[w]
  <1>1. /\ at[w] = "begin" /\ UNCHANGED <<work, db, current>>
        /\ \A v \in Workers \ {w} : at'[v] = at[v]
        /\ at'[w] \in {"running", "commit"}
    BY DEF Begin, Goto, TypeInv, TypeOK
  <1>2. session'[w] \in {MarkBlocked(w, e), Stored(session[w], e, "started"),
                         session[w]}
          /\ \A v \in Processes \ {w} : session'[v] = session[v]
    BY DEF Begin, Processes, TypeInv, TypeOK
  <1>3. \A x \in Exec \ {e} :
          /\ MarkBlocked(w, e).rows[x] = session[w].rows[x]
          /\ Stored(session[w], e, "started").rows[x] = session[w].rows[x]
    BY DEF MarkBlocked, Stored, TypeInv, TypeOK, Tables, Processes
  <1> QED
    BY <1>1, <1>2, <1>3, OwnWrite DEF Busy, Processes

LEMMA ReturnRows ==
    ASSUME TypeInv, RowInv, NEW w \in Workers, NEW answer \in ExecutorAnswers,
           ExecutorReturns(w, answer)
    PROVE  RowInv'
  <1> DEFINE e == current[w]
             audited == Audited(session[w], e, StatusFrom(answer))
  <1>1. /\ at[w] = "running" /\ UNCHANGED <<work, db, current>>
        /\ \A v \in Workers \ {w} : at'[v] = at[v]
        /\ at'[w] \in {"running", "commit"}
    BY DEF ExecutorReturns, Goto, TypeInv, TypeOK
  <1>2. session'[w] \in {Stored(audited, e, StatusFrom(answer)), audited}
          /\ \A v \in Processes \ {w} : session'[v] = session[v]
    BY DEF ExecutorReturns, Processes, TypeInv, TypeOK
  <1>3. session[w] \in Tables
    BY DEF TypeInv, TypeOK, Processes
  <1>4. audited.rows = session[w].rows /\ audited \in Tables
    <2>1. StatusFrom(answer) \in ExecutionStatus /\ e \in Exec
      BY StatusFromType, ExecutionAssumption
         DEF ExecutorReturns, TypeInv, AtWork
    <2> QED
      BY <1>3, <2>1, AuditType DEF Audited, Tables
  <1>5. \A x \in Exec \ {e} :
          Stored(audited, e, StatusFrom(answer)).rows[x] = session[w].rows[x]
    <2> HIDE DEF audited
    <2> QED
      BY <1>4 DEF Stored, Tables
  <1> QED
    BY <1>1, <1>2, <1>4, <1>5, OwnWrite DEF Busy, Processes

LEMMA RaiseRows ==
    ASSUME TypeInv, RowInv, NEW w \in Workers, NEW answer \in ExecutorAnswers,
           ExecutorRaises(w, answer)
    PROVE  RowInv'
  <1> DEFINE e == current[w]
  <1>1. e \in Attempted /\ e.command \in Commands /\ e.attempt \in Nat
    BY ExecParts DEF TypeInv, AtWork, Busy, ExecutorRaises
  <1>2. CASE ~(e.attempt < MaxAttempts)
    <2>1. /\ UNCHANGED <<db, session>>
          /\ work' = [work EXCEPT ![e.command] = "dead"]
          /\ at' = [at EXCEPT ![w] = "idle"]
          /\ current' = [current EXCEPT ![w] = None]
      BY <1>2 DEF ExecutorRaises, Goto
    <2>2. \A c \in Commands : work'[c] = "queued" => work[c] = "queued"
      BY <2>1 DEF TypeInv, TypeOK
    <2>3. \A v \in Workers : Busy(v)' => at'[v] = at[v] /\ current'[v] = current[v]
      BY <2>1 DEF Busy, TypeInv, TypeOK
    <2> QED
      BY <2>1, <2>2, <2>3, RowsKept
  <1>3. CASE e.attempt < MaxAttempts
    <2>1. /\ UNCHANGED <<db, session, work>> /\ at[w] = "running"
          /\ at' = [at EXCEPT ![w] = "begin"]
          /\ current' = [current EXCEPT ![w].attempt = @ + 1]
      BY <1>3 DEF ExecutorRaises, Goto
    <2>2. /\ current'[w].command = e.command
          /\ current'[w].attempt = e.attempt + 1
          /\ at'[w] = "begin"
          /\ \A v \in Workers \ {w} : at'[v] = at[v] /\ current'[v] = current[v]
      BY <1>1, <2>1 DEF TypeInv, TypeOK, Attempted
    <2>3. \A x \in Attempted :
            x.command = e.command /\ x.attempt >= e.attempt + 1 =>
              ~Committed(x) /\ \A v \in Workers : ~WrittenBy(v, x)
      <3>1. \A x \in Attempted : x.attempt >= e.attempt + 1 =>
              x.attempt >= e.attempt /\ x # e
        BY <1>1, ExecParts
      <3> QED
        BY <2>1, <3>1 DEF RowInv, Unwritten, Busy
    <2>4. \A v \in Workers, x \in Exec : OwnRow(v, x)'
      BY <2>1 DEF RowInv, OwnRow, WrittenBy, Committed
    <2>5. \A x \in Exec : CommittedRow(x)' /\ SchedulerRow(x)'
      BY <2>1 DEF RowInv, CommittedRow, SchedulerRow, WrittenBy, Committed
    <2>6. ASSUME NEW v \in Workers PROVE Unwritten(v)'
      <3>1. CASE v = w
        BY <2>1, <2>2, <2>3, <3>1 DEF RowInv, Unwritten, Busy, WrittenBy, Committed
      <3>2. CASE v # w
        BY <2>1, <2>2, <2>6, <3>2 DEF RowInv, Unwritten, Busy, WrittenBy, Committed
      <3> QED
        BY <3>1, <3>2
    <2> QED
      BY <2>4, <2>5, <2>6 DEF RowInv
  <1> QED
    BY <1>2, <1>3

LEMMA CommitRows ==
    ASSUME TypeInv, RowInv, NEW w \in Workers, Commit(w) PROVE RowInv'
  <1>1. /\ at[w] = "commit" /\ at' = [at EXCEPT ![w] = "idle"]
        /\ current' = [current EXCEPT ![w] = None]
        /\ session' = [session EXCEPT ![w] = NoRows] /\ db' = Flushed(w)
    BY DEF Commit, Goto
  <1>2. \A c \in Commands : work'[c] = "queued" => work[c] = "queued"
    BY DEF Commit, TypeInv, TypeOK
  <1>3. /\ \A e \in Exec : ~WrittenBy(w, e)'
        /\ \A v \in Processes \ {w} : session'[v] = session[v]
    BY <1>1 DEF WrittenBy, NoRows, TypeInv, TypeOK, Processes
  <1>4. \A e \in Exec : db'.rows[e] = IF WrittenBy(w, e) THEN session[w].rows[e]
                                      ELSE db.rows[e]
    BY <1>1 DEF Flushed, WrittenBy
  <1>5. \A v \in Workers : Busy(v)' =>
          v # w /\ Busy(v) /\ at'[v] = at[v] /\ current'[v] = current[v]
    BY <1>1 DEF Busy, TypeInv, TypeOK
  <1>6. \A v \in Workers, e \in Exec : OwnRow(v, e)'
    BY <1>2, <1>3, <1>4, ExecParts
       DEF RowInv, OwnRow, WrittenBy, Committed, Processes
  <1>7. \A e \in Exec : CommittedRow(e)'
    BY <1>2, <1>4, ExecParts DEF RowInv, OwnRow, CommittedRow, WrittenBy, Committed
  <1>8. \A e \in Exec : SchedulerRow(e)'
    BY <1>3, <1>4, ExecutionAssumption
       DEF RowInv, OwnRow, SchedulerRow, WrittenBy, Committed, Processes
  <1>9. \A v \in Workers : Unwritten(v)'
    BY <1>3, <1>4, <1>5, ExecParts
       DEF RowInv, Unwritten, WrittenBy, Committed, Processes
  <1> QED
    BY <1>6, <1>7, <1>8, <1>9 DEF RowInv

LEMMA CrashRows ==
    ASSUME TypeInv, RowInv, NEW w \in Workers, Crash(w) PROVE RowInv'
  <1>1. \A v \in Workers, e \in Exec :
          session'[v].rows[e] \in {Absent, session[v].rows[e]}
    BY DEF Crash, NoRows, TypeInv, TypeOK, Processes
  <1>2. session'[Scheduler] = session[Scheduler]
    BY ExecutionAssumption DEF Crash, TypeInv, TypeOK, Processes
  <1>3. \A c \in Commands : work'[c] = "queued" => work[c] = "queued"
    BY DEF Crash, TypeInv, TypeOK
  <1>4. \A v \in Workers : Busy(v)' => at'[v] = at[v] /\ current'[v] = current[v]
    BY DEF Crash, Goto, Busy, TypeInv, TypeOK
  <1> QED
    BY <1>1, <1>2, <1>3, <1>4, RowsKept DEF Crash

LEMMA RequestRows ==
    ASSUME TypeInv, RowInv, NEW w \in Workers,
           \/ JournalPullRequest(w)
           \/ \E e \in Targets : VerifyExecution(w, e) \/ CreatePullRequest(w, e)
    PROVE  RowInv'
  <1>1. \A v \in Workers : Busy(v)' => at'[v] = at[v] /\ current'[v] = current[v]
    BY DEF JournalPullRequest, VerifyExecution, CreatePullRequest, Goto, Busy,
           TypeInv, TypeOK
  <1>2. \A p \in Processes : session'[p].rows = session[p].rows
    <2>1. CASE JournalPullRequest(w)
      BY <2>1 DEF JournalPullRequest, TypeInv, TypeOK, Tables
    <2>2. ASSUME NEW e \in Targets, VerifyExecution(w, e)
          PROVE  \A p \in Processes : session'[p].rows = session[p].rows
      BY <2>2 DEF VerifyExecution, TypeInv, TypeOK, Tables
    <2>3. ASSUME NEW e \in Targets, CreatePullRequest(w, e)
          PROVE  \A p \in Processes : session'[p].rows = session[p].rows
      BY <2>3 DEF CreatePullRequest
    <2> QED
      BY <2>1, <2>2, <2>3
  <1>3. UNCHANGED <<db, work>>
    BY DEF JournalPullRequest, VerifyExecution, CreatePullRequest
  <1> QED
    BY <1>1, <1>2, <1>3, RowsKept DEF Processes

LEMMA ElsewhereRows ==
    ASSUME TypeInv, RowInv,
           \/ StartExecution
           \/ \E e \in Targets : RecordResult(e) \/ PullRequestRoute(e)
           \/ \E e \in Targets, input \in VerifyRequests : VerifyRoute(e, input)
           \/ \E e \in Exec : BecomesOverdue(e)
           \/ UNCHANGED vars
    PROVE  RowInv'
  <1>1. UNCHANGED <<db, work, at, current>>
    BY DEF StartExecution, RecordResult, PullRequestRoute, VerifyRoute,
           BecomesOverdue, vars
  <1>2. \A p \in Processes \ {API} : session'[p] = session[p]
    BY DEF StartExecution, Save, RecordResult, PullRequestRoute, VerifyRoute,
           BecomesOverdue, vars, TypeInv, TypeOK
  <1> QED
    BY <1>1, <1>2, RowsKept, ExecutionAssumption DEF Processes

LEMMA SchedulerRows ==
    ASSUME TypeInv, RowInv, ReconcileDocumentation \/ DetectStuckExecutions
    PROVE  RowInv'
  <1>1. UNCHANGED <<work, at, current>>
          /\ \A w \in Workers : session'[w] = session[w]
    BY ExecutionAssumption DEF ReconcileDocumentation, DetectStuckExecutions,
       TypeInv, TypeOK, Processes
  <1>2. \A e \in Exec : SchedulerRow(e) /\ CommittedRow(e)
    BY DEF RowInv
  <1>3. CASE ReconcileDocumentation
    <2>1. \/ UNCHANGED <<db, session>>
          \/ db' = Flushed(Scheduler) /\ session' = [session EXCEPT ![Scheduler] = NoRows]
      BY <1>3 DEF ReconcileDocumentation, TypeInv, TypeOK
    <2>2. CASE UNCHANGED <<db, session>>
      BY <1>1, <2>2, RowsKept
    <2>3. CASE db' = Flushed(Scheduler)
                 /\ session' = [session EXCEPT ![Scheduler] = NoRows]
      <3>1. \A e \in Exec : db'.rows[e] = IF WrittenBy(Scheduler, e) THEN "blocked"
                                          ELSE db.rows[e]
        BY <1>2, <2>3 DEF Flushed, SchedulerRow, WrittenBy
      <3>2. \A e \in Exec : db'.rows[e] # Absent <=> db.rows[e] # Absent
        BY <1>2, <3>1, ExecutionAssumption
           DEF SchedulerRow, Committed, ExecutionStatus
      <3>3. \A e \in Exec : ~WrittenBy(Scheduler, e)'
        BY <2>3 DEF WrittenBy, NoRows, TypeInv, TypeOK, Processes
      <3>4. \A w \in Workers, e \in Exec : OwnRow(w, e)'
        BY <1>1, <3>2 DEF RowInv, OwnRow, WrittenBy, Committed
      <3>5. \A e \in Exec : CommittedRow(e)' /\ SchedulerRow(e)'
        BY <1>1, <3>2, <3>3 DEF RowInv, CommittedRow, SchedulerRow, Committed
      <3>6. \A w \in Workers : Unwritten(w)'
        BY <1>1, <3>2, ExecParts DEF RowInv, Unwritten, Busy, WrittenBy, Committed
      <3> QED
        BY <3>4, <3>5, <3>6 DEF RowInv
    <2> QED
      BY <2>1, <2>2, <2>3
  <1>4. CASE DetectStuckExecutions
    <2>1. db' = db /\ \A e \in Exec : session'[Scheduler].rows[e] =
            IF e \in Stuck THEN "blocked" ELSE session[Scheduler].rows[e]
      BY <1>4 DEF DetectStuckExecutions, TypeInv, TypeOK, Tables, Processes
    <2>2. \A e \in Stuck : Committed(e) /\ db.rows[e] \in InProgress
      <3>1. ASSUME NEW e \in Stuck
            PROVE  e \in Exec /\ db.rows[e] \in InProgress
        <4>1. e \in Exec /\ View(Scheduler, e) \in InProgress
          BY DEF Stuck, TypeInv, TypeOK
        <4>2. ~WrittenBy(Scheduler, e)
          BY <1>2, <4>1 DEF View, Flushed, SchedulerRow, WrittenBy, InProgress
        <4> QED
          BY <4>1, <4>2 DEF View, Flushed, WrittenBy
      <3> QED
        BY <3>1, ExecutionAssumption DEF InProgress, Committed, ExecutionStatus
    <2>3. \A w \in Workers, e \in Exec : OwnRow(w, e)'
      BY <1>1, <2>1 DEF RowInv, OwnRow, WrittenBy, Committed
    <2>4. \A e \in Exec : CommittedRow(e)' /\ SchedulerRow(e)'
      BY <1>1, <2>1, <2>2, <1>2 DEF CommittedRow, SchedulerRow, Committed, WrittenBy
    <2>5. \A w \in Workers : Unwritten(w)'
      BY <1>1, <2>1, ExecParts DEF RowInv, Unwritten, Busy, WrittenBy, Committed
    <2> QED
      BY <2>3, <2>4, <2>5 DEF RowInv
  <1> QED
    BY <1>3, <1>4

LEMMA RowStep == ASSUME TypeInv, RowInv, [Next]_vars PROVE RowInv'
  BY TakeRows, BeginRows, ReturnRows, RaiseRows, CommitRows, CrashRows, RequestRows,
     ElsewhereRows, SchedulerRows DEF Next, Step

\* Only a commit changes committed rows, and it changes none that ended.
LEMMA EndedStays ==
    ASSUME TypeInv, RowInv, [Next]_vars, NEW e \in Exec, db.rows[e] \in Terminal
    PROVE  db'.rows[e] = db.rows[e]
  <1>1. Committed(e) /\ ~WrittenBy(Scheduler, e) /\ \A w \in Workers : ~WrittenBy(w, e)
    BY ExecutionAssumption
       DEF RowInv, OwnRow, SchedulerRow, Committed, Terminal, InProgress, ExecutionStatus
  <1>2. CASE \E w \in Workers : Commit(w)
    BY <1>1, <1>2 DEF Commit, Flushed, WrittenBy
  <1>3. CASE ReconcileDocumentation
    BY <1>1, <1>3 DEF ReconcileDocumentation, Flushed, WrittenBy
  <1>4. CASE ~(\E w \in Workers : Commit(w)) /\ ~ReconcileDocumentation
    BY <1>4 DEF Next, Step, vars, Take, Begin, ExecutorReturns, ExecutorRaises,
       JournalPullRequest, Crash, VerifyExecution, CreatePullRequest, RecordResult,
       StartExecution, VerifyRoute, PullRequestRoute, BecomesOverdue,
       DetectStuckExecutions
  <1> QED
    BY <1>2, <1>3, <1>4

\* An execution that was committed as completed, failed or cancelled stays so:
\* neither the stuck check nor a repeated command rewrites it.
THEOREM EndedExecutionsAreFinal == ExecSpec => EndedIsFinal
  <1>1. TypeInv /\ RowInv /\ [Next]_vars =>
          [\A e \in Exec : db.rows[e] \in Terminal => db'.rows[e] = db.rows[e]]_vars
    BY EndedStays
  <1> QED
    BY <1>1, TypeInit, TypeStep, RowInit, RowStep, PTL DEF ExecSpec, EndedIsFinal
-----------------------------------------------------------------------------
(* Acknowledged commands.  The worker that holds a command is the only one  *)
(* with rows of it in its session, and when it comes to commit them, row    *)
(* and audit event of the last attempt agree.                               *)

Holding(w) == current[w] \in Attempted /\ work[current[w].command] = "held"
Known(e) == ItemOf[e.command] \in KnownItems

\* Row and audit event of the execution at hand, in the session.
Flushes(w) ==
    \E s \in ExecutionStatus : /\ <<current[w], s>> \in session[w].audit
                               /\ session[w].rows[current[w]] = s

HolderInv(w) ==
    /\ Holding(w) => at[w] \in {"begin", "running", "commit"}
    /\ Busy(w) => Holding(w)
    /\ current[w] \in Attempted => work[current[w].command] # "queued"
    /\ \A v \in Workers \ {w} :
         Holding(v) /\ Holding(w) => current[v].command # current[w].command

SessionInv(w) ==
    /\ \A e \in Exec : WrittenBy(w, e) /\ work[e.command] = "held" =>
         Holding(w) /\ current[w].command = e.command
    /\ at[w] = "running" /\ Known(current[w]) => WrittenBy(w, current[w])
    /\ at[w] = "commit" /\ Holding(w) /\ Known(current[w]) => Flushes(w)

RecordInv ==
    /\ \A w \in Workers : HolderInv(w) /\ SessionInv(w)
    /\ \A e \in Exec : Committed(e) => work[e.command] # "held"
    /\ \A e \in results : Committed(e)
    /\ AcknowledgedIsRecorded

\* A record stays one while audit events are kept and committed rows are only
\* blocked, and a command that becomes acknowledged brings one.
LEMMA AcknowledgedStep ==
    ASSUME AcknowledgedIsRecorded,
           db.audit \subseteq db'.audit,
           \A e \in Exec : db.rows[e] \in ExecutionStatus =>
              \/ db'.rows[e] = db.rows[e]
              \/ db.rows[e] \in InProgress /\ db'.rows[e] = "blocked",
           \A c \in Commands :
              work'[c] = "done" /\ work[c] # "done" /\ ItemOf[c] \in KnownItems =>
                \E e \in Attempted, s \in ExecutionStatus :
                   e.command = c /\ <<e, s>> \in db'.audit /\ db'.rows[e] = s
    PROVE  AcknowledgedIsRecorded'
  <1> SUFFICES ASSUME NEW c \in Commands, work'[c] = "done", ItemOf[c] \in KnownItems
               PROVE  \E e \in Attempted, s \in ExecutionStatus :
                        /\ e.command = c
                        /\ <<e, s>> \in db'.audit
                        /\ \/ db'.rows[e] = s
                           \/ s \in InProgress /\ db'.rows[e] = "blocked"
    BY DEF AcknowledgedIsRecorded
  <1>1. CASE work[c] = "done"
    <2>1. PICK e \in Attempted, s \in ExecutionStatus :
                 /\ e.command = c
                 /\ <<e, s>> \in db.audit
                 /\ db.rows[e] = s \/ (s \in InProgress /\ db.rows[e] = "blocked")
      BY <1>1 DEF AcknowledgedIsRecorded
    <2>2. db.rows[e] \in ExecutionStatus /\ e \in Exec
      BY <2>1, ExecParts DEF ExecutionStatus
    <2>3. db'.rows[e] = s \/ (s \in InProgress /\ db'.rows[e] = "blocked")
      BY <2>1, <2>2 DEF InProgress
    <2> QED
      BY <2>1, <2>3
  <1>2. CASE work[c] # "done"
    BY <1>2
  <1> QED
    BY <1>1, <1>2

LEMMA RecordInit == ASSUME Init PROVE RecordInv
  <1>1. \A w \in Workers : at[w] = "idle" /\ current[w] \notin Attempted
    BY ExecParts, ExecutionAssumption DEF Init
  <1>2. \A e \in Exec : /\ ~Committed(e)
                        /\ \A w \in Workers : ~WrittenBy(w, e)
    BY DEF Init, WrittenBy, Committed, NoRows, Processes
  <1>3. AcknowledgedIsRecorded
    BY DEF Init, AcknowledgedIsRecorded
  <1> QED
    BY <1>1, <1>2, <1>3 DEF RecordInv, HolderInv, SessionInv, Busy, Holding, Init

\* Steps that move no worker, or one that has no command.
LEMMA RecordKept ==
    ASSUME TypeInv, RecordInv, work' = work, results' \subseteq Exec,
           \A e \in Exec : Committed(e)' <=> Committed(e),
           \A e \in results' : Committed(e),
           AcknowledgedIsRecorded',
           \A w \in Workers : session'[w].rows = session[w].rows
                                /\ session'[w].audit = session[w].audit,
           \A w \in Workers :
              \/ at'[w] = at[w] /\ current'[w] = current[w]
              \/ /\ ~Holding(w) /\ at'[w] \notin {"begin", "running"}
                 /\ current'[w] \in Attempted =>
                      work[current'[w].command] \notin {"queued", "held"}
    PROVE  RecordInv'
  <1>1. \A w \in Workers : Holding(w)' =>
          Holding(w) /\ at'[w] = at[w] /\ current'[w] = current[w]
    BY DEF Holding
  <1>2. ASSUME NEW w \in Workers PROVE HolderInv(w)'
    BY <1>1, <1>2 DEF RecordInv, HolderInv, Holding, Busy
  <1>3. ASSUME NEW w \in Workers PROVE SessionInv(w)'
    <2>1. CASE at'[w] = at[w] /\ current'[w] = current[w]
      <3>1. \A e \in Exec : WrittenBy(w, e)' <=> WrittenBy(w, e)
        BY <1>3 DEF WrittenBy
      <3>2. Holding(w)' <=> Holding(w)
        BY <2>1 DEF Holding
      <3>3. Flushes(w)' <=> Flushes(w)
        BY <1>3, <2>1 DEF Flushes
      <3>4. SessionInv(w)
        BY <1>3 DEF RecordInv
      <3>5. WrittenBy(w, current[w])' <=> WrittenBy(w, current[w])
        BY <1>3, <2>1 DEF WrittenBy
      <3> QED
        BY <2>1, <3>1, <3>2, <3>3, <3>4, <3>5 DEF SessionInv, Known
    <2>2. CASE ~Holding(w) /\ ~Holding(w)' /\ at'[w] # "running"
      BY <1>3, <2>2 DEF RecordInv, SessionInv, WrittenBy
    <2> QED
      BY <2>1, <2>2 DEF Holding
  <1> QED
    BY <1>2, <1>3 DEF RecordInv

\* A worker inside EXECUTE_WORK_ITEM writes about its own execution.
LEMMA OwnRecord ==
    ASSUME TypeInv, RecordInv, NEW w \in Workers, Busy(w),
           UNCHANGED <<work, db, current, results>>,
           \A v \in Workers \ {w} : at'[v] = at[v] /\ session'[v] = session[v],
           \A e \in Exec \ {current[w]} :
              session'[w].rows[e] = session[w].rows[e],
           \/ at'[w] = "running"
                /\ (Known(current[w]) => WrittenBy(w, current[w])')
           \/ at'[w] = "commit" /\ (Known(current[w]) => Flushes(w)')
    PROVE  RecordInv'
  <1>1. Holding(w) /\ \A v \in Workers : Holding(v)' <=> Holding(v)
    BY DEF RecordInv, HolderInv, Holding
  <1>2. ASSUME NEW v \in Workers PROVE HolderInv(v)'
    BY <1>1, <1>2 DEF RecordInv, HolderInv, Busy
  <1>3. ASSUME NEW v \in Workers PROVE SessionInv(v)'
    <2>1. CASE v = w
      BY <1>1, <2>1 DEF RecordInv, SessionInv, Known, WrittenBy
    <2>2. CASE v # w
      <3>1. /\ \A e \in Exec : WrittenBy(v, e)' <=> WrittenBy(v, e)
            /\ WrittenBy(v, current[v])' <=> WrittenBy(v, current[v])
        BY <1>3, <2>2 DEF WrittenBy
      <3>2. Flushes(v)' <=> Flushes(v)
        BY <1>3, <2>2 DEF Flushes
      <3>3. SessionInv(v)
        BY <1>3 DEF RecordInv
      <3> QED
        BY <1>1, <1>3, <2>2, <3>1, <3>2, <3>3 DEF SessionInv, Known
    <2> QED
      BY <2>1, <2>2
  <1>4. AcknowledgedIsRecorded'
    BY AcknowledgedStep DEF RecordInv
  <1> QED
    BY <1>2, <1>3, <1>4 DEF RecordInv, Committed

LEMMA TakeRecord ==
    ASSUME TypeInv, RowInv, RecordInv, NEW w \in Workers, NEW c \in Commands,
           Take(w, c)
    PROVE  RecordInv'
  <1> DEFINE x == [command |-> c, attempt |-> 1]
  <1>1. /\ work[c] = "queued" /\ work' = [work EXCEPT ![c] = "held"]
        /\ current' = [current EXCEPT ![w] = x]
        /\ at' = [at EXCEPT ![w] = "begin"] /\ at[w] = "idle"
        /\ UNCHANGED <<db, session, results>>
    BY DEF Take, Goto
  <1>2. x \in Attempted /\ x.command = c /\ work'[c] = "held"
    BY <1>1, ExecutionAssumption DEF Attempted, TypeInv, TypeOK
  <1>3. \A d \in Commands \ {c} : work'[d] = work[d]
    BY <1>1 DEF TypeInv, TypeOK
  <1>4. \A v \in Workers \ {w} : at'[v] = at[v] /\ current'[v] = current[v]
    BY <1>1 DEF TypeInv, TypeOK
  <1>5. at'[w] = "begin" /\ current'[w] = x /\ Holding(w)' /\ ~Holding(w)
    BY <1>1, <1>2 DEF TypeInv, TypeOK, Holding, RecordInv, HolderInv
  <1>6. \A v \in Workers \ {w} : (Holding(v)' => Holding(v) \/ current[v].command = c)
    BY <1>3, <1>4, ExecParts DEF Holding
  <1>7. \A v \in Workers, e \in Exec : WrittenBy(v, e) => e \in Attempted /\ e.command # c
    BY <1>1 DEF RowInv, OwnRow
  <1>8. \A e \in Exec : Committed(e) => e \in Attempted /\ e.command # c
    BY <1>1 DEF RowInv, CommittedRow
  <1>9. ASSUME NEW v \in Workers PROVE HolderInv(v)'
    <2>1. CASE v = w
      <3>1. \A u \in Workers \ {w} : Holding(u)' => current'[u].command # c
        BY <1>1, <1>4 DEF RecordInv, HolderInv, Holding
      <3> QED
        BY <1>2, <1>5, <2>1, <3>1 DEF HolderInv, Holding
    <2>2. CASE v # w
      BY <1>1, <1>2, <1>3, <1>4, <1>5, <1>9, <2>2, ExecParts
         DEF RecordInv, HolderInv, Holding, Busy
    <2> QED
      BY <2>1, <2>2
  <1>10. ASSUME NEW v \in Workers PROVE SessionInv(v)'
    <2>1. CASE v = w
      BY <1>1, <1>3, <1>5, <1>7, <2>1, ExecParts
         DEF RecordInv, SessionInv, WrittenBy
    <2>2. CASE v # w
      <3>1. current[v] \in Attempted => current[v].command # c
        BY <1>1, <1>10 DEF RecordInv, HolderInv
      <3>2. Holding(v)' <=> Holding(v)
        BY <1>3, <1>4, <2>2, <1>10, <3>1, ExecParts DEF Holding
      <3>3. /\ \A e \in Exec : WrittenBy(v, e)' <=> WrittenBy(v, e)
            /\ WrittenBy(v, current[v])' <=> WrittenBy(v, current[v])
            /\ Flushes(v)' <=> Flushes(v)
        BY <1>1, <1>4, <1>10, <2>2 DEF WrittenBy, Flushes
      <3>4. SessionInv(v)
        BY <1>10 DEF RecordInv
      <3> QED
        BY <1>3, <1>4, <1>7, <1>10, <2>2, <3>2, <3>3, <3>4, ExecParts
           DEF SessionInv, Known
    <2> QED
      BY <2>1, <2>2
  <1>11. \A e \in Exec : Committed(e)' => work'[e.command] # "held"
    BY <1>1, <1>3, <1>8, ExecParts DEF RecordInv, Committed
  <1>12. AcknowledgedIsRecorded'
    BY <1>1, <1>2, <1>3, AcknowledgedStep DEF RecordInv
  <1> QED
    BY <1>1, <1>9, <1>10, <1>11, <1>12 DEF RecordInv, Committed

LEMMA BeginRecord ==
    ASSUME TypeInv, RecordInv, NEW w \in Workers, Begin(w) PROVE RecordInv'
  <1> DEFINE e == current[w]
             blocked == Repository(e) # NoRepository /\ ~Free(w, Repository(e))
  <1>1. /\ at[w] = "begin" /\ UNCHANGED <<work, db, current, results>>
        /\ \A v \in Workers \ {w} : at'[v] = at[v] /\ session'[v] = session[v]
        /\ w \in Processes /\ session[w] \in Tables
    BY DEF Begin, Goto, TypeInv, TypeOK, Processes
  <1>2. e \in Attempted /\ e \in Exec /\ ItemOfExec(e) = ItemOf[e.command]
    BY <1>1, ExecParts DEF TypeInv, AtWork, Busy, ItemOfExec
  <1>3. CASE blocked
    <2>1. at'[w] = "commit" /\ session'[w] = MarkBlocked(w, e)
      BY <1>1, <1>3 DEF Begin, Goto, TypeInv, TypeOK
    <2>2. \A x \in Exec \ {e} : MarkBlocked(w, e).rows[x] = session[w].rows[x]
      BY <1>1 DEF MarkBlocked, Tables
    <2>3. /\ <<e, "blocked">> \in MarkBlocked(w, e).audit
          /\ Known(e) => MarkBlocked(w, e).rows[e] = "blocked"
      BY <1>1, <1>2 DEF MarkBlocked, Tables, Known
    <2>4. Known(e) => Flushes(w)'
      BY <1>1, <2>1, <2>3 DEF Flushes, ExecutionStatus
    <2> QED
      BY <1>1, <2>1, <2>2, <2>4, OwnRecord DEF Busy
  <1>4. CASE ~blocked
    <2>1. /\ at'[w] = "running"
          /\ session'[w] = IF Known(e) THEN Stored(session[w], e, "started")
                           ELSE session[w]
      BY <1>1, <1>2, <1>4 DEF Begin, Goto, TypeInv, TypeOK, Known
    <2>2. /\ \A x \in Exec \ {e} :
               Stored(session[w], e, "started").rows[x] = session[w].rows[x]
          /\ Stored(session[w], e, "started").rows[e] = "started"
      BY <1>1, <1>2 DEF Stored, Tables
    <2>3. Known(e) => WrittenBy(w, e)'
      BY <1>1, <2>1, <2>2, ExecutionAssumption DEF WrittenBy, ExecutionStatus
    <2> QED
      BY <1>1, <2>1, <2>2, <2>3, OwnRecord DEF Busy
  <1> QED
    BY <1>3, <1>4

\* A known item's execution has its row since Begin, so that the answer is
\* stored beside the audit event.
LEMMA ReturnRecord ==
    ASSUME TypeInv, RecordInv, NEW w \in Workers, NEW answer \in ExecutorAnswers,
           ExecutorReturns(w, answer)
    PROVE  RecordInv'
  <1> DEFINE e == current[w]
             s == StatusFrom(answer)
             audited == Audited(session[w], e, s)
  <1>1. /\ at[w] = "running" /\ UNCHANGED <<work, db, current, results>>
        /\ at'[w] = "commit"
        /\ \A v \in Workers \ {w} : at'[v] = at[v] /\ session'[v] = session[v]
        /\ w \in Processes /\ session[w] \in Tables
    BY DEF ExecutorReturns, Goto, TypeInv, TypeOK, Processes
  <1>2. e \in Exec /\ s \in ExecutionStatus
    BY <1>1, StatusFromType, ExecutionAssumption
       DEF ExecutorReturns, TypeInv, AtWork
  <1>3. /\ audited \in Tables /\ audited.rows = session[w].rows
        /\ <<e, s>> \in audited.audit
    BY <1>1, <1>2, AuditType DEF Audited, Tables
  <1>4. session'[w] = IF View(w, e) # Absent THEN Stored(audited, e, s) ELSE audited
    BY <1>1 DEF ExecutorReturns, TypeInv, TypeOK
  <1> HIDE DEF audited, s
  <1>5. /\ \A x \in Exec \ {e} : Stored(audited, e, s).rows[x] = session[w].rows[x]
        /\ Stored(audited, e, s).rows[e] = s
        /\ Stored(audited, e, s).audit = audited.audit
    BY <1>2, <1>3 DEF Stored, Tables
  <1>6. Known(e) => View(w, e) # Absent
    BY <1>1, <1>2 DEF RecordInv, SessionInv, WrittenBy, View, Flushed
  <1>7. Known(e) => Flushes(w)'
    BY <1>1, <1>2, <1>3, <1>4, <1>5, <1>6 DEF Flushes
  <1> QED
    BY <1>1, <1>3, <1>4, <1>5, <1>7, OwnRecord DEF Busy

\* A worker leaves its command behind: acknowledged, dead or lost.
LEMMA LeaveRecord ==
    ASSUME TypeInv, RowInv, RecordInv, NEW w \in Workers,
           NEW end \in {"done", "dead", "lost"},
           at' = [at EXCEPT ![w] = "idle"],
           current' = [current EXCEPT ![w] = None],
           \A c \in Commands :
              work'[c] = IF Holding(w) /\ c = current[w].command THEN end
                         ELSE work[c],
           \A v \in Workers \ {w} : session'[v] = session[v],
           \A e \in Exec : session'[w].rows[e] \in {Absent, session[w].rows[e]}
    PROVE  \A v \in Workers : HolderInv(v)' /\ SessionInv(v)'
  <1>1. /\ at'[w] = "idle" /\ current'[w] \notin Attempted
        /\ \A v \in Workers \ {w} : at'[v] = at[v] /\ current'[v] = current[v]
    BY ExecParts, ExecutionAssumption DEF TypeInv, TypeOK
  <1>2. \A v \in Workers \ {w} : Holding(v)' <=> Holding(v)
    BY <1>1, ExecParts DEF RecordInv, HolderInv, Holding
  <1>3. ~Holding(w)'
    BY <1>1 DEF Holding
  <1>4. ASSUME NEW v \in Workers PROVE HolderInv(v)'
    <2>1. CASE v = w
      BY <1>1, <1>3, <2>1 DEF HolderInv, Busy
    <2>2. CASE v # w
      BY <1>1, <1>2, <1>3, <1>4, <2>2, ExecParts DEF RecordInv, HolderInv, Busy
    <2> QED
      BY <2>1, <2>2
  <1>5. \A v \in Workers, e \in Exec :
          WrittenBy(v, e)' => WrittenBy(v, e) /\ e.command \in Commands
    BY ExecParts DEF RowInv, OwnRow, WrittenBy
  <1>6. ASSUME NEW v \in Workers PROVE SessionInv(v)'
    <2>1. SessionInv(v)
      BY <1>6 DEF RecordInv
    <2>2. CASE v = w
      <3>1. ASSUME NEW e \in Exec, WrittenBy(w, e)' PROVE work'[e.command] # "held"
        BY <1>5, <2>1, <2>2, <3>1 DEF SessionInv
      <3> QED
        BY <1>1, <2>2, <3>1 DEF SessionInv
    <2>3. CASE v # w
      <3>1. /\ \A e \in Exec : WrittenBy(v, e)' <=> WrittenBy(v, e)
            /\ WrittenBy(v, current[v])' <=> WrittenBy(v, current[v])
            /\ Flushes(v)' <=> Flushes(v)
        BY <1>1, <1>6, <2>3 DEF WrittenBy, Flushes
      <3>2. \A e \in Exec : WrittenBy(v, e) /\ work'[e.command] = "held" =>
              work[e.command] = "held"
        BY <1>5, <1>6, <3>1
      <3> QED
        BY <1>1, <1>2, <1>6, <2>1, <2>3, <3>1, <3>2 DEF SessionInv, Known
    <2> QED
      BY <2>2, <2>3
  <1> QED
    BY <1>4, <1>6

LEMMA RaiseRecord ==
    ASSUME TypeInv, RowInv, RecordInv, NEW w \in Workers,
           NEW answer \in ExecutorAnswers, ExecutorRaises(w, answer)
    PROVE  RecordInv'
  <1> DEFINE e == current[w]
  <1>1. /\ at[w] = "running" /\ UNCHANGED <<db, session, results>>
        /\ e \in Attempted /\ e.command \in Commands /\ Holding(w)
    BY ExecParts DEF ExecutorRaises, RecordInv, HolderInv, Busy, Holding
  <1>2. CASE ~(e.attempt < MaxAttempts)
    <2>1. /\ work' = [work EXCEPT ![e.command] = "dead"]
          /\ current' = [current EXCEPT ![w] = None]
          /\ at' = [at EXCEPT ![w] = "idle"]
      BY <1>2 DEF ExecutorRaises, Goto
    <2>2. \A c \in Commands : work'[c] = IF Holding(w) /\ c = e.command THEN "dead"
                                         ELSE work[c]
      BY <1>1, <2>1 DEF TypeInv, TypeOK
    <2>3. \A v \in Workers : HolderInv(v)' /\ SessionInv(v)'
      BY <1>1, <2>1, <2>2, LeaveRecord
    <2>4. \A x \in Exec : Committed(x)' => work'[x.command] # "held"
      BY <1>1, <2>2, ExecParts DEF RecordInv, RowInv, CommittedRow, Committed
    <2>5. AcknowledgedIsRecorded'
      BY <1>1, <2>2, AcknowledgedStep DEF RecordInv
    <2> QED
      BY <1>1, <2>3, <2>4, <2>5 DEF RecordInv, Committed
  <1>3. CASE e.attempt < MaxAttempts
    <2>1. /\ work' = work /\ at' = [at EXCEPT ![w] = "begin"]
          /\ current' = [current EXCEPT ![w].attempt = @ + 1]
      BY <1>3 DEF ExecutorRaises, Goto
    <2>2. /\ at'[w] = "begin" /\ current'[w].command = e.command
          /\ current'[w] \in Attempted
          /\ \A v \in Workers \ {w} : at'[v] = at[v] /\ current'[v] = current[v]
      BY <1>1, <1>3, <2>1, ExecutionAssumption DEF TypeInv, TypeOK, Attempted
    <2>3. \A v \in Workers : /\ Holding(v)' <=> Holding(v)
                             /\ Holding(v) => current'[v].command = current[v].command
      BY <1>1, <2>1, <2>2 DEF Holding
    <2>4. ASSUME NEW v \in Workers PROVE HolderInv(v)'
      <3>1. CASE v = w
        BY <1>1, <2>1, <2>2, <2>3, <3>1 DEF RecordInv, HolderInv, Holding
      <3>2. CASE v # w
        BY <2>1, <2>2, <2>3, <2>4, <3>2 DEF RecordInv, HolderInv, Busy
      <3> QED
        BY <3>1, <3>2
    <2>5. ASSUME NEW v \in Workers PROVE SessionInv(v)'
      <3>1. SessionInv(v) /\ \A x \in Exec : WrittenBy(v, x)' <=> WrittenBy(v, x)
        BY <1>1, <2>5 DEF RecordInv, WrittenBy
      <3>2. CASE v = w
        BY <2>1, <2>2, <2>3, <3>1, <3>2 DEF SessionInv
      <3>3. CASE v # w
        <4>1. /\ WrittenBy(v, current[v])' <=> WrittenBy(v, current[v])
              /\ Flushes(v)' <=> Flushes(v)
          BY <1>1, <2>2, <2>5, <3>3 DEF WrittenBy, Flushes
        <4> QED
          BY <2>1, <2>2, <2>3, <2>5, <3>1, <3>3, <4>1 DEF SessionInv, Known
      <3> QED
        BY <3>2, <3>3
    <2>6. AcknowledgedIsRecorded'
      BY <1>1, <2>1, AcknowledgedStep DEF RecordInv
    <2> QED
      BY <1>1, <2>1, <2>4, <2>5, <2>6 DEF RecordInv, Committed
  <1> QED
    BY <1>2, <1>3

LEMMA HoldsHolding ==
    ASSUME TypeInv, NEW w \in Workers, NEW c \in Commands
    PROVE  Holds(w, c) <=> Holding(w) /\ c = current[w].command
  BY DEF Holds, Holding

LEMMA CommitRecord ==
    ASSUME TypeInv, RowInv, RecordInv, NEW w \in Workers, Commit(w) PROVE RecordInv'
  <1> DEFINE x == current[w]
  <1>1. /\ at[w] = "commit" /\ at' = [at EXCEPT ![w] = "idle"] /\ results' = results
        /\ current' = [current EXCEPT ![w] = None]
        /\ session' = [session EXCEPT ![w] = NoRows] /\ db' = Flushed(w)
    BY DEF Commit, Goto
  <1>2. \A c \in Commands :
          work'[c] = IF Holding(w) /\ c = x.command THEN "done" ELSE work[c]
    BY HoldsHolding DEF Commit
  <1>3. /\ \A v \in Workers \ {w} : session'[v] = session[v]
        /\ \A e \in Exec : session'[w].rows[e] \in {Absent, session[w].rows[e]}
    BY <1>1 DEF TypeInv, TypeOK, Processes, NoRows
  <1>4. \A v \in Workers : HolderInv(v)' /\ SessionInv(v)'
    BY <1>1, <1>2, <1>3, LeaveRecord
  <1>5. \A e \in Exec : db'.rows[e] = IF WrittenBy(w, e) THEN session[w].rows[e]
                                      ELSE db.rows[e]
    BY <1>1 DEF Flushed, WrittenBy
  <1>6. ASSUME NEW e \in Exec, Committed(e)' PROVE work'[e.command] # "held"
    <2>1. Committed(e) \/ WrittenBy(w, e)
      BY <1>5, <1>6 DEF Committed
    <2>2. e.command \in Commands
      BY <1>6, <2>1, ExecParts DEF RowInv, OwnRow, CommittedRow
    <2>3. work[e.command] = "held" => Holding(w) /\ x.command = e.command
      BY <1>6, <2>1 DEF RecordInv, SessionInv
    <2> QED
      BY <1>2, <2>2, <2>3
  <1>7. \A e \in results' : Committed(e)'
    BY <1>1, <1>5 DEF RecordInv, Committed, WrittenBy, TypeInv, TypeOK
  <1>8. AcknowledgedIsRecorded'
    <2>1. db.audit \subseteq db'.audit /\ session[w].audit \subseteq db'.audit
      BY <1>1 DEF Flushed
    <2>2. \A e \in Exec : db.rows[e] \in ExecutionStatus => db'.rows[e] = db.rows[e]
      BY <1>5, ExecutionAssumption DEF RowInv, OwnRow, Committed
    <2>3. ASSUME NEW c \in Commands, work'[c] = "done", work[c] # "done",
                 ItemOf[c] \in KnownItems
          PROVE  \E e \in Attempted, s \in ExecutionStatus :
                   e.command = c /\ <<e, s>> \in db'.audit /\ db'.rows[e] = s
      <3>1. Holding(w) /\ c = x.command /\ x \in Attempted /\ x \in Exec
        BY <1>2, <2>3, ExecParts DEF Holding
      <3>2. Flushes(w)
        BY <1>1, <2>3, <3>1 DEF RecordInv, SessionInv, Known
      <3>3. PICK s \in ExecutionStatus : <<x, s>> \in session[w].audit
                                           /\ session[w].rows[x] = s
        BY <3>2 DEF Flushes
      <3>4. db'.rows[x] = s
        BY <1>5, <3>1, <3>3, ExecutionAssumption DEF WrittenBy
      <3> QED
        BY <2>1, <3>1, <3>3, <3>4
    <2> QED
      BY <2>1, <2>2, <2>3, AcknowledgedStep DEF RecordInv
  <1> QED
    BY <1>4, <1>6, <1>7, <1>8 DEF RecordInv

LEMMA CrashRecord ==
    ASSUME TypeInv, RowInv, RecordInv, NEW w \in Workers, Crash(w) PROVE RecordInv'
  <1>1. /\ at' = [at EXCEPT ![w] = "idle"] /\ UNCHANGED <<db, results>>
        /\ current' = [current EXCEPT ![w] = None]
        /\ session' = [session EXCEPT ![w] = NoRows]
    BY DEF Crash, Goto
  <1>2. \A c \in Commands :
          work'[c] = IF Holding(w) /\ c = current[w].command THEN "lost" ELSE work[c]
    BY HoldsHolding DEF Crash
  <1>3. /\ \A v \in Workers \ {w} : session'[v] = session[v]
        /\ \A e \in Exec : session'[w].rows[e] \in {Absent, session[w].rows[e]}
    BY <1>1 DEF TypeInv, TypeOK, Processes, NoRows
  <1>4. \A v \in Workers : HolderInv(v)' /\ SessionInv(v)'
    BY <1>1, <1>2, <1>3, LeaveRecord
  <1>5. \A e \in Exec : Committed(e)' => work'[e.command] # "held"
    BY <1>1, <1>2, ExecParts DEF RecordInv, RowInv, CommittedRow, Committed
  <1>6. AcknowledgedIsRecorded'
    BY <1>1, <1>2, AcknowledgedStep DEF RecordInv
  <1> QED
    BY <1>1, <1>4, <1>5, <1>6 DEF RecordInv, Committed

\* Requests, results, time and the stuck check, which commits nothing.
LEMMA RequestRecord ==
    ASSUME TypeInv, RowInv, RecordInv,
           \/ \E w \in Workers : JournalPullRequest(w)
           \/ \E w \in Workers, e \in Targets :
                VerifyExecution(w, e) \/ CreatePullRequest(w, e)
           \/ \E e \in Targets : RecordResult(e) \/ PullRequestRoute(e)
           \/ StartExecution
           \/ \E e \in Targets, input \in VerifyRequests : VerifyRoute(e, input)
           \/ \E e \in Exec : BecomesOverdue(e)
           \/ DetectStuckExecutions
           \/ UNCHANGED vars
    PROVE  RecordInv'
  <1>1. work' = work /\ db' = db
    BY DEF JournalPullRequest, VerifyExecution, CreatePullRequest, RecordResult,
       PullRequestRoute, StartExecution, VerifyRoute, BecomesOverdue,
       DetectStuckExecutions, vars
  <1>2. \A w \in Workers : session'[w].rows = session[w].rows
                             /\ session'[w].audit = session[w].audit
    <2>1. CASE \E w \in Workers : JournalPullRequest(w)
      BY <2>1 DEF JournalPullRequest, TypeInv, TypeOK, Tables, Processes
    <2>2. CASE \E w \in Workers, e \in Targets : VerifyExecution(w, e)
      BY <2>2 DEF VerifyExecution, TypeInv, TypeOK, Tables, Processes
    <2>3. CASE \/ \E w \in Workers, e \in Targets : CreatePullRequest(w, e)
               \/ \E e \in Targets : RecordResult(e) \/ PullRequestRoute(e)
               \/ \E e \in Exec : BecomesOverdue(e)
               \/ UNCHANGED vars
      BY <2>3 DEF CreatePullRequest, RecordResult, PullRequestRoute, BecomesOverdue,
         vars
    <2>4. CASE \/ StartExecution
               \/ \E e \in Targets, input \in VerifyRequests : VerifyRoute(e, input)
               \/ DetectStuckExecutions
      BY <2>4, ExecutionAssumption DEF StartExecution, Save, VerifyRoute,
         DetectStuckExecutions, TypeInv, TypeOK, Processes
    <2> QED
      BY <2>1, <2>2, <2>3, <2>4
  <1>3. results' \subseteq Exec /\ \A e \in results' : Committed(e)
    <2>1. CASE \E e \in Targets : RecordResult(e)
      BY <2>1, ExecutionAssumption DEF RecordResult, RecordInv, Committed, TypeInv,
         TypeOK, ExecutionStatus
    <2>2. CASE results' = results
      BY <2>2 DEF RecordInv, TypeInv, TypeOK
    <2> QED
      BY <2>1, <2>2 DEF JournalPullRequest, VerifyExecution, CreatePullRequest,
         PullRequestRoute, StartExecution, VerifyRoute, BecomesOverdue,
         DetectStuckExecutions, vars
  <1>4. AcknowledgedIsRecorded'
    BY <1>1, AcknowledgedStep DEF RecordInv
  <1>5. ASSUME NEW w \in Workers
        PROVE  \/ at'[w] = at[w] /\ current'[w] = current[w]
               \/ /\ ~Holding(w) /\ at'[w] \notin {"begin", "running"}
                  /\ current'[w] \in Attempted =>
                       work[current'[w].command] \notin {"queued", "held"}
    <2>1. ASSUME NEW v \in Workers, JournalPullRequest(v), v = w
          PROVE  ~Holding(w) /\ at'[w] = "commit" /\ current'[w] = current[w]
      BY <2>1 DEF JournalPullRequest, Goto, RecordInv, HolderInv, TypeInv, TypeOK
    <2>2. ASSUME NEW v \in Workers, NEW e \in Targets, VerifyExecution(v, e), v = w
          PROVE  ~Holding(w) /\ at'[w] = "commit" /\ current'[w] \notin Attempted
      BY <2>2, ExecParts
         DEF VerifyExecution, Goto, RecordInv, HolderInv, TypeInv, TypeOK
    <2>3. ASSUME NEW v \in Workers, NEW e \in Targets, CreatePullRequest(v, e), v = w
          PROVE  /\ ~Holding(w) /\ at'[w] = "journal"
                 /\ work[current'[w].command] \notin {"queued", "held"}
      <3>1. e \in Exec /\ Committed(e) /\ current'[w] = e
        BY <2>3, ExecutionAssumption
           DEF CreatePullRequest, RecordInv, TypeInv, TypeOK
      <3> QED
        BY <2>3, <3>1 DEF CreatePullRequest, Goto, RecordInv, HolderInv, RowInv,
           CommittedRow, TypeInv, TypeOK
    <2>4. CASE \E v \in Workers : JournalPullRequest(v)
      BY <1>5, <2>1, <2>4
         DEF JournalPullRequest, Goto, RecordInv, HolderInv, Holding, TypeInv, TypeOK
    <2>5. CASE \E v \in Workers, e \in Targets : VerifyExecution(v, e)
      BY <1>5, <2>2, <2>5 DEF VerifyExecution, Goto, TypeInv, TypeOK
    <2>6. CASE \E v \in Workers, e \in Targets : CreatePullRequest(v, e)
      BY <1>5, <2>3, <2>6 DEF CreatePullRequest, Goto, TypeInv, TypeOK
    <2> QED
      BY <2>4, <2>5, <2>6 DEF RecordResult, PullRequestRoute, StartExecution,
         VerifyRoute, BecomesOverdue, DetectStuckExecutions, vars
  <1>6. \A e \in Exec : Committed(e)' <=> Committed(e)
    BY <1>1 DEF Committed
  <1> QED
    BY <1>1, <1>2, <1>3, <1>4, <1>5, <1>6, RecordKept

\* The commit of the scheduler only blocks rows that were committed unfinished.
LEMMA ReconcileRecord ==
    ASSUME TypeInv, RowInv, RecordInv, ReconcileDocumentation PROVE RecordInv'
  <1>1. /\ UNCHANGED <<work, at, current, results>>
        /\ \A w \in Workers : session'[w] = session[w]
        /\ db' \in {db, Flushed(Scheduler)}
    BY ExecutionAssumption DEF ReconcileDocumentation, TypeInv, TypeOK, Processes
  <1>2. /\ db.audit \subseteq db'.audit
        /\ \A e \in Exec :
             \/ db'.rows[e] = db.rows[e]
             \/ db.rows[e] \in InProgress /\ db'.rows[e] = "blocked"
    BY <1>1 DEF Flushed, RowInv, SchedulerRow, WrittenBy
  <1>3. AcknowledgedIsRecorded'
    BY <1>1, <1>2, AcknowledgedStep DEF RecordInv
  <1>4. \A e \in Exec : Committed(e)' <=> Committed(e)
    BY <1>2, ExecutionAssumption DEF Committed, InProgress, ExecutionStatus
  <1> QED
    BY <1>1, <1>3, <1>4, RecordKept DEF RecordInv, TypeInv, TypeOK

LEMMA RecordStep ==
    ASSUME TypeInv, RowInv, RecordInv, [Next]_vars PROVE RecordInv'
  BY TakeRecord, BeginRecord, ReturnRecord, RaiseRecord, CommitRecord, CrashRecord,
     RequestRecord, ReconcileRecord DEF Next, Step

\* An acknowledged EXECUTE_WORK_ITEM of an item that exists has left the row and
\* the audit event of its last attempt, whatever attempts raised before, whatever
\* the other workers did with their sessions and whatever the scheduler committed.
THEOREM AcknowledgedRecorded == ExecSpec => []AcknowledgedIsRecorded
  <1>1. RecordInv => AcknowledgedIsRecorded
    BY DEF RecordInv
  <1> QED
    BY <1>1, TypeInit, TypeStep, RowInit, RowStep, RecordInit, RecordStep, PTL
       DEF ExecSpec
=============================================================================
