----------------------------- MODULE Executions -----------------------------
(***************************************************************************)
(* Executions, their repository locks, their verification and their pull   *)
(* requests: the EXECUTE_WORK_ITEM, VERIFY_EXECUTION and                   *)
(* CREATE_PULL_REQUEST handlers of command_handlers.py run by the workers, *)
(* the routes of the API process, and the scheduler's stuck-execution      *)
(* check.                                                                  *)
(*                                                                         *)
(* Every process holds one SQL session.  Its repositories flush into it;   *)
(* a worker commits after each successful command, the scheduler commits   *)
(* in reconcile_documentation, the API process never does.  A process sees *)
(* the committed rows and its own.  Locks live in the memory of each       *)
(* process.  The queue protocol and database errors are in WorkerLoop.     *)
(***************************************************************************)
EXTENDS ExecutionGates

CONSTANTS
    Workers, API, Scheduler,  \* the processes
    Commands,                 \* EXECUTE_WORK_ITEM commands
    ItemOf,                   \* the work item each command names
    KnownItems,               \* the items that have a row
    RepositoryOf,             \* the first repository of an item's project
    NoRepository,             \* the project has none
    Signals,                  \* item -> levels of risk words in its text
    PolicySet,                \* the configured policy rules
    ExecutorAnswers,          \* what the executor may answer in this instance
    Targets,                  \* executions that routes and operators name
    VerifyRequests,           \* inputs of the verify route
    HasSpaces,                \* some project has a documentation space
    MaxAttempts,              \* WorkerLoop(max_attempts=...)
    MaxRequests,              \* bound on routes and operator commands
    MaxCrashes,               \* bound on crashes
    Absent, None

Processes == Workers \cup {API, Scheduler}
Repositories == {RepositoryOf[i] : i \in KnownItems} \ {NoRepository}

\* An execution is new for every attempt of a command; the API creates one
\* per request, of which one is followed.
Attempted == [command : Commands, attempt : 1..MaxAttempts]
Requested == [command : {None}, attempt : {0}]
Exec == Attempted \cup Requested
RequestedExec == [command |-> None, attempt |-> 0]

ASSUME ExecutionAssumption ==
    /\ ItemOf \in [Commands -> KnownItems \cup {None}]
    /\ API \notin Workers /\ Scheduler \notin Workers /\ API # Scheduler
    /\ ExecutorAnswers \subseteq Answers
    /\ PolicySet \subseteq PolicyRule
    /\ Targets \subseteq Exec
    /\ MaxAttempts \in Nat \ {0}
    /\ {MaxRequests, MaxCrashes} \subseteq Nat
    /\ Absent \notin ExecutionStatus
    /\ None \notin Exec

VARIABLES
    work,      \* where each command is
    at,        \* where each worker is in the handler
    current,   \* the execution a worker works on, or None
    locks,     \* InMemoryWorkspaceLockStore of each worker
    session,   \* flushed, uncommitted writes of each process
    db,        \* committed tables
    results,   \* verification_results rows with verdict "pass"
    requests,  \* merge requests at the provider
    tick,      \* where the scheduler is in run()
    overdue,   \* executions started longer ago than the threshold
    asked,     \* requests so far
    crashes    \* crashes so far

vars == <<work, at, current, locks, session, db, results, requests, tick,
          overdue, asked, crashes>>

ItemOfExec(e) == IF e = RequestedExec THEN CHOOSE i \in KnownItems : TRUE
                 ELSE ItemOf[e.command]
Repository(e) == IF ItemOfExec(e) \in KnownItems
                 THEN RepositoryOf[ItemOfExec(e)] ELSE NoRepository

\* The tables a session may hold rows of: executions by id, audit events,
\* observations by their dedup_key, verification runs.
AuditRow == Exec \X ExecutionStatus
ObservationKey == {"blocked-lock", "stuck", "pr-created"} \X Exec
VerificationRun == Exec \X Verdict
Tables == [rows : [Exec -> ExecutionStatus \cup {Absent}],
           audit : SUBSET AuditRow, notes : SUBSET ObservationKey,
           runs : SUBSET VerificationRun]
NoRows == [rows |-> [e \in Exec |-> Absent], audit |-> {}, notes |-> {},
           runs |-> {}]

\* A session's writes laid over the committed tables.
Flushed(p) ==
    [rows |-> [e \in Exec |-> IF session[p].rows[e] # Absent
                              THEN session[p].rows[e] ELSE db.rows[e]],
     audit |-> db.audit \cup session[p].audit,
     notes |-> db.notes \cup session[p].notes,
     runs |-> db.runs \cup session[p].runs]

View(p, e) == Flushed(p).rows[e]

\* ObservationService.create: an observation whose dedup_key the process can
\* already see is returned as it is, any other is saved.
Noted(p, keys) == session[p].notes \cup (keys \ Flushed(p).notes)

\* PostgresExecutionRepository.update and save, in a session.
Stored(writes, e, status) == [writes EXCEPT !.rows[e] = status]
Save(p, e, status) == session' = [session EXCEPT ![p].rows[e] = status]

\* The branch of the workspace is unknown to the route, which makes up one.
WorkingBranch(e) == <<"workspace", e>>
RouteBranch(e) == <<"brain", e>>
MergeRequest == [execution : Exec,
                 branch : {WorkingBranch(e) : e \in Exec}
                            \cup {RouteBranch(e) : e \in Exec}]

TypeOK ==
    /\ work \in [Commands -> {"queued", "held", "done", "dead", "lost"}]
    /\ at \in [Workers -> {"idle", "begin", "running", "journal", "commit"}]
    /\ current \in [Workers -> Exec \cup {None}]
    /\ locks \in [Workers -> [Repositories -> Exec \cup {None}]]
    /\ session \in [Processes -> Tables]
    /\ db \in Tables
    /\ results \subseteq Exec
    /\ requests \subseteq MergeRequest
    /\ tick \in {"documentation", "executions"}
    /\ overdue \subseteq Exec
    /\ asked \in 0..MaxRequests
    /\ crashes \in 0..MaxCrashes

Init ==
    /\ work = [c \in Commands |-> "queued"]
    /\ at = [w \in Workers |-> "idle"]
    /\ current = [w \in Workers |-> None]
    /\ locks = [w \in Workers |-> [r \in Repositories |-> None]]
    /\ session = [p \in Processes |-> NoRows]
    /\ db = NoRows
    /\ results = {}
    /\ requests = {}
    /\ tick = "documentation"
    /\ overdue = {}
    /\ asked = 0
    /\ crashes = 0

Goto(w, place) == at' = [at EXCEPT ![w] = place]

Holds(w, c) ==
    work[c] = "held" /\ current[w] \in {e \in Attempted : e.command = c}

Ask ==
    /\ asked < MaxRequests
    /\ asked' = asked + 1

-----------------------------------------------------------------------------
(* EXECUTE_WORK_ITEM.                                                       *)

Take(w, c) ==
    /\ at[w] = "idle"
    /\ work[c] = "queued"
    /\ work' = [work EXCEPT ![c] = "held"]
    /\ current' = [current EXCEPT ![w] = [command |-> c, attempt |-> 1]]
    /\ Goto(w, "begin")
    /\ UNCHANGED <<locks, session, db, results, requests, tick, overdue, asked,
                   crashes>>

\* try_acquire of the in-memory store.
Free(w, r) == locks[w][r] = None

\* release() does nothing when the lock belongs to another execution.
Release(w, e) ==
    locks' = [locks EXCEPT ![w] = [r \in Repositories |->
                IF r = Repository(e) /\ @[r] = e THEN None ELSE @[r]]]

\* Mutant: the lock is given back only when the executor answers.
KeepLock(w, e) == UNCHANGED locks

\* _mark_blocked: the row, the observation and the audit event.
MarkBlocked(w, e) ==
    [session[w] EXCEPT
        !.rows[e] = IF ItemOfExec(e) \in KnownItems THEN "blocked" ELSE @,
        !.notes = IF ItemOfExec(e) \in KnownItems
                  THEN Noted(w, {<<"blocked-lock", e>>}) ELSE @,
        !.audit = @ \cup {<<e, "blocked">>}]

\* The STARTED row, if the item exists; then the lock of its repository.  A
\* repository that is locked makes the execution BLOCKED and ends the handler.
Begin(w) ==
    LET e == current[w]
        known == ItemOfExec(e) \in KnownItems
        r == Repository(e)
        blocked == r # NoRepository /\ ~Free(w, r)
    IN  /\ at[w] = "begin"
        /\ session' = [session EXCEPT ![w] =
             CASE blocked -> MarkBlocked(w, e)
               [] known /\ ~blocked -> Stored(session[w], e, "started")
               [] OTHER -> session[w]]
        /\ locks' = IF r # NoRepository /\ ~blocked
                    THEN [locks EXCEPT ![w][r] = e] ELSE locks
        /\ Goto(w, IF blocked THEN "commit" ELSE "running")
        /\ UNCHANGED <<work, current, db, results, requests, tick, overdue,
                       asked, crashes>>

\* _audit_execution: the executor's outcome, whether there is a row or not.
Audited(writes, e, status) == [writes EXCEPT !.audit = @ \cup {<<e, status>>}]

\* Mutant: the row is written only for an execution that ended.
ExecutorReturnsEnded(w, answer) ==
    LET e == current[w]
        audited == Audited(session[w], e, StatusFrom(answer))
    IN  /\ at[w] = "running"
        /\ ~Raises(answer)
        /\ Release(w, e)
        /\ session' = [session EXCEPT ![w] =
             IF StatusFrom(answer) \in Terminal
             THEN Stored(audited, e, StatusFrom(answer)) ELSE audited]
        /\ Goto(w, "commit")
        /\ UNCHANGED <<work, current, db, results, requests, tick, overdue,
                       asked, crashes>>

\* The executor answered: unlock, audit, store the status.  Only an execution
\* that has a row is updated.
ExecutorReturns(w, answer) ==
    LET e == current[w]
        audited == Audited(session[w], e, StatusFrom(answer))
    IN  /\ at[w] = "running"
        /\ ~Raises(answer)
        /\ Release(w, e)
        /\ session' = [session EXCEPT ![w] =
             IF View(w, e) # Absent
             THEN Stored(audited, e, StatusFrom(answer)) ELSE audited]
        /\ Goto(w, "commit")
        /\ UNCHANGED <<work, current, db, results, requests, tick, overdue,
                       asked, crashes>>

\* Mutant: try without finally, the unlock is skipped when execute() raises.
ExecutorRaisesLocked(w, answer) ==
    LET e == current[w]
    IN  /\ at[w] = "running"
        /\ Raises(answer)
        /\ KeepLock(w, e)
        /\ IF e.attempt < MaxAttempts
           THEN /\ current' = [current EXCEPT ![w].attempt = @ + 1]
                /\ Goto(w, "begin")
                /\ UNCHANGED work
           ELSE /\ work' = [work EXCEPT ![e.command] = "dead"]
                /\ current' = [current EXCEPT ![w] = None]
                /\ Goto(w, "idle")
        /\ UNCHANGED <<session, db, results, requests, tick, overdue, asked,
                       crashes>>

\* Mutant: one attempt too many.
ExecutorRaisesOnceMore(w, answer) ==
    LET e == current[w]
    IN  /\ at[w] = "running"
        /\ Raises(answer)
        /\ Release(w, e)
        /\ IF e.attempt <= MaxAttempts
           THEN /\ current' = [current EXCEPT ![w].attempt = @ + 1]
                /\ Goto(w, "begin")
                /\ UNCHANGED work
           ELSE /\ work' = [work EXCEPT ![e.command] = "dead"]
                /\ current' = [current EXCEPT ![w] = None]
                /\ Goto(w, "idle")
        /\ UNCHANGED <<session, db, results, requests, tick, overdue, asked,
                       crashes>>

\* execute() raised: the finally clause unlocks, nothing else of the handler
\* runs, and the loop tries again with a new execution or buries the command.
ExecutorRaises(w, answer) ==
    LET e == current[w]
    IN  /\ at[w] = "running"
        /\ Raises(answer)
        /\ Release(w, e)
        /\ IF e.attempt < MaxAttempts
           THEN /\ current' = [current EXCEPT ![w].attempt = @ + 1]
                /\ Goto(w, "begin")
                /\ UNCHANGED work
           ELSE /\ work' = [work EXCEPT ![e.command] = "dead"]
                /\ current' = [current EXCEPT ![w] = None]
                /\ Goto(w, "idle")
        /\ UNCHANGED <<session, db, results, requests, tick, overdue, asked,
                       crashes>>

\* _commit_if_needed and acknowledge, for whatever command the worker ran.
Commit(w) ==
    /\ at[w] = "commit"
    /\ db' = Flushed(w)
    /\ session' = [session EXCEPT ![w] = NoRows]
    /\ work' = [c \in Commands |->
                  IF Holds(w, c) THEN "done"
                  ELSE work[c]]
    /\ current' = [current EXCEPT ![w] = None]
    /\ Goto(w, "idle")
    /\ UNCHANGED <<locks, results, requests, tick, overdue, asked, crashes>>

\* The worker dies and is started again: its session, its locks and the
\* command it held are gone.
Crash(w) ==
    /\ crashes < MaxCrashes
    /\ crashes' = crashes + 1
    /\ work' = [c \in Commands |->
                  IF Holds(w, c) THEN "lost"
                  ELSE work[c]]
    /\ session' = [session EXCEPT ![w] = NoRows]
    /\ locks' = [locks EXCEPT ![w] = [r \in Repositories |-> None]]
    /\ current' = [current EXCEPT ![w] = None]
    /\ Goto(w, "idle")
    /\ UNCHANGED <<db, results, requests, tick, overdue, asked>>

-----------------------------------------------------------------------------
(* VERIFY_EXECUTION and CREATE_PULL_REQUEST.                                *)

\* The handler passes no criteria and no changed files.
VerifyExecution(w, e) ==
    /\ at[w] = "idle"
    /\ Ask
    /\ session' = [session EXCEPT ![w].runs = @ \cup
                     {<<e, Verify({}, FALSE, {}, {})>>}]
    /\ current' = [current EXCEPT ![w] = RequestedExec]
    /\ Goto(w, "commit")
    /\ UNCHANGED <<work, locks, db, results, requests, tick, overdue, crashes>>

\* GitLab refuses a second open merge request for the same source branch.
Accepts(branch) == branch \notin {m.branch : m \in requests}

\* Mutant: the journal entry is written before the provider is called.
CreatePullRequestJournalFirst(w, e) ==
    /\ at[w] = "idle"
    /\ Ask
    /\ View(w, e) # Absent
    /\ ItemOfExec(e) \in KnownItems
    /\ e \in results
    /\ session' = [session EXCEPT ![w].notes = @ \cup {<<"pr-created", e>>}]
    /\ current' = [current EXCEPT ![w] = e]
    /\ Goto(w, "commit")
    /\ UNCHANGED <<work, locks, db, results, requests, tick, overdue, crashes>>

\* PullRequestService.create_pull_request up to the provider's answer; its
\* early returns leave everything as it is.
CreatePullRequest(w, e) ==
    /\ at[w] = "idle"
    /\ Ask
    /\ View(w, e) # Absent
    /\ ItemOfExec(e) \in KnownItems
    /\ e \in results
    /\ PolicyPermits(PolicySet, Signals[ItemOfExec(e)])
    /\ Repository(e) # NoRepository
    /\ Accepts(WorkingBranch(e))
    /\ requests' = requests \cup {[execution |-> e, branch |-> WorkingBranch(e)]}
    /\ current' = [current EXCEPT ![w] = e]
    /\ Goto(w, "journal")
    /\ UNCHANGED <<work, locks, session, db, results, tick, overdue, crashes>>

\* The rest of it: the event and the observation.  The observation is
\* projected only to a reference of type task, work_item or issue; ingestion
\* stores work_package references, so nothing reaches the human tool.
JournalPullRequest(w) ==
    /\ at[w] = "journal"
    /\ session' = [session EXCEPT ![w].notes =
                     Noted(w, {<<"pr-created", current[w]>>})]
    /\ Goto(w, "commit")
    /\ UNCHANGED <<work, current, locks, db, results, requests, tick, overdue,
                   asked, crashes>>

\* External: no code in the repository writes verification_results.
RecordResult(e) ==
    /\ Ask
    /\ db.rows[e] = "completed"
    /\ results' = results \cup {e}
    /\ UNCHANGED <<work, at, current, locks, session, db, requests, tick,
                   overdue, crashes>>

-----------------------------------------------------------------------------
(* The API process.                                                         *)

\* POST /executions: a REQUESTED row that stays in the API's session.
StartExecution ==
    /\ Ask
    /\ View(API, RequestedExec) = Absent
    /\ Save(API, RequestedExec, "requested")
    /\ UNCHANGED <<work, at, current, locks, db, results, requests, tick,
                   overdue, crashes>>

\* POST /executions/{id}/verify takes criteria and files from the caller.
VerifyRoute(e, input) ==
    /\ Ask
    /\ session' = [session EXCEPT ![API].runs = @ \cup
         {<<e, Verify({}, input.criteria, input.changed, input.expected)>>}]
    /\ UNCHANGED <<work, at, current, locks, db, results, requests, tick,
                   overdue, crashes>>

\* POST /executions/{id}/pull-request calls the provider at once.
PullRequestRoute(e) ==
    /\ Ask
    /\ View(API, e) # Absent
    /\ ItemOfExec(e) \in KnownItems
    /\ Repository(e) # NoRepository
    /\ Accepts(RouteBranch(e))
    /\ requests' = requests \cup {[execution |-> e, branch |-> RouteBranch(e)]}
    /\ UNCHANGED <<work, at, current, locks, session, db, results, tick,
                   overdue, crashes>>

-----------------------------------------------------------------------------
(* The scheduler.                                                           *)

\* Time: started_at + threshold is over.
BecomesOverdue(e) ==
    /\ e \notin overdue
    /\ db.rows[e] # Absent
    /\ overdue' = overdue \cup {e}
    /\ UNCHANGED <<work, at, current, locks, session, db, results, requests,
                   tick, asked, crashes>>

\* reconcile_documentation commits the scheduler's session, once for every
\* project that has a documentation space and not at all without one.
ReconcileDocumentation ==
    /\ tick = "documentation"
    /\ tick' = "executions"
    /\ db' = IF HasSpaces THEN Flushed(Scheduler) ELSE db
    /\ session' = [session EXCEPT ![Scheduler] = IF HasSpaces THEN NoRows ELSE @]
    /\ UNCHANGED <<work, at, current, locks, results, requests, overdue, asked,
                   crashes>>

\* Mutant: any execution that is old enough is blocked.
StuckAnyStatus == {e \in overdue : View(Scheduler, e) # Absent}

\* Mutant: only executions that the executor reported as running are stuck.
StuckRunningOnly == {e \in overdue : View(Scheduler, e) = "running"}

Stuck == {e \in overdue : View(Scheduler, e) \in InProgress}

DetectStuckExecutions ==
    /\ tick = "executions"
    /\ tick' = "documentation"
    /\ session' = [session EXCEPT
         ![Scheduler].rows = [e \in Exec |-> IF e \in Stuck THEN "blocked"
                                             ELSE @[e]],
         ![Scheduler].notes = Noted(Scheduler, {<<"stuck", e>> : e \in Stuck})]
    /\ UNCHANGED <<work, at, current, locks, db, results, requests, overdue,
                   asked, crashes>>

-----------------------------------------------------------------------------
Step(w) ==
    \/ Begin(w)
    \/ \E answer \in ExecutorAnswers :
         ExecutorReturns(w, answer) \/ ExecutorRaises(w, answer)
    \/ JournalPullRequest(w)
    \/ Commit(w)

Next ==
    \/ \E w \in Workers, c \in Commands : Take(w, c)
    \/ \E w \in Workers : Step(w)
    \/ \E w \in Workers : Crash(w)
    \/ \E w \in Workers, e \in Targets : VerifyExecution(w, e)
    \/ \E w \in Workers, e \in Targets : CreatePullRequest(w, e)
    \/ \E e \in Targets : RecordResult(e)
    \/ StartExecution
    \/ \E e \in Targets, input \in VerifyRequests : VerifyRoute(e, input)
    \/ \E e \in Targets : PullRequestRoute(e)
    \/ \E e \in Exec : BecomesOverdue(e)
    \/ ReconcileDocumentation
    \/ DetectStuckExecutions

\* Workers keep consuming and running handlers, time passes, and the scheduler
\* loop keeps ticking.
Fairness ==
    /\ \A w \in Workers : WF_vars(Step(w))
    /\ WF_vars(\E w \in Workers, c \in Commands : Take(w, c))
    /\ WF_vars(\E e \in Exec : BecomesOverdue(e))
    /\ WF_vars(ReconcileDocumentation)
    /\ WF_vars(DetectStuckExecutions)

Spec == Init /\ [][Next]_vars /\ Fairness

-----------------------------------------------------------------------------
(* Properties.                                                              *)

\* A repository is locked only while the worker that locked it is inside the
\* executor with that very execution: neither an executor that raises, nor a
\* retry, nor a crash leaves a repository locked (try/finally around
\* executor.execute in _execute_work_item).
LocksFollowExecutions ==
    \A w \in Workers, r \in Repositories :
        locks[w][r] # None =>
            /\ at[w] = "running"
            /\ locks[w][r] = current[w]
            /\ Repository(current[w]) = r

\* A command that was acknowledged left a committed row and a committed audit
\* event for its last attempt, and they agree: a row differs from its audit
\* event only when the scheduler found it stuck afterwards.
AcknowledgedIsRecorded ==
    \A c \in Commands : work[c] = "done" /\ ItemOf[c] \in KnownItems =>
        \E e \in Attempted, s \in ExecutionStatus :
            /\ e.command = c
            /\ <<e, s>> \in db.audit
            /\ db.rows[e] = s \/ (s \in InProgress /\ db.rows[e] = "blocked")

\* An execution that ended stays as it ended: neither the scheduler's check,
\* working on rows it read a moment ago, nor a retried command rewrites it.
EndedIsFinal ==
    [][\A e \in Exec : db.rows[e] \in Terminal => db'.rows[e] = db.rows[e]]_vars

\* A journal entry that announces a pull request is never committed without
\* the request existing at the provider (create_pull_request calls the
\* provider first).
AnnouncedPullRequestExists ==
    \A e \in Exec : <<"pr-created", e>> \in db.notes =>
        \E m \in requests : m.execution = e

\* An execution that was committed as started or running, an attempt whose
\* executor raised included, does not stay so: the scheduler marks it blocked
\* and commits it, provided some project has a documentation space.
StuckIsBlocked ==
    \A e \in Attempted : db.rows[e] \in InProgress /\ HasSpaces
                      ~> db.rows[e] = "blocked"
=============================================================================
