----------------------------- MODULE WorkerLoop -----------------------------
(***************************************************************************)
(* The worker processes of src/brain/workers/loop.py.  A worker takes one  *)
(* command from Redis, dispatches it up to MaxAttempts times, commits the  *)
(* process-wide SQL session after a success and acknowledges, or moves the *)
(* command to the dead-letter list.                                        *)
(*                                                                         *)
(* Handlers write through repositories that only flush: what they write    *)
(* stays in the session until the worker commits, and nothing rolls the    *)
(* session back when an attempt fails.  A database error inside a flush    *)
(* undoes the whole transaction and leaves the session unusable until      *)
(* rollback() (SQLAlchemy's PendingRollbackError).                         *)
(***************************************************************************)
EXTENDS RedisCommandQueue, FiniteSets

CONSTANTS
    Workers,        \* brain-worker processes
    PureCommands,   \* commands whose handler never touches the database
    MaxAttempts,    \* WorkerLoop(max_attempts=...)
    MaxFaults,      \* bound on crashes, database errors and stop signals
    NoCommand       \* a worker between two commands

ASSUME WorkerAssumption ==
    /\ PureCommands \subseteq Commands
    /\ MaxAttempts \in Nat \ {0}
    /\ MaxFaults \in Nat
    /\ NoCommand \notin Commands

VARIABLES
    submitted,  \* commands enqueued so far
    pc,         \* where each worker is in run()
    command,    \* the command it holds
    attempt,    \* the attempt counter of run()
    stop,       \* WorkerLoop._stop
    session,    \* rows flushed and not committed, per process
    poisoned,   \* the session's transaction was undone by a failed flush
    db,         \* committed rows
    failures,   \* history: failed attempts of each command
    acked,      \* history: commands acknowledged
    faults      \* faults so far

workerVars == <<pc, command, attempt, stop>>
sqlVars == <<session, poisoned, db>>
vars == <<pending, inflight, dead, submitted, pc, command, attempt, stop,
          session, poisoned, db, failures, acked, faults>>

\* What an attempt leaves in the session: the rows of a completed handler,
\* the rows a handler flushed before it raised, and the CommandFailure row.
RowKinds == {"effect", "partial", "failure"}
Row == [command : Commands, attempt : 1..MaxAttempts, kind : RowKinds]
RowOf(c, a, k) == [command |-> c, attempt |-> a, kind |-> k]

Places == {"top", "consume", "popped", "attempt", "commit", "acknowledge",
           "bury", "push_dead", "down"}

TypeOK ==
    /\ QueueTypeOK
    /\ submitted \in SUBSET Commands
    /\ pc \in [Workers -> Places]
    /\ command \in [Workers -> Commands \cup {NoCommand}]
    /\ attempt \in [Workers -> 1..MaxAttempts]
    /\ stop \in [Workers -> BOOLEAN]
    /\ session \in [Workers -> SUBSET Row]
    /\ poisoned \in [Workers -> BOOLEAN]
    /\ db \in SUBSET Row
    /\ failures \in [Commands -> 0..MaxAttempts]
    /\ acked \in SUBSET Commands
    /\ faults \in 0..MaxFaults

Init ==
    /\ QueueInit
    /\ submitted = {}
    /\ pc = [w \in Workers |-> "top"]
    /\ command = [w \in Workers |-> NoCommand]
    /\ attempt = [w \in Workers |-> 1]
    /\ stop = [w \in Workers |-> FALSE]
    /\ session = [w \in Workers |-> {}]
    /\ poisoned = [w \in Workers |-> FALSE]
    /\ db = {}
    /\ failures = [c \in Commands |-> 0]
    /\ acked = {}
    /\ faults = 0

Goto(w, place) == pc' = [pc EXCEPT ![w] = place]

Fault ==
    /\ faults < MaxFaults
    /\ faults' = faults + 1

-----------------------------------------------------------------------------
(* Producers: routes, event handlers and the scheduler build a new envelope *)
(* and enqueue it.                                                          *)

Enqueue(c) ==
    /\ c \notin submitted
    /\ submitted' = submitted \cup {c}
    /\ RPushPending(c)
    /\ UNCHANGED <<workerVars, sqlVars, failures, acked, faults>>

-----------------------------------------------------------------------------
(* The loop condition, consume() and its timeout.                           *)

EnterConsume(w) ==
    /\ pc[w] = "top"
    /\ ~stop[w]
    /\ Goto(w, "consume")
    /\ UNCHANGED <<queueVars, submitted, command, attempt, stop, sqlVars,
                   failures, acked, faults>>

ConsumeTimeout(w) ==
    /\ pc[w] = "consume"
    /\ pending = << >>
    /\ Goto(w, "top")
    /\ UNCHANGED <<queueVars, submitted, command, attempt, stop, sqlVars,
                   failures, acked, faults>>

ConsumePop(w) ==
    /\ pc[w] = "consume"
    /\ \E c \in Commands :
         /\ BLPop(c)
         /\ command' = [command EXCEPT ![w] = c]
    /\ Goto(w, "popped")
    /\ UNCHANGED <<submitted, attempt, stop, sqlVars, failures, acked, faults>>

ConsumeRegister(w) ==
    /\ pc[w] = "popped"
    /\ HSetInflight(command[w])
    /\ attempt' = [attempt EXCEPT ![w] = 1]
    /\ Goto(w, "attempt")
    /\ UNCHANGED <<submitted, command, stop, sqlVars, failures, acked, faults>>

-----------------------------------------------------------------------------
(* One round of the attempt loop: process_command and the except branch.    *)

\* The session answers: a poisoned one raises on every statement.
Usable(w) == ~poisoned[w] \/ command[w] \in PureCommands

\* dispatch() returned: its rows are flushed, run() leaves the inner loop.
AttemptSucceeds(w) ==
    /\ pc[w] = "attempt"
    /\ Usable(w)
    /\ session' = [session EXCEPT ![w] = @ \cup
         IF command[w] \in PureCommands THEN {}
         ELSE {RowOf(command[w], attempt[w], "effect")}]
    /\ Goto(w, "commit")
    /\ UNCHANGED <<queueVars, submitted, command, attempt, stop, poisoned, db,
                   failures, acked, faults>>

\* Mutant: the loop gives up one attempt too late.
AfterFailureLate(w) ==
    /\ failures' = [failures EXCEPT ![command[w]] = @ + 1]
    /\ IF attempt[w] > MaxAttempts
       THEN Goto(w, "bury") /\ UNCHANGED attempt
       ELSE /\ attempt' = [attempt EXCEPT ![w] = @ + 1]
            /\ UNCHANGED pc

\* Mutant: the bound is one too small.
AfterFailureEarly(w) ==
    /\ failures' = [failures EXCEPT ![command[w]] = @ + 1]
    /\ IF attempt[w] + 1 >= MaxAttempts
       THEN Goto(w, "bury") /\ UNCHANGED attempt
       ELSE /\ attempt' = [attempt EXCEPT ![w] = @ + 1]
            /\ UNCHANGED pc

\* The except branch of run(): another attempt, or the dead-letter list.
AfterFailure(w) ==
    /\ failures' = [failures EXCEPT ![command[w]] = @ + 1]
    /\ IF attempt[w] >= MaxAttempts
       THEN Goto(w, "bury") /\ UNCHANGED attempt
       ELSE /\ attempt' = [attempt EXCEPT ![w] = @ + 1]
            /\ UNCHANGED pc

\* The handler raised after flushing some of its rows or none, and
\* failures.save() added the CommandFailure row to the same session.
AttemptFails(w) ==
    /\ pc[w] = "attempt"
    /\ ~poisoned[w]
    /\ \E flushed \in SUBSET {RowOf(command[w], attempt[w], "partial")} :
         /\ command[w] \in PureCommands => flushed = {}
         /\ session' = [session EXCEPT ![w] = @ \cup flushed \cup
                          {RowOf(command[w], attempt[w], "failure")}]
    /\ AfterFailure(w)
    /\ UNCHANGED <<queueVars, submitted, command, stop, poisoned, db, acked,
                   faults>>

\* A flush failed: the transaction is undone with everything flushed before,
\* and failures.save() raises inside the except clause.
AttemptDatabaseError(w) ==
    /\ pc[w] = "attempt"
    /\ ~poisoned[w]
    /\ command[w] \notin PureCommands
    /\ Fault
    /\ session' = [session EXCEPT ![w] = {}]
    /\ poisoned' = [poisoned EXCEPT ![w] = TRUE]
    /\ AfterFailure(w)
    /\ UNCHANGED <<queueVars, submitted, command, stop, db, acked>>

\* An attempt that touches a poisoned session raises, and so does the save of
\* its CommandFailure (the second also when the handler itself is pure).
AttemptOnPoisonedSession(w) ==
    /\ pc[w] = "attempt"
    /\ poisoned[w]
    /\ AfterFailure(w)
    /\ UNCHANGED <<queueVars, submitted, command, stop, sqlVars, acked, faults>>

-----------------------------------------------------------------------------
(* _commit_if_needed and acknowledge.                                       *)

\* Mutant: the session is closed without a commit.
CommitSkipped(w) ==
    /\ pc[w] = "commit"
    /\ ~poisoned[w]
    /\ session' = [session EXCEPT ![w] = {}]
    /\ Goto(w, "acknowledge")
    /\ UNCHANGED <<queueVars, submitted, command, attempt, stop, poisoned, db,
                   failures, acked, faults>>

\* session.commit(): everything in the session becomes durable, the rows of
\* earlier failed attempts and commands included.
Commit(w) ==
    /\ pc[w] = "commit"
    /\ ~poisoned[w]
    /\ db' = db \cup session[w]
    /\ session' = [session EXCEPT ![w] = {}]
    /\ Goto(w, "acknowledge")
    /\ UNCHANGED <<queueVars, submitted, command, attempt, stop, poisoned,
                   failures, acked, faults>>

\* The process is gone, its session with it.
Die(w) ==
    /\ Goto(w, "down")
    /\ command' = [command EXCEPT ![w] = NoCommand]
    /\ session' = [session EXCEPT ![w] = {}]
    /\ poisoned' = [poisoned EXCEPT ![w] = FALSE]
    /\ stop' = [stop EXCEPT ![w] = FALSE]
    /\ UNCHANGED attempt

\* commit() raised: rollback(), and the exception leaves run() and the
\* process.  A poisoned session always raises here.
CommitRefused(w) ==
    /\ pc[w] = "commit"
    /\ poisoned[w]
    /\ Die(w)
    /\ UNCHANGED <<queueVars, submitted, db, failures, acked, faults>>

\* The same for a sound session whose connection breaks during the COMMIT:
\* the transaction may have reached the database or not.
CommitBreaks(w) ==
    /\ pc[w] = "commit"
    /\ ~poisoned[w]
    /\ Fault
    /\ \E landed \in {{}, session[w]} : db' = db \cup landed
    /\ Die(w)
    /\ UNCHANGED <<queueVars, submitted, failures, acked>>

Acknowledge(w) ==
    /\ pc[w] = "acknowledge"
    /\ HDelInflight(command[w])
    /\ acked' = acked \cup {command[w]}
    /\ command' = [command EXCEPT ![w] = NoCommand]
    /\ Goto(w, "top")
    /\ UNCHANGED <<submitted, attempt, stop, sqlVars, failures, faults>>

-----------------------------------------------------------------------------
(* dead_letter: HDEL, then RPUSH.                                           *)

BuryRemove(w) ==
    /\ pc[w] = "bury"
    /\ HDelInflight(command[w])
    /\ Goto(w, "push_dead")
    /\ UNCHANGED <<submitted, command, attempt, stop, sqlVars, failures, acked,
                   faults>>

BuryPush(w) ==
    /\ pc[w] = "push_dead"
    /\ RPushDead(command[w])
    /\ command' = [command EXCEPT ![w] = NoCommand]
    /\ Goto(w, "top")
    /\ UNCHANGED <<submitted, attempt, stop, sqlVars, failures, acked, faults>>

-----------------------------------------------------------------------------
(* Signals, crashes and the restart policy of compose.yaml.                 *)

\* SIGTERM: run() returns when it next reaches the loop condition.
Stop(w) ==
    /\ pc[w] # "down"
    /\ ~stop[w]
    /\ Fault
    /\ stop' = [stop EXCEPT ![w] = TRUE]
    /\ UNCHANGED <<queueVars, submitted, pc, command, attempt, sqlVars,
                   failures, acked>>

\* run() returned: container.close() closes the session, nothing commits it.
Shutdown(w) ==
    /\ pc[w] = "top"
    /\ stop[w]
    /\ Die(w)
    /\ UNCHANGED <<queueVars, submitted, db, failures, acked, faults>>

Crash(w) ==
    /\ pc[w] # "down"
    /\ Fault
    /\ Die(w)
    /\ UNCHANGED <<queueVars, submitted, db, failures, acked>>

\* Mutant: a restart that puts the unacknowledged command back.
RestartRequeues(w) ==
    /\ pc[w] = "down"
    /\ Goto(w, "top")
    /\ \E c \in Commands :
         /\ inflight = {c}
         /\ inflight' = {}
         /\ pending' = Append(pending, c)
    /\ UNCHANGED <<dead, submitted, command, attempt, stop, sqlVars, failures,
                   acked, faults>>

Restart(w) ==
    /\ pc[w] = "down"
    /\ Goto(w, "top")
    /\ UNCHANGED <<queueVars, submitted, command, attempt, stop, sqlVars,
                   failures, acked, faults>>

-----------------------------------------------------------------------------
\* The steps a running worker takes by itself.
Step(w) ==
    \/ EnterConsume(w) \/ ConsumeTimeout(w) \/ ConsumePop(w)
    \/ ConsumeRegister(w)
    \/ AttemptSucceeds(w) \/ AttemptFails(w) \/ AttemptOnPoisonedSession(w)
    \/ Commit(w) \/ CommitRefused(w)
    \/ Acknowledge(w) \/ BuryRemove(w) \/ BuryPush(w) \/ Shutdown(w)

\* What happens to it.
Disturb(w) ==
    \/ AttemptDatabaseError(w) \/ CommitBreaks(w) \/ Stop(w) \/ Crash(w)

Next ==
    \/ \E c \in Commands : Enqueue(c)
    \/ \E w \in Workers : Step(w) \/ Disturb(w) \/ Restart(w)

\* A live worker keeps running and docker restarts a dead one
\* (restart: unless-stopped).  Nothing forces a producer to enqueue.
Fairness == \A w \in Workers : WF_vars(Step(w)) /\ WF_vars(Restart(w))

Spec == Init /\ [][Next]_vars
FairSpec == Spec /\ Fairness

-----------------------------------------------------------------------------
(* Properties.                                                              *)

Held(c) == \E w \in Workers : command[w] = c

HasEffect(rows, c) ==
    \E r \in rows : r.command = c /\ r.kind = "effect"

\* The queue hands a command to one worker only: no two workers hold it, and
\* a command that is held, dead or acknowledged is not waiting anywhere else
\* (consume pops, dead_letter and acknowledge drop it from the hash).
ExclusiveHolder ==
    /\ \A v, w \in Workers :
         v # w /\ command[v] \in Commands => command[v] # command[w]
    /\ \A w \in Workers :
         command[w] \notin Listed(pending) \cup Listed(dead) \cup acked
    /\ Listed(pending) \cap (Listed(dead) \cup acked \cup inflight) = {}
    /\ inflight \cap (Listed(dead) \cup acked) = {}
    /\ Listed(dead) \cap acked = {}

\* run() commits before it acknowledges: whatever crashes, breaks or is
\* poisoned, the rows of an acknowledged command are in the database.
AckedIsDurable ==
    \A c \in acked \ PureCommands : HasEffect(db, c)

\* A command is buried only after MaxAttempts failed attempts and never after
\* an attempt that completed: no completed rows of it wait in a session or
\* reached the database.
DeadIsExhausted ==
    \A c \in Listed(dead) :
        /\ failures[c] = MaxAttempts
        /\ ~HasEffect(db, c)
        /\ \A w \in Workers : ~HasEffect(session[w], c)

\* No crash, failed commit or restart makes a command complete twice:
\* the queue delivers at most once.
CompletesAtMostOnce ==
    LET rows == db \cup UNION {session[w] : w \in Workers}
    IN  \A r, s \in rows :
          r.kind = "effect" /\ s.kind = "effect" /\ r.command = s.command
            => r = s

\* A command leaves the in-flight hash only once its outcome is settled: its
\* rows are durable, or all its attempts failed.
ReleasedOnlyWhenSettled ==
    [][\A c \in inflight \ inflight' :
         \/ c \in PureCommands /\ failures[c] < MaxAttempts
         \/ HasEffect(db, c)
         \/ failures[c] = MaxAttempts]_vars

-----------------------------------------------------------------------------
(* The inductive invariant behind the safety properties.                    *)

Distinct(list) == \A i, j \in DOMAIN list : list[i] = list[j] => i = j

NoEffect(c) ==
    ~HasEffect(db, c) /\ \A w \in Workers : ~HasEffect(session[w], c)

\* Where commands are: a worker holds one exactly between BLPOP and its
\* settlement, and only enqueued commands are anywhere.
Placement ==
    /\ \A w \in Workers :
         command[w] = NoCommand <=> pc[w] \in {"top", "consume", "down"}
    /\ Distinct(pending)
    /\ Listed(pending) \cup inflight \cup Listed(dead) \cup acked
         \subseteq submitted
    /\ \A w \in Workers : command[w] # NoCommand => command[w] \in submitted
    /\ \A w \in Workers :
         pc[w] \in {"popped", "push_dead"} => command[w] \notin inflight
    /\ ExclusiveHolder

\* What is known of a command from the place where its worker is.
Progress(w) ==
    LET c == command[w]
    IN  /\ pc[w] = "popped" => failures[c] = 0
        /\ pc[w] = "attempt" => failures[c] = attempt[w] - 1
        /\ pc[w] \in {"commit", "acknowledge"} => failures[c] < MaxAttempts
        /\ pc[w] \in {"bury", "push_dead"} => failures[c] = MaxAttempts
        /\ pc[w] \in {"popped", "attempt", "bury", "push_dead"} => NoEffect(c)
        /\ pc[w] = "commit" =>
             /\ ~HasEffect(db, c)
             /\ c \in PureCommands
                  \/ RowOf(c, attempt[w], "effect") \in session[w]
        /\ pc[w] = "acknowledge" => c \in PureCommands \/ HasEffect(db, c)

\* Rows of a completed handler wait only in the session of the worker that is
\* about to commit them.
SessionEffects ==
    \A w \in Workers : \A r \in session[w] :
        r.kind = "effect" =>
            pc[w] = "commit" /\ r.command = command[w]
                             /\ r.attempt = attempt[w]

UntouchedBeforeDelivery ==
    \A c \in Commands :
        c \in Listed(pending) \/ c \notin submitted =>
            failures[c] = 0 /\ NoEffect(c)

OneEffect ==
    \A r, s \in db : r.kind = "effect" /\ s.kind = "effect"
                       /\ r.command = s.command => r = s

Outcome ==
    /\ \A w \in Workers : Progress(w)
    /\ SessionEffects
    /\ UntouchedBeforeDelivery
    /\ OneEffect
    /\ AckedIsDurable
    /\ DeadIsExhausted

Inductive == TypeOK /\ Placement /\ Outcome

-----------------------------------------------------------------------------
(* A claim of the repository's comments that the code does not keep.        *)

\* redis.py: "Envelope JSON is stored so commands survive restarts": every
\* command ever enqueued is still in one of the three Redis structures, in the
\* hands of a live worker, or acknowledged.
CommandsSurviveRestarts ==
    \A c \in submitted :
        c \in Listed(pending) \cup inflight \cup Listed(dead) \cup acked
        \/ Held(c)

-----------------------------------------------------------------------------
(* Refinement: the life of one command as a client of the queue sees it.    *)

status ==
    [c \in Commands |->
        IF c \notin submitted THEN "new"
        ELSE IF c \in Listed(pending) THEN "queued"
        ELSE IF c \in acked THEN "done"
        ELSE IF c \in Listed(dead) THEN "dead"
        ELSE IF Held(c) THEN "running"
        ELSE "lost"]

Lifecycle == INSTANCE CommandLifecycle

\* The workers and Redis implement the life cycle above: one delivery, one
\* outcome, and loss only out of the hands of a worker that died.
ImplementsLifecycle == Lifecycle!Spec

\* Under fair workers every enqueued command is taken, and every command
\* taken is acknowledged, buried, or lost with its worker.
ImplementsFairLifecycle == Lifecycle!FairSpec
=============================================================================
