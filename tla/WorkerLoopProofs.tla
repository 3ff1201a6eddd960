-------------------------- MODULE WorkerLoopProofs --------------------------
(***************************************************************************)
(* Proofs about WorkerLoop, for any number of workers, commands, attempts  *)
(* and faults.  The invariant is proved in three layers: types, where      *)
(* commands are, what is known of their outcome.                           *)
(***************************************************************************)
EXTENDS WorkerLoop, SequenceTheorems, TLAPS

-----------------------------------------------------------------------------
(* Lists of commands.                                                       *)

\* RPUSH adds one member to a list.
LEMMA ListedAppend ==
    ASSUME NEW S, NEW list \in Seq(S), NEW c \in S
    PROVE  Listed(Append(list, c)) = Listed(list) \cup {c}
  <1> DEFINE longer == Append(list, c)
  <1>1. /\ longer \in Seq(S)
        /\ Len(longer) = Len(list) + 1
        /\ \A i \in 1 .. Len(list) : longer[i] = list[i]
        /\ longer[Len(list) + 1] = c
    BY AppendProperties
  <1> HIDE DEF longer
  <1>2. DOMAIN longer = DOMAIN list \cup {Len(list) + 1}
    BY <1>1
  <1>3. DOMAIN list = 1 .. Len(list)
    OBVIOUS
  <1>4. Listed(longer) = Listed(list) \cup {c}
    <2>1. ASSUME NEW x \in Listed(longer) PROVE x \in Listed(list) \cup {c}
      BY <1>1, <1>2, <1>3 DEF Listed
    <2>2. ASSUME NEW x \in Listed(list) PROVE x \in Listed(longer)
      BY <1>1, <1>2, <1>3 DEF Listed
    <2>3. c \in Listed(longer)
      BY <1>1, <1>2 DEF Listed
    <2> QED
      BY <2>1, <2>2, <2>3
  <1> QED
    BY <1>4 DEF longer

\* BLPOP removes the head and nothing else from a list without repetitions.
LEMMA ListedTail ==
    ASSUME NEW S, NEW list \in Seq(S), list # << >>, Distinct(list)
    PROVE  /\ Head(list) \in Listed(list)
           /\ Listed(Tail(list)) = Listed(list) \ {Head(list)}
           /\ Distinct(Tail(list))
  <1> DEFINE rest == Tail(list)
  <1>1. /\ rest \in Seq(S)
        /\ Len(rest) = Len(list) - 1
        /\ \A i \in 1 .. Len(rest) : rest[i] = list[i + 1]
        /\ Head(list) = list[1]
        /\ Len(list) \in Nat \ {0}
    BY HeadTailProperties
  <1> HIDE DEF rest
  <1>2. DOMAIN rest = 1 .. Len(rest) /\ DOMAIN list = 1 .. Len(list)
    BY <1>1
  <1>3. Distinct(rest)
    <2> SUFFICES ASSUME NEW i \in 1 .. Len(rest), NEW j \in 1 .. Len(rest),
                        rest[i] = rest[j]
                 PROVE  i = j
      BY <1>2 DEF Distinct
    <2>1. list[i + 1] = list[j + 1]
      BY <1>1
    <2>2. i + 1 \in DOMAIN list /\ j + 1 \in DOMAIN list
      BY <1>1, <1>2
    <2>3. i + 1 = j + 1
      BY <2>1, <2>2 DEF Distinct
    <2> QED
      BY <2>3
  <1>4. Head(list) \in Listed(list)
    BY <1>1, <1>2 DEF Listed
  <1>5. ASSUME NEW x \in Listed(rest)
        PROVE  x \in Listed(list) \ {Head(list)}
    <2>1. PICK i \in 1 .. Len(rest) : x = rest[i]
      BY <1>2 DEF Listed
    <2>2. i + 1 \in DOMAIN list /\ 1 \in DOMAIN list /\ i + 1 # 1
      BY <1>1, <1>2
    <2>3. x = list[i + 1]
      BY <1>1, <2>1
    <2> QED
      BY <1>1, <2>2, <2>3 DEF Listed, Distinct
  <1>6. ASSUME NEW x \in Listed(list), x # Head(list)
        PROVE  x \in Listed(rest)
    <2>1. PICK i \in 1 .. Len(list) : x = list[i]
      BY <1>2 DEF Listed
    <2>2. i # 1
      BY <1>1, <1>6, <2>1
    <2>3. i - 1 \in 1 .. Len(rest) /\ (i - 1) + 1 = i
      BY <1>1, <2>2
    <2>4. rest[i - 1] = x
      BY <1>1, <2>1, <2>3
    <2> QED
      BY <1>2, <2>3, <2>4 DEF Listed
  <1> QED
    BY <1>3, <1>4, <1>5, <1>6 DEF rest

\* RPUSH of a new member keeps a list free of repetitions.
LEMMA DistinctAppend ==
    ASSUME NEW S, NEW list \in Seq(S), NEW c \in S, c \notin Listed(list),
           Distinct(list)
    PROVE  Distinct(Append(list, c))
  BY DEF Listed, Distinct

-----------------------------------------------------------------------------
(* Layer 1: types.                                                          *)

\* A row of a known command and attempt is a row.
LEMMA RowType ==
    ASSUME NEW c \in Commands, NEW a \in 1 .. MaxAttempts, NEW k \in RowKinds
    PROVE  /\ RowOf(c, a, k) \in Row
           /\ RowOf(c, a, k).command = c
           /\ RowOf(c, a, k).attempt = a
           /\ RowOf(c, a, k).kind = k
  BY DEF RowOf, Row

\* A worker past BLPOP holds a command.
LEMMA BusyHolds ==
    ASSUME Inductive, NEW w \in Workers, pc[w] \notin {"top", "consume", "down"}
    PROVE  command[w] \in Commands
  BY DEF Inductive, TypeOK, Placement

\* A failed attempt keeps the attempt counter and the failure count in range.
LEMMA FailureCount ==
    ASSUME Inductive, NEW w \in Workers, pc[w] = "attempt", AfterFailure(w)
    PROVE  /\ attempt' \in [Workers -> 1 .. MaxAttempts]
           /\ failures' \in [Commands -> 0 .. MaxAttempts]
           /\ failures' = [failures EXCEPT ![command[w]] = failures[command[w]] + 1]
           /\ pc' \in [Workers -> Places]
           /\ \/ /\ pc' = pc
                 /\ attempt[w] < MaxAttempts
                 /\ attempt' = [attempt EXCEPT ![w] = attempt[w] + 1]
                 /\ failures'[command[w]] = attempt'[w] - 1
              \/ /\ pc' = [pc EXCEPT ![w] = "bury"]
                 /\ attempt' = attempt
                 /\ failures'[command[w]] = MaxAttempts
  <1>1. command[w] \in Commands
    BY BusyHolds
  <1>2. failures[command[w]] = attempt[w] - 1
    BY DEF Inductive, Outcome, Progress
  <1> QED
    BY <1>1, <1>2, WorkerAssumption
       DEF AfterFailure, Goto, Inductive, TypeOK, Places

\* Every step keeps the types: the attempt loop stops at its bound.
LEMMA TypeInductive ==
    ASSUME Inductive, [Next]_vars
    PROVE  TypeOK'
  <1> USE WorkerAssumption DEF QueueTypeOK
  <1>0. TypeOK
    BY DEF Inductive
  <1>1. ASSUME NEW c \in Commands, Enqueue(c) PROVE TypeOK'
    BY <1>0, <1>1 DEF Enqueue, RPushPending, TypeOK, workerVars, sqlVars
  <1>2. ASSUME NEW w \in Workers, EnterConsume(w) PROVE TypeOK'
    BY <1>0, <1>2
       DEF EnterConsume, Goto, TypeOK, Places, queueVars, workerVars, sqlVars
  <1>3. ASSUME NEW w \in Workers, ConsumeTimeout(w) PROVE TypeOK'
    BY <1>0, <1>3
       DEF ConsumeTimeout, Goto, TypeOK, Places, queueVars, workerVars, sqlVars
  <1>4. ASSUME NEW w \in Workers, ConsumePop(w) PROVE TypeOK'
    BY <1>0, <1>4, HeadTailProperties
       DEF ConsumePop, Goto, BLPop, TypeOK, Places, queueVars, workerVars, sqlVars
  <1>5. ASSUME NEW w \in Workers, ConsumeRegister(w) PROVE TypeOK'
    <2>1. command[w] \in Commands
      BY <1>5, BusyHolds DEF ConsumeRegister
    <2> QED
      BY <1>0, <1>5, <2>1
         DEF ConsumeRegister, Goto, HSetInflight, TypeOK, Places, queueVars, workerVars, sqlVars
  <1>6. ASSUME NEW w \in Workers, AttemptSucceeds(w) PROVE TypeOK'
    <2>1. command[w] \in Commands
      BY <1>6, BusyHolds DEF AttemptSucceeds
    <2>3. RowOf(command[w], attempt[w], "effect") \in Row
      BY <1>0, <2>1, RowType DEF RowKinds, TypeOK
    <2>4. session' \in [Workers -> SUBSET Row]
      BY <1>0, <1>6, <2>1, <2>3 DEF AttemptSucceeds, TypeOK
    <2> QED
      BY <1>0, <1>6, <2>1, <2>4
         DEF AttemptSucceeds, Goto, Usable, TypeOK, Places, queueVars, workerVars, sqlVars
  <1>7. ASSUME NEW w \in Workers, AttemptFails(w) PROVE TypeOK'
    <2>1. command[w] \in Commands
      BY <1>7, BusyHolds DEF AttemptFails
    <2>2. /\ attempt' \in [Workers -> 1 .. MaxAttempts]
          /\ failures' \in [Commands -> 0 .. MaxAttempts]
          /\ pc' \in [Workers -> Places]
      BY <1>7, FailureCount DEF AttemptFails
    <2>3. /\ RowOf(command[w], attempt[w], "partial") \in Row
          /\ RowOf(command[w], attempt[w], "failure") \in Row
      BY <1>0, <2>1, RowType DEF RowKinds, TypeOK
    <2>4. session' \in [Workers -> SUBSET Row]
      BY <1>0, <1>7, <2>1, <2>3 DEF AttemptFails, TypeOK
    <2> QED
      BY <1>0, <1>7, <2>1, <2>2, <2>4
         DEF AttemptFails, TypeOK, queueVars, workerVars, sqlVars
  <1>8. ASSUME NEW w \in Workers, AttemptDatabaseError(w) PROVE TypeOK'
    <2>1. command[w] \in Commands
      BY <1>8, BusyHolds DEF AttemptDatabaseError
    <2>2. /\ attempt' \in [Workers -> 1 .. MaxAttempts]
          /\ failures' \in [Commands -> 0 .. MaxAttempts]
          /\ pc' \in [Workers -> Places]
      BY <1>8, FailureCount DEF AttemptDatabaseError
    <2>3. faults' \in 0 .. MaxFaults
      BY <1>0, <1>8 DEF AttemptDatabaseError, Fault, TypeOK
    <2>4. /\ session' \in [Workers -> SUBSET Row]
          /\ poisoned' \in [Workers -> BOOLEAN]
      BY <1>0, <1>8 DEF AttemptDatabaseError, TypeOK
    <2> QED
      BY <1>0, <1>8, <2>2, <2>3, <2>4
         DEF AttemptDatabaseError, TypeOK, queueVars
  <1>9. ASSUME NEW w \in Workers, AttemptOnPoisonedSession(w) PROVE TypeOK'
    <2>1. command[w] \in Commands
      BY <1>9, BusyHolds DEF AttemptOnPoisonedSession
    <2>2. /\ attempt' \in [Workers -> 1 .. MaxAttempts]
          /\ failures' \in [Commands -> 0 .. MaxAttempts]
          /\ pc' \in [Workers -> Places]
      BY <1>9, FailureCount DEF AttemptOnPoisonedSession
    <2> QED
      BY <1>0, <1>9, <2>1, <2>2
         DEF AttemptOnPoisonedSession, TypeOK, queueVars, workerVars, sqlVars
  <1>10. ASSUME NEW w \in Workers, Commit(w) PROVE TypeOK'
    BY <1>0, <1>10
       DEF Commit, Goto, TypeOK, Places, queueVars, workerVars, sqlVars
  <1>11. ASSUME NEW w \in Workers, CommitRefused(w) PROVE TypeOK'
    BY <1>0, <1>11
       DEF CommitRefused, Goto, Die, TypeOK, Places, queueVars, workerVars, sqlVars
  <1>12. ASSUME NEW w \in Workers, CommitBreaks(w) PROVE TypeOK'
    BY <1>0, <1>12
       DEF CommitBreaks, Goto, Die, Fault, TypeOK, Places, queueVars, workerVars, sqlVars
  <1>13. ASSUME NEW w \in Workers, Acknowledge(w) PROVE TypeOK'
    <2>1. command[w] \in Commands
      BY <1>13, BusyHolds DEF Acknowledge
    <2> QED
      BY <1>0, <1>13, <2>1
         DEF Acknowledge, Goto, HDelInflight, TypeOK, Places, queueVars, workerVars, sqlVars
  <1>14. ASSUME NEW w \in Workers, BuryRemove(w) PROVE TypeOK'
    <2>1. command[w] \in Commands
      BY <1>14, BusyHolds DEF BuryRemove
    <2> QED
      BY <1>0, <1>14, <2>1
         DEF BuryRemove, Goto, HDelInflight, TypeOK, Places, queueVars, workerVars, sqlVars
  <1>15. ASSUME NEW w \in Workers, BuryPush(w) PROVE TypeOK'
    <2>1. command[w] \in Commands
      BY <1>15, BusyHolds DEF BuryPush
    <2> QED
      BY <1>0, <1>15, <2>1
         DEF BuryPush, Goto, RPushDead, TypeOK, Places, queueVars, workerVars, sqlVars
  <1>16. ASSUME NEW w \in Workers, Stop(w) PROVE TypeOK'
    BY <1>0, <1>16
       DEF Stop, Fault, TypeOK, Places, queueVars, workerVars, sqlVars
  <1>17. ASSUME NEW w \in Workers, Shutdown(w) PROVE TypeOK'
    BY <1>0, <1>17
       DEF Shutdown, Goto, Die, TypeOK, Places, queueVars, workerVars, sqlVars
  <1>18. ASSUME NEW w \in Workers, Crash(w) PROVE TypeOK'
    BY <1>0, <1>18
       DEF Crash, Goto, Die, Fault, TypeOK, Places, queueVars, workerVars, sqlVars
  <1>19. ASSUME NEW w \in Workers, Restart(w) PROVE TypeOK'
    BY <1>0, <1>19
       DEF Restart, Goto, TypeOK, Places, queueVars, workerVars, sqlVars
  <1>20. CASE UNCHANGED vars
    BY <1>0, <1>20 DEF TypeOK, vars
  <1> QED
    BY <1>1, <1>2, <1>3, <1>4, <1>5, <1>6, <1>7, <1>8, <1>9, <1>10, <1>11, <1>12, <1>13, <1>14, <1>15, <1>16, <1>17, <1>18, <1>19, <1>20 DEF Next, Step, Disturb

-----------------------------------------------------------------------------
(* Layer 2: where commands are.                                             *)

\* No step gives a command a second holder or a second place.
LEMMA PlacementInductive ==
    ASSUME Inductive, [Next]_vars
    PROVE  Placement'
  <1>0. TypeOK /\ Placement
    BY DEF Inductive
  <1> USE WorkerAssumption DEF QueueTypeOK
  <1>1. ASSUME NEW c \in Commands, Enqueue(c) PROVE Placement'
    <2>1. c \notin Listed(pending) /\ Distinct(pending) /\ pending \in Seq(Commands)
      BY <1>0, <1>1 DEF Enqueue, Placement, TypeOK
    <2>2. Listed(pending') = Listed(pending) \cup {c} /\ Distinct(pending')
      BY <1>1, <2>1, ListedAppend, DistinctAppend DEF Enqueue, RPushPending
    <2>3. UNCHANGED <<inflight, dead, acked, command, pc>>
      BY <1>1 DEF Enqueue, RPushPending, workerVars
    <2>4. submitted' = submitted \cup {c} /\ c \notin submitted
      BY <1>1 DEF Enqueue
    <2> QED
      BY <1>0, <2>2, <2>3, <2>4 DEF Placement, ExclusiveHolder, TypeOK
  <1>2. ASSUME NEW w \in Workers, EnterConsume(w) PROVE Placement'
    BY <1>0, <1>2
       DEF EnterConsume, Goto, Placement, ExclusiveHolder, TypeOK, queueVars
  <1>3. ASSUME NEW w \in Workers, ConsumeTimeout(w) PROVE Placement'
    BY <1>0, <1>3
       DEF ConsumeTimeout, Goto, Placement, ExclusiveHolder, TypeOK, queueVars
  <1>4. ASSUME NEW w \in Workers, ConsumePop(w) PROVE Placement'
    <2>1. PICK c \in Commands : BLPop(c) /\ command' = [command EXCEPT ![w] = c]
      BY <1>4 DEF ConsumePop
    <2>2. /\ c \in Listed(pending)
          /\ Listed(pending') = Listed(pending) \ {c}
          /\ Distinct(pending')
      BY <1>0, <2>1, ListedTail DEF BLPop, Placement, TypeOK
    <2>3. UNCHANGED <<inflight, dead, acked, submitted>>
      BY <1>4, <2>1 DEF ConsumePop, BLPop
    <2>4. pc' = [pc EXCEPT ![w] = "popped"]
      BY <1>4 DEF ConsumePop, Goto
    <2> QED
      BY <1>0, <2>1, <2>2, <2>3, <2>4 DEF Placement, ExclusiveHolder, TypeOK
  <1>5. ASSUME NEW w \in Workers, ConsumeRegister(w) PROVE Placement'
    <2>1. command[w] \in Commands
      BY <1>5, BusyHolds DEF ConsumeRegister
    <2>2. /\ UNCHANGED <<pending, dead, acked, submitted, command>>
          /\ pc[w] = "popped"
          /\ pc' = [pc EXCEPT ![w] = "attempt"]
          /\ inflight' = inflight \cup {command[w]}
      BY <1>5 DEF ConsumeRegister, HSetInflight, Goto
    <2>3. ExclusiveHolder'
      BY <1>0, <2>1, <2>2 DEF Placement, ExclusiveHolder, TypeOK
    <2>4. \A v \in Workers : pc'[v] \in {"popped", "push_dead"} =>
                                  command'[v] \notin inflight'
      BY <1>0, <2>1, <2>2 DEF Placement, ExclusiveHolder, TypeOK
    <2> QED
      BY <1>0, <2>1, <2>2, <2>3, <2>4 DEF Placement, TypeOK
  <1>6. ASSUME NEW w \in Workers, AttemptSucceeds(w) PROVE Placement'
    BY <1>0, <1>6
       DEF AttemptSucceeds, Goto, Usable, Placement, ExclusiveHolder, TypeOK, queueVars
  <1>7. ASSUME NEW w \in Workers, AttemptFails(w) PROVE Placement'
    <2>1. pc' = pc \/ pc' = [pc EXCEPT ![w] = "bury"]
      BY <1>7, FailureCount DEF AttemptFails
    <2>2. UNCHANGED <<pending, inflight, dead, acked, submitted, command>>
      BY <1>7 DEF AttemptFails, queueVars
    <2>3. pc[w] = "attempt"
      BY <1>7 DEF AttemptFails
    <2> QED
      BY <1>0, <2>1, <2>2, <2>3 DEF Placement, ExclusiveHolder, TypeOK
  <1>8. ASSUME NEW w \in Workers, AttemptDatabaseError(w) PROVE Placement'
    <2>1. pc' = pc \/ pc' = [pc EXCEPT ![w] = "bury"]
      BY <1>8, FailureCount DEF AttemptDatabaseError
    <2>2. UNCHANGED <<pending, inflight, dead, acked, submitted, command>>
      BY <1>8 DEF AttemptDatabaseError, queueVars
    <2>3. pc[w] = "attempt"
      BY <1>8 DEF AttemptDatabaseError
    <2> QED
      BY <1>0, <2>1, <2>2, <2>3 DEF Placement, ExclusiveHolder, TypeOK
  <1>9. ASSUME NEW w \in Workers, AttemptOnPoisonedSession(w) PROVE Placement'
    <2>1. pc' = pc \/ pc' = [pc EXCEPT ![w] = "bury"]
      BY <1>9, FailureCount DEF AttemptOnPoisonedSession
    <2>2. UNCHANGED <<pending, inflight, dead, acked, submitted, command>>
      BY <1>9 DEF AttemptOnPoisonedSession, queueVars
    <2>3. pc[w] = "attempt"
      BY <1>9 DEF AttemptOnPoisonedSession
    <2> QED
      BY <1>0, <2>1, <2>2, <2>3 DEF Placement, ExclusiveHolder, TypeOK
  <1>10. ASSUME NEW w \in Workers, Commit(w) PROVE Placement'
    BY <1>0, <1>10
       DEF Commit, Goto, Placement, ExclusiveHolder, TypeOK, queueVars
  <1>11. ASSUME NEW w \in Workers, CommitRefused(w) PROVE Placement'
    BY <1>0, <1>11
       DEF CommitRefused, Goto, Die, Placement, ExclusiveHolder, TypeOK, queueVars
  <1>12. ASSUME NEW w \in Workers, CommitBreaks(w) PROVE Placement'
    BY <1>0, <1>12
       DEF CommitBreaks, Goto, Die, Fault, Placement, ExclusiveHolder, TypeOK, queueVars
  <1>13. ASSUME NEW w \in Workers, Acknowledge(w) PROVE Placement'
    BY <1>0, <1>13
       DEF Acknowledge, Goto, HDelInflight, Placement, ExclusiveHolder, TypeOK, queueVars
  <1>14. ASSUME NEW w \in Workers, BuryRemove(w) PROVE Placement'
    BY <1>0, <1>14
       DEF BuryRemove, Goto, HDelInflight, Placement, ExclusiveHolder, TypeOK, queueVars
  <1>15. ASSUME NEW w \in Workers, BuryPush(w) PROVE Placement'
    <2>1. command[w] \in Commands
      BY <1>15, BusyHolds DEF BuryPush
    <2>2. Listed(dead') = Listed(dead) \cup {command[w]}
      BY <1>0, <1>15, <2>1, ListedAppend DEF BuryPush, RPushDead, TypeOK
    <2>3. /\ UNCHANGED <<pending, inflight, acked, submitted>>
          /\ pc[w] = "push_dead"
          /\ pc' = [pc EXCEPT ![w] = "top"]
          /\ command' = [command EXCEPT ![w] = NoCommand]
      BY <1>15 DEF BuryPush, RPushDead, Goto
    <2>4. ExclusiveHolder'
      BY <1>0, <2>1, <2>2, <2>3 DEF Placement, ExclusiveHolder, TypeOK
    <2> QED
      BY <1>0, <2>1, <2>2, <2>3, <2>4 DEF Placement, TypeOK
  <1>16. ASSUME NEW w \in Workers, Stop(w) PROVE Placement'
    BY <1>0, <1>16
       DEF Stop, Fault, Placement, ExclusiveHolder, TypeOK, queueVars
  <1>17. ASSUME NEW w \in Workers, Shutdown(w) PROVE Placement'
    BY <1>0, <1>17
       DEF Shutdown, Goto, Die, Placement, ExclusiveHolder, TypeOK, queueVars
  <1>18. ASSUME NEW w \in Workers, Crash(w) PROVE Placement'
    BY <1>0, <1>18
       DEF Crash, Goto, Die, Fault, Placement, ExclusiveHolder, TypeOK, queueVars
  <1>19. ASSUME NEW w \in Workers, Restart(w) PROVE Placement'
    BY <1>0, <1>19
       DEF Restart, Goto, Placement, ExclusiveHolder, TypeOK, queueVars
  <1>20. CASE UNCHANGED vars
    BY <1>0, <1>20 DEF Placement, ExclusiveHolder, vars
  <1> QED
    BY <1>1, <1>2, <1>3, <1>4, <1>5, <1>6, <1>7, <1>8, <1>9, <1>10, <1>11, <1>12, <1>13, <1>14, <1>15, <1>16, <1>17, <1>18, <1>19, <1>20 DEF Next, Step, Disturb

-----------------------------------------------------------------------------
(* Layer 3: outcomes.                                                       *)

\* A failed attempt, whatever it leaves in the session besides completed rows,
\* keeps what is known of the outcomes.
LEMMA FailureKeepsOutcome ==
    ASSUME Inductive, NEW w \in Workers, pc[w] = "attempt", AfterFailure(w),
           UNCHANGED <<pending, dead, acked, submitted, command, db>>,
           \A v \in Workers : \A r :
             r \in session'[v] /\ r.kind = "effect" => r \in session[v],
           \A v \in Workers : v # w => session'[v] = session[v]
    PROVE  Outcome'
  <1>0. TypeOK /\ Placement /\ Outcome
    BY DEF Inductive
  <1>1. command[w] \in Commands
    BY BusyHolds
  <1>2. /\ failures' = [failures EXCEPT ![command[w]] = failures[command[w]] + 1]
        /\ \/ /\ pc' = pc
              /\ attempt[w] < MaxAttempts
              /\ attempt' = [attempt EXCEPT ![w] = attempt[w] + 1]
              /\ failures'[command[w]] = attempt'[w] - 1
           \/ /\ pc' = [pc EXCEPT ![w] = "bury"]
              /\ attempt' = attempt
              /\ failures'[command[w]] = MaxAttempts
    BY FailureCount
  <1>3. \A v \in Workers : \A c :
          HasEffect(session'[v], c) => HasEffect(session[v], c)
    BY DEF HasEffect
  <1>4. \A v \in Workers : Progress(v)'
    <2> SUFFICES ASSUME NEW v \in Workers PROVE Progress(v)'
      OBVIOUS
    <2>1. CASE v = w
      BY <1>0, <1>1, <1>2, <1>3, <2>1 DEF Outcome, Progress, NoEffect, TypeOK
    <2>2. CASE v # w
      <3>1. pc'[v] = pc[v] /\ attempt'[v] = attempt[v] /\ session'[v] = session[v]
        BY <1>0, <1>2, <2>2 DEF TypeOK
      <3>2. \/ pc[v] \in {"top", "consume", "down"}
            \/ command[v] \in Commands /\ command[v] # command[w]
        BY <1>0, <1>1, <2>2 DEF Placement, ExclusiveHolder, TypeOK
      <3>3. CASE pc[v] \in {"top", "consume", "down"}
        BY <3>1, <3>3 DEF Progress
      <3>4. CASE command[v] \in Commands /\ command[v] # command[w]
        <4>1. failures'[command[v]] = failures[command[v]]
          BY <1>0, <1>2, <3>4 DEF TypeOK
        <4> QED
          BY <1>0, <1>3, <3>1, <4>1 DEF Outcome, Progress, NoEffect
      <3> QED
        BY <3>2, <3>3, <3>4
    <2> QED
      BY <2>1, <2>2
  <1>5. SessionEffects'
    <2> SUFFICES ASSUME NEW v \in Workers, NEW r \in session'[v], r.kind = "effect"
                 PROVE  /\ pc'[v] = "commit" /\ r.command = command'[v]
                        /\ r.attempt = attempt'[v]
      BY DEF SessionEffects
    <2>1. pc[v] = "commit" /\ r.command = command[v] /\ r.attempt = attempt[v]
      BY <1>0 DEF Outcome, SessionEffects
    <2> QED
      BY <1>0, <1>2, <2>1 DEF TypeOK
  <1>6. \A c \in Commands : c # command[w] => failures'[c] = failures[c]
    BY <1>0, <1>2 DEF TypeOK
  <1>7. command[w] \in submitted /\ command[w] \notin Listed(pending) \cup Listed(dead)
    BY <1>0, <1>1, WorkerAssumption DEF Placement, ExclusiveHolder
  <1>8. UntouchedBeforeDelivery'
    BY <1>0, <1>3, <1>6, <1>7 DEF Outcome, UntouchedBeforeDelivery, NoEffect
  <1>9. DeadIsExhausted'
    <2>1. Listed(dead) \subseteq Commands
      BY <1>0 DEF Placement, TypeOK
    <2> QED
      BY <1>0, <1>3, <1>6, <1>7, <2>1 DEF Outcome, DeadIsExhausted
  <1>10. OneEffect' /\ AckedIsDurable'
    BY <1>0 DEF Outcome, OneEffect, AckedIsDurable
  <1> QED
    BY <1>4, <1>5, <1>8, <1>9, <1>10 DEF Outcome

\* A process that goes away, with or without its last transaction in the
\* database, keeps what is known of the outcomes of all other commands.
LEMMA DeathKeepsOutcome ==
    ASSUME Inductive, NEW w \in Workers,
           UNCHANGED <<pending, dead, acked, submitted, failures, attempt>>,
           pc' = [pc EXCEPT ![w] = "down"],
           command' = [command EXCEPT ![w] = NoCommand],
           session' = [session EXCEPT ![w] = {}],
           db' = db \/ (pc[w] = "commit" /\ db' = db \cup session[w])
    PROVE  Outcome'
  <1>0. TypeOK /\ Placement /\ Outcome
    BY DEF Inductive
  <1>1. /\ session'[w] = {} /\ pc'[w] = "down"
        /\ \A v \in Workers : v # w =>
             pc'[v] = pc[v] /\ command'[v] = command[v] /\ session'[v] = session[v]
    BY <1>0 DEF TypeOK
  <1>2. \A v \in Workers : \A c : HasEffect(session'[v], c) => HasEffect(session[v], c)
    BY <1>1 DEF HasEffect
  <1>3. \A r \in session[w] : r.kind = "effect" =>
          r.command = command[w] /\ r.attempt = attempt[w]
    BY <1>0 DEF Outcome, SessionEffects
  <1>4. \A c : HasEffect(db, c) => HasEffect(db', c)
    BY DEF HasEffect
  <1>5. \A c : HasEffect(db', c) =>
          HasEffect(db, c) \/ (c = command[w] /\ pc[w] = "commit")
    BY <1>3 DEF HasEffect
  <1>6. ASSUME pc[w] = "commit"
        PROVE  /\ ~HasEffect(db, command[w])
               /\ command[w] \in submitted
               /\ command[w] \notin Listed(pending) \cup Listed(dead)
    BY <1>0, <1>6 DEF Outcome, Progress, Placement, ExclusiveHolder
  <1>7. \A v \in Workers : Progress(v)'
    <2> SUFFICES ASSUME NEW v \in Workers, v # w PROVE Progress(v)'
      BY <1>1 DEF Progress
    <2>1. pc[w] = "commit" /\ pc[v] \notin {"top", "consume", "down"} =>
            command[v] # command[w]
      BY <1>0, WorkerAssumption DEF Placement, ExclusiveHolder, TypeOK
    <2> QED
      BY <1>0, <1>1, <1>2, <1>4, <1>5, <2>1 DEF Outcome, Progress, NoEffect
  <1>8. SessionEffects'
    BY <1>0, <1>1 DEF Outcome, SessionEffects
  <1>9. UntouchedBeforeDelivery'
    BY <1>0, <1>2, <1>5, <1>6 DEF Outcome, UntouchedBeforeDelivery, NoEffect
  <1>10. AckedIsDurable'
    BY <1>0, <1>4 DEF Outcome, AckedIsDurable
  <1>11. DeadIsExhausted'
    BY <1>0, <1>2, <1>5, <1>6 DEF Outcome, DeadIsExhausted
  <1>12. OneEffect'
    <2> SUFFICES ASSUME NEW r \in db', NEW s \in db', r.kind = "effect",
                        s.kind = "effect", r.command = s.command
                 PROVE  r = s
      BY DEF OneEffect
    <2>1. CASE r \in db /\ s \in db
      BY <1>0, <2>1 DEF Outcome, OneEffect
    <2>2. CASE r \in session[w] /\ s \in session[w]
      <3>1. r \in Row /\ s \in Row
        BY <1>0, <2>2 DEF TypeOK
      <3>2. r.command = s.command /\ r.attempt = s.attempt /\ r.kind = s.kind
        BY <1>3, <2>2
      <3> QED
        BY <3>1, <3>2 DEF Row
    <2>3. pc[w] = "commit" /\ db' = db \cup session[w] =>
            ~(r \in db /\ s \in session[w]) /\ ~(s \in db /\ r \in session[w])
      BY <1>3, <1>6 DEF HasEffect
    <2> QED
      BY <2>1, <2>2, <2>3
  <1> QED
    BY <1>7, <1>8, <1>9, <1>10, <1>11, <1>12 DEF Outcome

\* Every step keeps what is known of the outcomes.
LEMMA OutcomeInductive ==
    ASSUME Inductive, [Next]_vars
    PROVE  Outcome'
  <1>0. TypeOK /\ Placement /\ Outcome
    BY DEF Inductive
  <1> USE WorkerAssumption DEF QueueTypeOK
  <1>1. ASSUME NEW c \in Commands, Enqueue(c) PROVE Outcome'
    <2>1. Listed(pending') = Listed(pending) \cup {c}
      BY <1>0, <1>1, ListedAppend DEF Enqueue, RPushPending, TypeOK
    <2>2. /\ UNCHANGED <<dead, acked, pc, command, attempt, session, db, failures>>
          /\ c \notin submitted
          /\ submitted' = submitted \cup {c}
      BY <1>1 DEF Enqueue, RPushPending, workerVars, sqlVars
    <2> QED
      BY <1>0, <2>1, <2>2
         DEF Outcome, Progress, NoEffect, SessionEffects, UntouchedBeforeDelivery,
             OneEffect, AckedIsDurable, DeadIsExhausted
  <1>2. ASSUME NEW w \in Workers, EnterConsume(w) PROVE Outcome'
    <2>1. UNCHANGED <<pending, dead, acked, submitted, command, session, db, failures>>
      BY <1>2 DEF EnterConsume, Goto, queueVars, sqlVars
    <2>2. pc[w] \in {"top", "consume", "down"} /\ attempt' = attempt
          /\ \E p \in {"top", "consume"} : pc' = [pc EXCEPT ![w] = p]
      BY <1>2 DEF EnterConsume, Goto
    <2> QED
      BY <1>0, <2>1, <2>2
         DEF Outcome, Progress, NoEffect, Placement, ExclusiveHolder, TypeOK, SessionEffects,
             UntouchedBeforeDelivery, OneEffect, AckedIsDurable, DeadIsExhausted
  <1>3. ASSUME NEW w \in Workers, ConsumeTimeout(w) PROVE Outcome'
    <2>1. UNCHANGED <<pending, dead, acked, submitted, command, session, db, failures>>
      BY <1>3 DEF ConsumeTimeout, Goto, queueVars, sqlVars
    <2>2. pc[w] \in {"top", "consume", "down"} /\ attempt' = attempt
          /\ \E p \in {"top", "consume"} : pc' = [pc EXCEPT ![w] = p]
      BY <1>3 DEF ConsumeTimeout, Goto
    <2> QED
      BY <1>0, <2>1, <2>2
         DEF Outcome, Progress, NoEffect, Placement, ExclusiveHolder, TypeOK, SessionEffects,
             UntouchedBeforeDelivery, OneEffect, AckedIsDurable, DeadIsExhausted
  <1>4. ASSUME NEW w \in Workers, ConsumePop(w) PROVE Outcome'
    <2>1. PICK c \in Commands : BLPop(c) /\ command' = [command EXCEPT ![w] = c]
      BY <1>4 DEF ConsumePop
    <2>2. /\ c \in Listed(pending)
          /\ Listed(pending') = Listed(pending) \ {c}
      BY <1>0, <2>1, ListedTail DEF BLPop, Placement, TypeOK
    <2>3. UNCHANGED <<dead, acked, submitted, session, db, failures, attempt>>
      BY <1>4, <2>1 DEF ConsumePop, BLPop, sqlVars
    <2>4. pc[w] = "consume" /\ pc' = [pc EXCEPT ![w] = "popped"]
      BY <1>4 DEF ConsumePop, Goto
    <2> QED
      BY <1>0, <2>1, <2>2, <2>3, <2>4
         DEF Outcome, Progress, NoEffect, Placement, ExclusiveHolder, TypeOK, SessionEffects,
             UntouchedBeforeDelivery, OneEffect, AckedIsDurable, DeadIsExhausted
  <1>5. ASSUME NEW w \in Workers, ConsumeRegister(w) PROVE Outcome'
    <2>1. UNCHANGED <<pending, dead, acked, submitted, command, session, db, failures>>
      BY <1>5 DEF ConsumeRegister, Goto, HSetInflight, queueVars, sqlVars
    <2>2. pc[w] = "popped" /\ pc' = [pc EXCEPT ![w] = "attempt"]
          /\ attempt' = [attempt EXCEPT ![w] = 1]
      BY <1>5 DEF ConsumeRegister, Goto, HSetInflight
    <2> QED
      BY <1>0, <2>1, <2>2
         DEF Outcome, Progress, NoEffect, Placement, ExclusiveHolder, TypeOK, SessionEffects,
             UntouchedBeforeDelivery, OneEffect, AckedIsDurable, DeadIsExhausted
  <1>6. ASSUME NEW w \in Workers, AttemptSucceeds(w) PROVE Outcome'
    <2> DEFINE done == RowOf(command[w], attempt[w], "effect")
    <2>1. /\ UNCHANGED <<pending, dead, acked, submitted, command, db, failures, attempt>>
          /\ pc[w] = "attempt" /\ pc' = [pc EXCEPT ![w] = "commit"]
          /\ command[w] \in Commands
      BY <1>6, BusyHolds DEF AttemptSucceeds, Goto, queueVars
    <2>2. PICK R \in SUBSET {done} :
            /\ session' = [session EXCEPT ![w] = session[w] \cup R]
            /\ command[w] \in PureCommands \/ R = {done}
      BY <1>6 DEF AttemptSucceeds
    <2>3. done.command = command[w] /\ done.attempt = attempt[w]
      BY DEF RowOf
    <2> HIDE DEF done
    <2>4. /\ session'[w] = session[w] \cup R /\ pc'[w] = "commit"
          /\ \A v \in Workers : v # w => session'[v] = session[v] /\ pc'[v] = pc[v]
      BY <1>0, <2>1, <2>2 DEF TypeOK
    <2>5. \A v \in Workers : \A c :
            HasEffect(session'[v], c) =>
              HasEffect(session[v], c) \/ (v = w /\ c = command[w])
      BY <2>2, <2>3, <2>4 DEF HasEffect
    <2>6. /\ command[w] \in submitted
          /\ command[w] \notin Listed(pending) \cup Listed(dead)
      BY <1>0, <2>1 DEF Placement, ExclusiveHolder
    <2>7. \A v \in Workers : Progress(v)'
      <3> SUFFICES ASSUME NEW v \in Workers PROVE Progress(v)'
        OBVIOUS
      <3>1. CASE v = w
        <4>1. failures[command[w]] = attempt[w] - 1 /\ NoEffect(command[w])
          BY <1>0, <2>1 DEF Outcome, Progress
        <4>2. command[w] \in PureCommands \/ done \in session'[w]
          BY <2>2, <2>4
        <4>3. attempt[w] \in 1 .. MaxAttempts
          BY <1>0 DEF TypeOK
        <4> QED
          BY <2>1, <2>4, <3>1, <4>1, <4>2, <4>3 DEF Progress, NoEffect, done
      <3>2. CASE v # w
        <4>1. pc[v] \notin {"top", "consume", "down"} => command[v] # command[w]
          BY <1>0, <2>1, <3>2 DEF Placement, ExclusiveHolder, TypeOK
        <4> QED
          BY <1>0, <2>1, <2>4, <2>5, <3>2, <4>1 DEF Outcome, Progress, NoEffect
      <3> QED
        BY <3>1, <3>2
    <2>8. SessionEffects'
      <3> SUFFICES ASSUME NEW v \in Workers, NEW r \in session'[v], r.kind = "effect"
                   PROVE  /\ pc'[v] = "commit" /\ r.command = command'[v]
                          /\ r.attempt = attempt'[v]
        BY DEF SessionEffects
      <3>1. CASE r \in session[v]
        BY <1>0, <2>1, <2>4, <3>1 DEF Outcome, SessionEffects
      <3>2. CASE r \notin session[v]
        BY <2>1, <2>2, <2>3, <2>4, <3>2
      <3> QED
        BY <3>1, <3>2
    <2>9. UntouchedBeforeDelivery'
      BY <1>0, <2>1, <2>5, <2>6 DEF Outcome, UntouchedBeforeDelivery, NoEffect
    <2>10. DeadIsExhausted'
      BY <1>0, <2>1, <2>5, <2>6 DEF Outcome, DeadIsExhausted
    <2>11. OneEffect' /\ AckedIsDurable'
      BY <1>0, <2>1 DEF Outcome, OneEffect, AckedIsDurable
    <2> QED
      BY <2>7, <2>8, <2>9, <2>10, <2>11 DEF Outcome
  <1>7. ASSUME NEW w \in Workers, AttemptFails(w) PROVE Outcome'
    <2>1. command[w] \in Commands
      BY <1>7, BusyHolds DEF AttemptFails
    <2>2. PICK R : /\ session' = [session EXCEPT ![w] = session[w] \cup R]
                   /\ \A r \in R : r.kind # "effect"
      <3>1. PICK flushed \in SUBSET {RowOf(command[w], attempt[w], "partial")} :
              session' = [session EXCEPT ![w] = session[w] \cup flushed \cup
                            {RowOf(command[w], attempt[w], "failure")}]
        BY <1>7 DEF AttemptFails
      <3>2. session' = [session EXCEPT ![w] = session[w] \cup (flushed \cup
                            {RowOf(command[w], attempt[w], "failure")})]
        BY <3>1
      <3>3. \A r \in flushed \cup {RowOf(command[w], attempt[w], "failure")} :
              r.kind # "effect"
        BY DEF RowOf
      <3> QED
        BY <3>2, <3>3
    <2>3. UNCHANGED <<pending, dead, acked, submitted, command, db>>
      BY <1>7 DEF AttemptFails, queueVars
    <2>4. \A v \in Workers, c \in Commands :
            HasEffect(session'[v], c) <=> HasEffect(session[v], c)
      BY <1>0, <2>2 DEF HasEffect, TypeOK
    <2>5. pc[w] = "attempt" /\ AfterFailure(w)
      BY <1>7 DEF AttemptFails
    <2>6. \A v \in Workers : \A r : r \in session'[v] /\ r.kind = "effect" => r \in session[v]
      BY <1>0, <2>2 DEF TypeOK
    <2>7. \A v \in Workers : v # w => session'[v] = session[v]
      BY <1>0, <2>2 DEF TypeOK
    <2> QED
      BY <2>3, <2>5, <2>6, <2>7, FailureKeepsOutcome
  <1>8. ASSUME NEW w \in Workers, AttemptDatabaseError(w) PROVE Outcome'
    <2>1. command[w] \in Commands
      BY <1>8, BusyHolds DEF AttemptDatabaseError
    <2>2. session' = [session EXCEPT ![w] = {}]
      BY <1>8 DEF AttemptDatabaseError, sqlVars
    <2>3. UNCHANGED <<pending, dead, acked, submitted, command, db>>
      BY <1>8 DEF AttemptDatabaseError, queueVars, sqlVars
    <2>4. \A v \in Workers, c \in Commands :
            HasEffect(session'[v], c) => HasEffect(session[v], c)
      BY <1>0, <2>2 DEF HasEffect, TypeOK
    <2>5. pc[w] = "attempt" /\ AfterFailure(w)
      BY <1>8 DEF AttemptDatabaseError
    <2>6. \A v \in Workers : \A r : r \in session'[v] /\ r.kind = "effect" => r \in session[v]
      BY <1>0, <2>2 DEF TypeOK
    <2>7. \A v \in Workers : v # w => session'[v] = session[v]
      BY <1>0, <2>2 DEF TypeOK
    <2> QED
      BY <2>3, <2>5, <2>6, <2>7, FailureKeepsOutcome
  <1>9. ASSUME NEW w \in Workers, AttemptOnPoisonedSession(w) PROVE Outcome'
    <2>1. command[w] \in Commands
      BY <1>9, BusyHolds DEF AttemptOnPoisonedSession
    <2>2. session' = session
      BY <1>9 DEF AttemptOnPoisonedSession, sqlVars
    <2>3. UNCHANGED <<pending, dead, acked, submitted, command, db>>
      BY <1>9 DEF AttemptOnPoisonedSession, queueVars, sqlVars
    <2>4. \A v \in Workers, c \in Commands :
            HasEffect(session'[v], c) => HasEffect(session[v], c)
      BY <1>0, <2>2 DEF HasEffect, TypeOK
    <2>5. pc[w] = "attempt" /\ AfterFailure(w)
      BY <1>9 DEF AttemptOnPoisonedSession
    <2>6. \A v \in Workers : \A r : r \in session'[v] /\ r.kind = "effect" => r \in session[v]
      BY <1>0, <2>2 DEF TypeOK
    <2>7. \A v \in Workers : v # w => session'[v] = session[v]
      BY <1>0, <2>2 DEF TypeOK
    <2> QED
      BY <2>3, <2>5, <2>6, <2>7, FailureKeepsOutcome
  <1>10. ASSUME NEW w \in Workers, Commit(w) PROVE Outcome'
    <2>1. command[w] \in Commands
      BY <1>10, BusyHolds DEF Commit
    <2>2. /\ UNCHANGED <<pending, dead, acked, submitted, command, failures, attempt>>
          /\ pc[w] = "commit" /\ pc' = [pc EXCEPT ![w] = "acknowledge"]
          /\ db' = db \cup session[w]
          /\ session' = [session EXCEPT ![w] = {}]
      BY <1>10 DEF Commit, Goto, queueVars
    <2>3. \A c \in Commands :
            HasEffect(db', c) => HasEffect(db, c) \/ c = command[w]
      BY <1>0, <2>2 DEF HasEffect, Outcome, SessionEffects
    <2>4. \A c \in Commands : HasEffect(db, c) => HasEffect(db', c)
      BY <2>2 DEF HasEffect
    <2>5. \A v \in Workers, c \in Commands :
            HasEffect(session'[v], c) => HasEffect(session[v], c)
      BY <1>0, <2>2 DEF HasEffect, TypeOK
    <2>6. command[w] \in PureCommands \/ HasEffect(db', command[w])
      <3>1. \/ command[w] \in PureCommands
            \/ RowOf(command[w], attempt[w], "effect") \in session[w]
        BY <1>0, <2>2 DEF Outcome, Progress
      <3> QED
        BY <2>2, <3>1 DEF HasEffect, RowOf
    <2>7. \A r \in session[w] : r.kind = "effect" =>
            r.command = command[w] /\ r.attempt = attempt[w]
      BY <1>0, <2>2 DEF Outcome, SessionEffects
    <2>8. ~HasEffect(db, command[w])
      BY <1>0, <2>2 DEF Outcome, Progress
    <2>9. OneEffect'
      <3> SUFFICES ASSUME NEW r \in db', NEW s \in db', r.kind = "effect",
                          s.kind = "effect", r.command = s.command
                   PROVE  r = s
        BY DEF OneEffect
      <3>1. CASE r \in db /\ s \in db
        BY <1>0, <3>1 DEF Outcome, OneEffect
      <3>2. CASE r \in session[w] /\ s \in session[w]
        <4>1. r \in Row /\ s \in Row
          BY <1>0, <3>2 DEF TypeOK
        <4>2. r.command = s.command /\ r.attempt = s.attempt /\ r.kind = s.kind
          BY <2>7, <3>2
        <4> QED
          BY <4>1, <4>2 DEF Row
      <3> QED
        BY <2>2, <2>7, <2>8, <3>1, <3>2 DEF HasEffect
    <2>10. /\ pc'[w] = "acknowledge" /\ session'[w] = {}
           /\ \A v \in Workers : v # w => session'[v] = session[v] /\ pc'[v] = pc[v]
      BY <1>0, <2>2 DEF TypeOK
    <2>11. /\ command[w] \in submitted
           /\ command[w] \notin Listed(pending) \cup Listed(dead)
      BY <1>0, <2>1, <2>2 DEF Placement, ExclusiveHolder
    <2>12. \A v \in Workers : Progress(v)'
      <3> SUFFICES ASSUME NEW v \in Workers PROVE Progress(v)'
        OBVIOUS
      <3>1. CASE v = w
        BY <1>0, <2>2, <2>6, <2>10, <3>1 DEF Outcome, Progress
      <3>2. CASE v # w
        <4>1. pc[v] \notin {"top", "consume", "down"} =>
                command[v] \in Commands /\ command[v] # command[w]
          BY <1>0, <2>1, <3>2 DEF Placement, ExclusiveHolder, TypeOK
        <4> QED
          BY <1>0, <2>2, <2>3, <2>4, <2>5, <2>10, <3>2, <4>1
             DEF Outcome, Progress, NoEffect
      <3> QED
        BY <3>1, <3>2
    <2>13. SessionEffects'
      BY <1>0, <2>2, <2>10 DEF Outcome, SessionEffects
    <2>14. UntouchedBeforeDelivery'
      BY <1>0, <2>2, <2>3, <2>5, <2>11 DEF Outcome, UntouchedBeforeDelivery, NoEffect
    <2>15. AckedIsDurable'
      BY <1>0, <2>2, <2>4 DEF Outcome, AckedIsDurable, TypeOK
    <2>16. DeadIsExhausted'
      <3>1. Listed(dead) \subseteq Commands
        BY <1>0 DEF Placement, TypeOK
      <3> QED
        BY <1>0, <2>2, <2>3, <2>5, <2>11, <3>1 DEF Outcome, DeadIsExhausted
    <2> QED
      BY <2>9, <2>12, <2>13, <2>14, <2>15, <2>16 DEF Outcome
  <1>11. ASSUME NEW w \in Workers, CommitRefused(w) PROVE Outcome'
    <2>1. /\ UNCHANGED <<pending, dead, acked, submitted, failures, attempt>>
          /\ pc' = [pc EXCEPT ![w] = "down"]
          /\ command' = [command EXCEPT ![w] = NoCommand]
          /\ session' = [session EXCEPT ![w] = {}]
      BY <1>11 DEF CommitRefused, Die, Goto, queueVars
    <2>2. db' = db
      BY <1>11 DEF CommitRefused
    <2> QED
      BY <1>0, <2>1, <2>2, DeathKeepsOutcome
  <1>12. ASSUME NEW w \in Workers, CommitBreaks(w) PROVE Outcome'
    <2>1. /\ UNCHANGED <<pending, dead, acked, submitted, failures, attempt>>
          /\ pc' = [pc EXCEPT ![w] = "down"]
          /\ command' = [command EXCEPT ![w] = NoCommand]
          /\ session' = [session EXCEPT ![w] = {}]
      BY <1>12 DEF CommitBreaks, Die, Goto, queueVars
    <2>2. pc[w] = "commit" /\ (db' = db \/ db' = db \cup session[w])
      BY <1>12 DEF CommitBreaks
    <2> QED
      BY <1>0, <2>1, <2>2, DeathKeepsOutcome
  <1>13. ASSUME NEW w \in Workers, Acknowledge(w) PROVE Outcome'
    <2>1. command[w] \in Commands
      BY <1>13, BusyHolds DEF Acknowledge
    <2>2. /\ UNCHANGED <<pending, dead, submitted, session, db, failures, attempt>>
          /\ acked' = acked \cup {command[w]}
          /\ pc[w] = "acknowledge" /\ pc' = [pc EXCEPT ![w] = "top"]
          /\ command' = [command EXCEPT ![w] = NoCommand]
      BY <1>13 DEF Acknowledge, Goto, HDelInflight, sqlVars
    <2>3. Listed(dead') = Listed(dead)
      BY <2>2
    <2>4. \A v \in Workers : Progress(v)'
      BY <1>0, <2>1, <2>2, <2>3 DEF Outcome, Progress, NoEffect, Placement, ExclusiveHolder, TypeOK
    <2>5. SessionEffects'
      BY <1>0, <2>1, <2>2, <2>3 DEF Outcome, Progress, NoEffect, Placement, ExclusiveHolder, TypeOK,
                            SessionEffects
    <2>6. UntouchedBeforeDelivery'
      BY <1>0, <2>1, <2>2, <2>3 DEF Outcome, Progress, NoEffect, Placement, ExclusiveHolder, TypeOK,
                            UntouchedBeforeDelivery
    <2>7. OneEffect'
      BY <1>0, <2>1, <2>2, <2>3 DEF Outcome, Progress, NoEffect, Placement, ExclusiveHolder, TypeOK,
                            OneEffect
    <2>8. AckedIsDurable'
      BY <1>0, <2>1, <2>2, <2>3 DEF Outcome, Progress, NoEffect, Placement, ExclusiveHolder, TypeOK,
                            AckedIsDurable
    <2>9. DeadIsExhausted'
      BY <1>0, <2>1, <2>2, <2>3 DEF Outcome, Progress, NoEffect, Placement, ExclusiveHolder, TypeOK,
                            DeadIsExhausted
    <2> QED
      BY <2>4, <2>5, <2>6, <2>7, <2>8, <2>9 DEF Outcome
  <1>14. ASSUME NEW w \in Workers, BuryRemove(w) PROVE Outcome'
    <2>1. UNCHANGED <<pending, dead, acked, submitted, command, session, db, failures>>
      BY <1>14 DEF BuryRemove, Goto, HDelInflight, queueVars, sqlVars
    <2>2. pc[w] = "bury" /\ pc' = [pc EXCEPT ![w] = "push_dead"]
          /\ attempt' = attempt
      BY <1>14 DEF BuryRemove, Goto, HDelInflight
    <2> QED
      BY <1>0, <2>1, <2>2
         DEF Outcome, Progress, NoEffect, Placement, ExclusiveHolder, TypeOK, SessionEffects,
             UntouchedBeforeDelivery, OneEffect, AckedIsDurable, DeadIsExhausted
  <1>15. ASSUME NEW w \in Workers, BuryPush(w) PROVE Outcome'
    <2>1. command[w] \in Commands
      BY <1>15, BusyHolds DEF BuryPush
    <2>2. /\ UNCHANGED <<pending, acked, submitted, session, db, failures, attempt>>
          /\ pc[w] = "push_dead" /\ pc' = [pc EXCEPT ![w] = "top"]
          /\ command' = [command EXCEPT ![w] = NoCommand]
      BY <1>15 DEF BuryPush, Goto, RPushDead, sqlVars
    <2>3. Listed(dead') = Listed(dead) \cup {command[w]}
      BY <1>0, <1>15, <2>1, ListedAppend DEF BuryPush, RPushDead, TypeOK
    <2>4. \A v \in Workers : Progress(v)'
      BY <1>0, <2>1, <2>2, <2>3 DEF Outcome, Progress, NoEffect, Placement, ExclusiveHolder, TypeOK
    <2>5. SessionEffects'
      BY <1>0, <2>1, <2>2, <2>3 DEF Outcome, Progress, NoEffect, Placement, ExclusiveHolder, TypeOK,
                            SessionEffects
    <2>6. UntouchedBeforeDelivery'
      BY <1>0, <2>1, <2>2, <2>3 DEF Outcome, Progress, NoEffect, Placement, ExclusiveHolder, TypeOK,
                            UntouchedBeforeDelivery
    <2>7. OneEffect'
      BY <1>0, <2>1, <2>2, <2>3 DEF Outcome, Progress, NoEffect, Placement, ExclusiveHolder, TypeOK,
                            OneEffect
    <2>8. AckedIsDurable'
      BY <1>0, <2>1, <2>2, <2>3 DEF Outcome, Progress, NoEffect, Placement, ExclusiveHolder, TypeOK,
                            AckedIsDurable
    <2>9. DeadIsExhausted'
      BY <1>0, <2>1, <2>2, <2>3 DEF Outcome, Progress, NoEffect, Placement, ExclusiveHolder, TypeOK,
                            DeadIsExhausted
    <2> QED
      BY <2>4, <2>5, <2>6, <2>7, <2>8, <2>9 DEF Outcome
  <1>16. ASSUME NEW w \in Workers, Stop(w) PROVE Outcome'
    <2>1. UNCHANGED <<pending, dead, acked, submitted, command, session, db, failures>>
      BY <1>16 DEF Stop, Fault, queueVars, sqlVars
    <2>2. pc' = pc /\ attempt' = attempt
      BY <1>16 DEF Stop, Fault
    <2> QED
      BY <1>0, <2>1, <2>2
         DEF Outcome, Progress, NoEffect, Placement, ExclusiveHolder, TypeOK, SessionEffects,
             UntouchedBeforeDelivery, OneEffect, AckedIsDurable, DeadIsExhausted
  <1>17. ASSUME NEW w \in Workers, Shutdown(w) PROVE Outcome'
    <2>1. /\ UNCHANGED <<pending, dead, acked, submitted, failures, attempt>>
          /\ pc' = [pc EXCEPT ![w] = "down"]
          /\ command' = [command EXCEPT ![w] = NoCommand]
          /\ session' = [session EXCEPT ![w] = {}]
      BY <1>17 DEF Shutdown, Die, Goto, queueVars
    <2>2. db' = db
      BY <1>17 DEF Shutdown
    <2> QED
      BY <1>0, <2>1, <2>2, DeathKeepsOutcome
  <1>18. ASSUME NEW w \in Workers, Crash(w) PROVE Outcome'
    <2>1. /\ UNCHANGED <<pending, dead, acked, submitted, failures, attempt>>
          /\ pc' = [pc EXCEPT ![w] = "down"]
          /\ command' = [command EXCEPT ![w] = NoCommand]
          /\ session' = [session EXCEPT ![w] = {}]
      BY <1>18 DEF Crash, Die, Goto, queueVars
    <2>2. db' = db
      BY <1>18 DEF Crash
    <2> QED
      BY <1>0, <2>1, <2>2, DeathKeepsOutcome
  <1>19. ASSUME NEW w \in Workers, Restart(w) PROVE Outcome'
    <2>1. UNCHANGED <<pending, dead, acked, submitted, command, session, db, failures>>
      BY <1>19 DEF Restart, Goto, queueVars, sqlVars
    <2>2. pc[w] \in {"top", "consume", "down"} /\ attempt' = attempt
          /\ \E p \in {"top", "consume"} : pc' = [pc EXCEPT ![w] = p]
      BY <1>19 DEF Restart, Goto
    <2> QED
      BY <1>0, <2>1, <2>2
         DEF Outcome, Progress, NoEffect, Placement, ExclusiveHolder, TypeOK, SessionEffects,
             UntouchedBeforeDelivery, OneEffect, AckedIsDurable, DeadIsExhausted
  <1>20. CASE UNCHANGED vars
    BY <1>0, <1>20 DEF vars, Outcome, Progress, NoEffect, SessionEffects,
       UntouchedBeforeDelivery, OneEffect, AckedIsDurable, DeadIsExhausted
  <1> QED
    BY <1>1, <1>2, <1>3, <1>4, <1>5, <1>6, <1>7, <1>8, <1>9, <1>10, <1>11, <1>12, <1>13, <1>14, <1>15, <1>16, <1>17, <1>18, <1>19, <1>20 DEF Next, Step, Disturb

-----------------------------------------------------------------------------
(* The theorems.                                                            *)

\* An empty queue and idle workers satisfy the invariant.
LEMMA InitInductive ==
    Init => Inductive
  <1> SUFFICES ASSUME Init PROVE Inductive
    OBVIOUS
  <1> USE WorkerAssumption DEF Init, QueueInit
  <1>1. Listed(pending) = {} /\ Listed(dead) = {} /\ Distinct(pending)
    BY DEF Listed, Distinct
  <1>2. TypeOK
    BY DEF TypeOK, QueueTypeOK, Places
  <1>3. Placement
    BY <1>1 DEF Placement, ExclusiveHolder
  <1>4. Outcome
    BY <1>1 DEF Outcome, Progress, NoEffect, HasEffect, SessionEffects,
       UntouchedBeforeDelivery, OneEffect, AckedIsDurable, DeadIsExhausted
  <1> QED
    BY <1>2, <1>3, <1>4 DEF Inductive

\* The layers together are an invariant of the workers.
THEOREM WorkerInvariant == Spec => []Inductive
  <1>1. Inductive /\ [Next]_vars => Inductive'
    BY TypeInductive, PlacementInductive, OutcomeInductive DEF Inductive
  <1> QED
    BY <1>1, InitInductive, PTL DEF Spec

\* The queue and the workers keep their types: run() never counts past
\* max_attempts.
THEOREM WorkerTypes == Spec => []TypeOK
  <1>1. Inductive => TypeOK
    BY DEF Inductive
  <1> QED
    BY <1>1, WorkerInvariant, PTL

\* consume() gives each command to one worker, whatever crashes.
THEOREM CommandHasOneHolder == Spec => []ExclusiveHolder
  <1>1. Inductive => ExclusiveHolder
    BY DEF Inductive, Placement
  <1> QED
    BY <1>1, WorkerInvariant, PTL

\* An acknowledged command has its rows in the database.
THEOREM AcknowledgedIsDurable == Spec => []AckedIsDurable
  <1>1. Inductive => AckedIsDurable
    BY DEF Inductive, Outcome
  <1> QED
    BY <1>1, WorkerInvariant, PTL

\* A dead-lettered command failed max_attempts times and never completed.
THEOREM DeadLetterIsExhausted == Spec => []DeadIsExhausted
  <1>1. Inductive => DeadIsExhausted
    BY DEF Inductive, Outcome
  <1> QED
    BY <1>1, WorkerInvariant, PTL

\* No command completes twice.
THEOREM AtMostOnce == Spec => []CompletesAtMostOnce
  <1>1. Inductive => CompletesAtMostOnce
    <2> SUFFICES ASSUME Inductive,
                        NEW r \in db \cup UNION {session[w] : w \in Workers},
                        NEW s \in db \cup UNION {session[w] : w \in Workers},
                        r.kind = "effect", s.kind = "effect",
                        r.command = s.command
                 PROVE  r = s
      BY DEF CompletesAtMostOnce
    <2>0. TypeOK /\ Placement /\ Outcome
      BY DEF Inductive
    <2>1. ASSUME NEW t, NEW v \in Workers, t \in session[v], t.kind = "effect"
          PROVE  /\ t \in Row /\ pc[v] = "commit" /\ t.command = command[v]
                 /\ t.attempt = attempt[v] /\ command[v] \in Commands
                 /\ ~HasEffect(db, command[v])
      BY <2>0, <2>1, BusyHolds DEF Outcome, SessionEffects, Progress, TypeOK
    <2>2. CASE r \in db /\ s \in db
      BY <2>0, <2>2 DEF Outcome, OneEffect
    <2>3. CASE r \in db /\ s \notin db
      <3>1. PICK v \in Workers : s \in session[v]
        BY <2>3
      <3> QED
        BY <2>1, <2>3, <3>1 DEF HasEffect
    <2>4. CASE r \notin db /\ s \in db
      <3>1. PICK v \in Workers : r \in session[v]
        BY <2>4
      <3> QED
        BY <2>1, <2>4, <3>1 DEF HasEffect
    <2>5. CASE r \notin db /\ s \notin db
      <3>1. PICK v \in Workers : r \in session[v]
        BY <2>5
      <3>2. PICK u \in Workers : s \in session[u]
        BY <2>5
      <3>3. r \in Row /\ r.command = command[v] /\ r.attempt = attempt[v]
        BY <2>1, <3>1
      <3>4. s \in Row /\ s.command = command[u] /\ s.attempt = attempt[u]
            /\ command[u] \in Commands
        BY <2>1, <3>2
      <3>5. u = v
        BY <2>0, <3>3, <3>4 DEF Placement, ExclusiveHolder
      <3> QED
        BY <3>3, <3>4, <3>5 DEF Row
    <2> QED
      BY <2>2, <2>3, <2>4, <2>5
  <1> QED
    BY <1>1, WorkerInvariant, PTL

\* The in-flight hash gives a command up only once it is settled.
THEOREM ReleaseIsSettled == Spec => ReleasedOnlyWhenSettled
  <1> DEFINE Settled ==
        \A c \in inflight \ inflight' :
          \/ c \in PureCommands /\ failures[c] < MaxAttempts
          \/ HasEffect(db, c)
          \/ failures[c] = MaxAttempts
  <1>1. Inductive /\ [Next]_vars => [Settled]_vars
    <2> SUFFICES ASSUME Inductive, Next PROVE Settled
      OBVIOUS
    <2>0. \A w \in Workers : Progress(w)
      BY DEF Inductive, Outcome
    <2>1. ASSUME NEW w \in Workers, Acknowledge(w) PROVE Settled
      <3>1. inflight' = inflight \ {command[w]} /\ pc[w] = "acknowledge"
        BY <2>1 DEF Acknowledge, HDelInflight
      <3> QED
        BY <2>0, <3>1 DEF Progress
    <2>2. ASSUME NEW w \in Workers, BuryRemove(w) PROVE Settled
      <3>1. inflight' = inflight \ {command[w]} /\ pc[w] = "bury"
        BY <2>2 DEF BuryRemove, HDelInflight
      <3> QED
        BY <2>0, <3>1 DEF Progress
    <2>3. ASSUME NEW w \in Workers, ~Acknowledge(w), ~BuryRemove(w),
                 Step(w) \/ Disturb(w) \/ Restart(w)
          PROVE  inflight \subseteq inflight'
      BY <2>3 DEF Step, Disturb, EnterConsume, ConsumeTimeout, ConsumePop, ConsumeRegister, AttemptSucceeds, AttemptFails, AttemptDatabaseError, AttemptOnPoisonedSession, Commit, CommitRefused, CommitBreaks, BuryPush, Stop, Shutdown, Crash, Restart,
         BLPop, HSetInflight, RPushDead, queueVars
    <2>4. ASSUME NEW c \in Commands, Enqueue(c) PROVE inflight' = inflight
      BY <2>4 DEF Enqueue, RPushPending
    <2> QED
      BY <2>1, <2>2, <2>3, <2>4 DEF Next
  <1> QED
    BY <1>1, WorkerInvariant, PTL DEF Spec, ReleasedOnlyWhenSettled

-----------------------------------------------------------------------------
(* Refinement of the life cycle.                                            *)

\* One step of the life cycle from the change of one command's status.
LEMMA OneMove ==
    ASSUME NEW x \in Commands, NEW from, NEW to,
           status[x] = from, status'[x] = to,
           \A c \in Commands : c # x => status'[c] = status[c]
    PROVE  Lifecycle!Move(x, from, to)
  BY DEF status, Lifecycle!Move

\* Nothing moves when every command keeps its status.
LEMMA NoMove ==
    ASSUME \A c \in Commands : status'[c] = status[c]
    PROVE  UNCHANGED status
  BY DEF status

\* The status of one command.
LEMMA StatusOf ==
    ASSUME NEW c \in Commands
    PROVE  /\ status[c] =
                IF c \notin submitted THEN "new"
                ELSE IF c \in Listed(pending) THEN "queued"
                ELSE IF c \in acked THEN "done"
                ELSE IF c \in Listed(dead) THEN "dead"
                ELSE IF Held(c) THEN "running"
                ELSE "lost"
           /\ status'[c] =
                IF c \notin submitted' THEN "new"
                ELSE IF c \in Listed(pending') THEN "queued"
                ELSE IF c \in acked' THEN "done"
                ELSE IF c \in Listed(dead') THEN "dead"
                ELSE IF \E w \in Workers : command'[w] = c THEN "running"
                ELSE "lost"
  BY DEF status, Held

\* A worker that lets go of its command settles it and moves nothing else.
LEMMA LettingGo ==
    ASSUME Inductive, NEW w \in Workers,
           command' = [command EXCEPT ![w] = NoCommand],
           UNCHANGED <<pending, submitted>>,
           command[w] \in Commands,
           \/ acked' = acked \cup {command[w]} /\ UNCHANGED dead
           \/ Listed(dead') = Listed(dead) \cup {command[w]} /\ UNCHANGED acked
           \/ UNCHANGED <<acked, dead>>
    PROVE  Lifecycle!Next
  <1>0. TypeOK /\ Placement
    BY DEF Inductive
  <1>1. /\ command[w] \in submitted
        /\ command[w] \notin Listed(pending) \cup acked \cup Listed(dead)
        /\ \A v \in Workers : v # w => command[v] # command[w]
    BY <1>0, WorkerAssumption DEF Placement, ExclusiveHolder, TypeOK
  <1>2. status[command[w]] = "running"
    BY <1>1, StatusOf DEF Held
  <1>3. \A v \in Workers : command'[v] = IF v = w THEN NoCommand ELSE command[v]
    BY <1>0 DEF TypeOK
  <1>4. ~\E v \in Workers : command'[v] = command[w]
    BY <1>1, <1>3, WorkerAssumption
  <1>5. status'[command[w]] \in {"done", "dead", "lost"}
    BY <1>1, <1>4, StatusOf
  <1>6. ASSUME NEW c \in Commands, c # command[w] PROVE status'[c] = status[c]
    <2>1. (\E v \in Workers : command'[v] = c) <=> Held(c)
      BY <1>3, <1>6, WorkerAssumption DEF Held
    <2>2. (c \in acked' <=> c \in acked) /\ (c \in Listed(dead') <=> c \in Listed(dead))
      BY <1>6
    <2> QED
      BY <2>1, <2>2, StatusOf
  <1>7. PICK end \in {"done", "dead", "lost"} : status'[command[w]] = end
    BY <1>5
  <1>8. Lifecycle!Move(command[w], "running", end)
    BY <1>2, <1>6, <1>7, OneMove
  <1> QED
    BY <1>8 DEF Lifecycle!Next, Lifecycle!Settle

\* Every step of the workers is a step of the life cycle or leaves it alone.
LEMMA StepRefines ==
    ASSUME Inductive, [Next]_vars
    PROVE  [Lifecycle!Next]_status
  <1>0. TypeOK /\ Placement
    BY DEF Inductive
  <1>1. ASSUME NEW x \in Commands, Enqueue(x) PROVE Lifecycle!Next
    <2>1. /\ Listed(pending') = Listed(pending) \cup {x}
          /\ submitted' = submitted \cup {x} /\ x \notin submitted
          /\ UNCHANGED <<acked, dead, command>>
      BY <1>0, <1>1, ListedAppend
         DEF Enqueue, RPushPending, TypeOK, QueueTypeOK, workerVars
    <2>2. status[x] = "new" /\ status'[x] = "queued"
      BY <2>1, StatusOf
    <2>3. \A c \in Commands : c # x => status'[c] = status[c]
      BY <2>1, StatusOf DEF Held
    <2>4. Lifecycle!Move(x, "new", "queued")
      BY <2>2, <2>3, OneMove
    <2> QED
      BY <2>4 DEF Lifecycle!Next, Lifecycle!Submit
  <1>2. ASSUME NEW w \in Workers, ConsumePop(w) PROVE Lifecycle!Next
    <2>1. PICK x \in Commands : BLPop(x) /\ command' = [command EXCEPT ![w] = x]
      BY <1>2 DEF ConsumePop
    <2>2. /\ x \in Listed(pending)
          /\ Listed(pending') = Listed(pending) \ {x}
      BY <1>0, <2>1, ListedTail DEF BLPop, Placement, TypeOK, QueueTypeOK
    <2>3. UNCHANGED <<submitted, acked, dead>> /\ pc[w] = "consume"
      BY <1>2, <2>1 DEF ConsumePop, BLPop
    <2>4. x \in submitted /\ x \notin acked \cup Listed(dead)
          /\ command[w] = NoCommand
      BY <1>0, <2>2, <2>3 DEF Placement, ExclusiveHolder
    <2>5. \A v \in Workers : command'[v] = IF v = w THEN x ELSE command[v]
      BY <1>0, <2>1 DEF TypeOK
    <2>6. status[x] = "queued" /\ status'[x] = "running"
      BY <2>2, <2>3, <2>4, <2>5, StatusOf
    <2>7. ASSUME NEW c \in Commands, c # x PROVE status'[c] = status[c]
      <3>1. (\E v \in Workers : command'[v] = c) <=> Held(c)
        BY <2>4, <2>5, <2>7, WorkerAssumption DEF Held
      <3> QED
        BY <2>2, <2>3, <2>7, <3>1, StatusOf
    <2>8. Lifecycle!Move(x, "queued", "running")
      BY <2>6, <2>7, OneMove
    <2> QED
      BY <2>8 DEF Lifecycle!Next, Lifecycle!Take
  <1>3. ASSUME NEW w \in Workers, Acknowledge(w) PROVE Lifecycle!Next
    <2>1. command[w] \in Commands
      BY <1>3, BusyHolds DEF Acknowledge
    <2> QED
      BY <1>3, <2>1, LettingGo DEF Acknowledge, HDelInflight
  <1>4. ASSUME NEW w \in Workers, BuryPush(w) PROVE Lifecycle!Next
    <2>1. command[w] \in Commands
      BY <1>4, BusyHolds DEF BuryPush
    <2>2. Listed(dead') = Listed(dead) \cup {command[w]}
      BY <1>0, <1>4, <2>1, ListedAppend
         DEF BuryPush, RPushDead, TypeOK, QueueTypeOK
    <2> QED
      BY <1>4, <2>1, <2>2, LettingGo DEF BuryPush, RPushDead
  <1>5. ASSUME NEW w \in Workers, Die(w),
               UNCHANGED <<pending, dead, acked, submitted>>
        PROVE  Lifecycle!Next \/ UNCHANGED status
    <2>0. command' = [command EXCEPT ![w] = NoCommand]
      BY <1>5 DEF Die
    <2>1. CASE command[w] \in Commands
      BY <1>5, <2>0, <2>1, LettingGo
    <2>2. CASE command[w] = NoCommand
      <3>1. command' = command
        BY <1>0, <2>0, <2>2 DEF TypeOK
      <3> QED
        BY <1>5, <3>1, StatusOf, NoMove DEF Held
    <2> QED
      BY <1>0, <2>1, <2>2 DEF TypeOK
  <1>6. ASSUME NEW w \in Workers,
               CommitRefused(w) \/ CommitBreaks(w) \/ Shutdown(w) \/ Crash(w)
        PROVE  Lifecycle!Next \/ UNCHANGED status
    BY <1>5, <1>6 DEF CommitRefused, CommitBreaks, Shutdown, Crash, queueVars
  <1>7. ASSUME UNCHANGED <<pending, dead, acked, submitted, command>>
        PROVE  UNCHANGED status
    BY <1>7, StatusOf, NoMove DEF Held
  <1>8. ASSUME NEW w \in Workers,
               \/ EnterConsume(w) \/ ConsumeTimeout(w) \/ ConsumeRegister(w)
               \/ AttemptSucceeds(w) \/ AttemptFails(w)
               \/ AttemptDatabaseError(w) \/ AttemptOnPoisonedSession(w)
               \/ Commit(w) \/ BuryRemove(w) \/ Stop(w) \/ Restart(w)
        PROVE  UNCHANGED <<pending, dead, acked, submitted, command>>
    BY <1>8 DEF EnterConsume, ConsumeTimeout, ConsumeRegister, AttemptSucceeds,
       AttemptFails, AttemptDatabaseError, AttemptOnPoisonedSession, Commit,
       BuryRemove, Stop, Restart, HSetInflight, HDelInflight, queueVars
  <1>9. CASE UNCHANGED vars
    BY <1>7, <1>9 DEF vars
  <1> QED
    BY <1>1, <1>2, <1>3, <1>4, <1>6, <1>7, <1>8, <1>9 DEF Next, Step, Disturb

\* Redis and the workers implement the life cycle: at most one delivery, at
\* most one outcome, loss only out of the hands of a worker.
THEOREM WorkersImplementLifecycle == Spec => ImplementsLifecycle
  <1>1. Init => Lifecycle!Init
    BY DEF Init, Lifecycle!Init, status
  <1> QED
    BY <1>1, StepRefines, WorkerInvariant, PTL
       DEF Spec, ImplementsLifecycle, Lifecycle!Spec
=============================================================================
