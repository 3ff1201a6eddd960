--------------------------- MODULE ExecutionGates ---------------------------
(***************************************************************************)
(* The decisions that stand between an execution and a pull request: the   *)
(* risk and policy evaluation of policy_service.py, the checks and the     *)
(* verdict of verification_engine.py, the retry classifications and the    *)
(* reading of an executor's answer.  Every operator is a pure function of  *)
(* its arguments; Executions and EngineeringWorkflow use them.             *)
(***************************************************************************)
EXTENDS Naturals, Sequences, FiniteSets

CONSTANTS
    Files,        \* paths a change may touch
    TestFiles,    \* the ones _is_test_path accepts
    RuledFiles    \* the ones an architecture rule's source pattern matches

ASSUME GateAssumption == TestFiles \subseteq Files /\ RuledFiles \subseteq Files

-----------------------------------------------------------------------------
(* Executions.                                                              *)

ExecutionStatus == {"requested", "started", "running", "completed", "failed",
                    "cancelled", "blocked"}
Terminal == {"completed", "failed", "cancelled"}
InProgress == {"started", "running"}

\* What the Pi transport hands back: a status word the adapter knows, one it
\* does not know, no answer at all, or a status that is not a string.
Answers == ExecutionStatus \cup {"unknown word", "unreachable", "malformed"}

\* _status_from takes an unknown word for success; execute() turns a transport
\* failure into a failed result; reading a malformed answer raises.
Raises(answer) == answer = "malformed"
StatusFrom(answer) ==
    CASE answer \in ExecutionStatus -> answer
      [] answer = "unknown word" -> "completed"
      [] answer = "unreachable" -> "failed"

-----------------------------------------------------------------------------
(* Risk and policy.                                                         *)

RiskLevel == {"low", "medium", "high", "critical"}
ApprovalType == {"plan", "architecture", "security", "pr", "execution"}
PolicyAction == {"allow", "deny", "require_approval"}
NoApproval == "none"
Permissions == {"repository_read", "repository_write", "shell", "network",
                "git_commit", "git_push", "create_pull_request",
                "merge_pull_request", "run_containers", "access_secrets",
                "deploy"}
PolicyRule == [risks : SUBSET RiskLevel, action : PolicyAction,
               approval : ApprovalType \cup {NoApproval},
               permissions : SUBSET Permissions]

\* DefaultPolicyProvider: high risk asks for an approval of the execution.
DefaultPolicySet ==
    {[risks |-> {"high"}, action |-> "require_approval",
      approval |-> "execution", permissions |-> {}]}

\* The patterns are tried by level: any high one decides, then any medium one.
ClassifyRisk(signals) ==
    CASE "high" \in signals -> "high"
      [] "high" \notin signals /\ "medium" \in signals -> "medium"
      [] OTHER -> "low"

RulesForRisk(policySet, risk) == {rule \in policySet : risk \in rule.risks}

\* Permissions of the matching rules are merged by OR with the read-only default.
MergePermissions(base, rules) == base \cup UNION {r.permissions : r \in rules}

Evaluate(policySet, signals) ==
    LET rules == RulesForRisk(policySet, ClassifyRisk(signals))
    IN  [permissions |-> MergePermissions({"repository_read"}, rules),
         approvals |-> {r.approval : r \in {q \in rules :
                          /\ q.action = "require_approval"
                          /\ q.approval # NoApproval}},
         allowed |-> \A r \in rules : r.action # "deny"]

\* PullRequestService._policy_permits.
PolicyPermits(policySet, signals) ==
    LET evaluation == Evaluate(policySet, signals)
    IN  evaluation.allowed /\ "pr" \notin evaluation.approvals

-----------------------------------------------------------------------------
(* Verification: the checks, the verdict, the gate.                         *)

CheckStatus == {"pass", "partial", "fail"}
Verdict == {"pass", "partial", "fail", "blocked"}

\* A command step passes on exit code 0; a timeout is exit code -1 and an
\* unreadable exit code is 1.
CommandStep(exitCode) ==
    CASE exitCode = "timed out" -> "fail"
      [] exitCode = "unreadable" -> "fail"
      [] exitCode \in Nat -> IF exitCode = 0 THEN "pass" ELSE "fail"

StructuralStep(changed, expected) ==
    IF expected \subseteq changed THEN "pass" ELSE "fail"

ArchitectureStep(changed) ==
    IF changed \cap RuledFiles = {} THEN "pass" ELSE "fail"

TestRelevanceStep(changed, expected) ==
    IF (expected \cap TestFiles) \subseteq (changed \cap TestFiles)
    THEN "pass" ELSE "partial"

AggregateVerdict(steps, criteria, changed) ==
    CASE "fail" \in steps \/ changed = {} -> "fail"
      [] "fail" \notin steps /\ changed # {} /\ "partial" \in steps -> "partial"
      [] steps \cap {"fail", "partial"} = {} /\ changed # {} /\ ~criteria
           -> "blocked"
      [] OTHER -> "pass"

\* verify(): the project's commands, then the three built-in checks.
Verify(exitCodes, criteria, changed, expected) ==
    AggregateVerdict({CommandStep(x) : x \in exitCodes}
                       \cup {StructuralStep(changed, expected),
                             ArchitectureStep(changed),
                             TestRelevanceStep(changed, expected)},
                     criteria, changed)

PRAllowed(verdict) == verdict = "pass"

-----------------------------------------------------------------------------
(* Retries.                                                                 *)

\* WorkflowEngine._retry_decision: only an error that names verification or a
\* tool is retried; no error at all is not a retryable condition.
RetryDecision(lastError) == lastError \in {"verification", "tool"}
=============================================================================
