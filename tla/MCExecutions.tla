---------------------------- MODULE MCExecutions ----------------------------
(***************************************************************************)
(* Two workers; command c1 on a repository and c2 for an item that is      *)
(* gone; two attempts, one crash and a few requests.                       *)
(***************************************************************************)
EXTENDS Executions, TLC

CONSTANTS w1, w2, c1, c2, i1, f, t

MCItemOf == [c \in Commands |-> IF c = c2 THEN None ELSE i1]
MCRepositoryOf == i1 :> "repository"
MCSignals == i1 :> {"high", "medium"}
MCPolicySet == DefaultPolicySet
MCTargets == {[command |-> c1, attempt |-> 1]}
MCAnswers == {"completed", "running", "malformed"}
MCVerifyRequests == {[criteria |-> TRUE, changed |-> {f}, expected |-> {f}],
                     [criteria |-> TRUE, changed |-> {f}, expected |-> {t}]}
=============================================================================
