---------------------------- MODULE MCWorkerLoop ----------------------------
(* WorkerLoop with symmetric workers and symmetric database commands.       *)
EXTENDS WorkerLoop, TLC

CONSTANTS c1, c2, p1, w1, w2

MCCommands == {c1, c2, p1}
MCPureCommands == {p1}
MCWorkers == {w1, w2}
MCOneEach == {c1, p1}
MCOneWorker == {w1}
MCSymmetry == Permutations({c1, c2}) \cup Permutations({w1, w2})
=============================================================================
