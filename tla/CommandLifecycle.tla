-------------------------- MODULE CommandLifecycle --------------------------
(***************************************************************************)
(* What the command queue and the workers promise about one command: it is *)
(* delivered at most once, it is settled at most once, and it can be lost  *)
(* only while a worker holds it.  Once enqueued it is settled or lost in   *)
(* the end.                                                                *)
(***************************************************************************)
CONSTANT Commands

VARIABLE status

Statuses == {"new", "queued", "running", "done", "dead", "lost"}

TypeOK == status \in [Commands -> Statuses]

Init == status = [c \in Commands |-> "new"]

Move(c, from, to) ==
    /\ status[c] = from
    /\ status' = [status EXCEPT ![c] = to]

Submit(c) == Move(c, "new", "queued")
Take(c) == Move(c, "queued", "running")
Settle(c) == \E end \in {"done", "dead", "lost"} : Move(c, "running", end)

Next == \E c \in Commands : Submit(c) \/ Take(c) \/ Settle(c)

Spec == Init /\ [][Next]_status

Fairness == \A c \in Commands : WF_status(Take(c)) /\ WF_status(Settle(c))

FairSpec == Spec /\ Fairness
=============================================================================
