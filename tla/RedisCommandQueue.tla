------------------------- MODULE RedisCommandQueue -------------------------
(***************************************************************************)
(* The command queue of src/brain/adapters/queue/redis.py: a list of       *)
(* pending envelopes, a hash of unacknowledged ones and a dead-letter      *)
(* list.  Every operator below is one Redis call; consume and dead_letter  *)
(* are two calls each, and the process that makes them can die in between. *)
(* A command stands for its envelope: command_id is a fresh uuid, so no    *)
(* envelope is ever enqueued twice.                                        *)
(***************************************************************************)
EXTENDS Naturals, Sequences

CONSTANT Commands

VARIABLES
    pending,    \* "{queue}:pending", oldest first
    inflight,   \* the keys of "{queue}:inflight"
    dead        \* "{queue}:dead"

queueVars == <<pending, inflight, dead>>

QueueTypeOK ==
    /\ pending \in Seq(Commands)
    /\ inflight \in SUBSET Commands
    /\ dead \in Seq(Commands)

QueueInit ==
    /\ pending = << >>
    /\ inflight = {}
    /\ dead = << >>

\* Members of a list of commands.
Listed(list) == {list[i] : i \in DOMAIN list}

\* enqueue: RPUSH.
RPushPending(c) ==
    /\ pending' = Append(pending, c)
    /\ UNCHANGED <<inflight, dead>>

\* Mutant: a consumer that reads the head and leaves it in the list.
PeekInsteadOfPop(c) ==
    /\ pending # << >>
    /\ c = Head(pending)
    /\ UNCHANGED queueVars

\* First half of consume: BLPOP returns the oldest envelope.
BLPop(c) ==
    /\ pending # << >>
    /\ c = Head(pending)
    /\ pending' = Tail(pending)
    /\ UNCHANGED <<inflight, dead>>

\* Second half of consume: HSET.
HSetInflight(c) ==
    /\ inflight' = inflight \cup {c}
    /\ UNCHANGED <<pending, dead>>

\* acknowledge, and the first half of dead_letter: HDEL.
HDelInflight(c) ==
    /\ inflight' = inflight \ {c}
    /\ UNCHANGED <<pending, dead>>

\* Second half of dead_letter: RPUSH on the dead list.
RPushDead(c) ==
    /\ dead' = Append(dead, c)
    /\ UNCHANGED <<pending, inflight>>
=============================================================================
