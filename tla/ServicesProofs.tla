--------------------------- MODULE ServicesProofs ---------------------------
(***************************************************************************)
(* The knowledge graph and the context engine for every set of file trees, *)
(* rows, projects, entities, scores, past executions and requests; and the *)
(* services together.                                                      *)
(*                                                                         *)
(* ProjectionIsComplete speaks of projections that ended; KnowledgeInv     *)
(* says of one that runs what it will leave (IsJob), and of the code graph *)
(* that the facts of every tree a revision holds are stored.  The rest is  *)
(* about operators: what the resolver links is what a call means, impact   *)
(* analysis finds a stored caller, a search through the edges in memory    *)
(* finds the ends of all paths that Neo4j matches.                         *)
(*                                                                         *)
(* CapsuleKeepsBest follows from KeepsBest, which says of the first n      *)
(* candidates what the property says of all; Select keeps it from n to     *)
(* n + 1.                                                                  *)
(*                                                                         *)
(* Folds over a sequence and walks of a given depth are functions on 0..n. *)
(* What they compute is shown by the least number of a set of numbers:     *)
(* Iteration gives such a function its recursion equation, and Climb takes *)
(* a fact from 0 along the steps up to n.                                  *)
(***************************************************************************)
EXTENDS Services, WorkflowProofs, PostgresStoreProofs, FiniteSetTheorems,
        WellFoundedInduction, SequenceTheorems, TLAPS

-----------------------------------------------------------------------------
(* Induction over the natural numbers, in the form of the least number of a *)
(* set of numbers.                                                          *)

\* A set of natural numbers that is not empty has a least element.
LEMMA LeastNumber ==
  ASSUME NEW T, T \subseteq Nat, T # {}
  PROVE  \E x \in T : \A y \in T : x <= y
  <1>1. PICK x \in T : \A y \in T : ~(<<y, x>> \in OpToRel(<, Nat))
    BY NatLessThanWellFounded, WFMin
  <1>2. \A y \in T : ~(y < x)
    BY <1>1 DEF OpToRel
  <1> QED
    BY <1>2

\* A set that holds 0 and, with a number below d, the next one too, holds 0..d.
LEMMA Climb ==
  ASSUME NEW d \in Nat, NEW T, 0 \in T,
         \A n \in 0..d : n < d /\ n \in T => n + 1 \in T
  PROVE  0..d \subseteq T
  <1> DEFINE Missing == {n \in 0..d : n \notin T}
  <1> SUFFICES ASSUME Missing # {} PROVE FALSE
    OBVIOUS
  <1>0. Missing \subseteq Nat
    OBVIOUS
  <1>1. PICK n \in Missing : \A y \in Missing : n <= y
    <2> HIDE DEF Missing
    <2> QED BY <1>0, LeastNumber
  <1>2. n - 1 \in 0..d /\ n - 1 < d
    BY <1>1
  <1>3. n - 1 \in T
    BY <1>1, <1>2
  <1>4. (n - 1) + 1 \in T
    BY <1>2, <1>3
  <1> QED
    BY <1>1, <1>4

\* A bounded set of natural numbers that is not empty has a greatest element.
LEMMA GreatestNumber ==
  ASSUME NEW d \in Nat, NEW T, T \subseteq 0..d, T # {}
  PROVE  \E x \in T : \A y \in T : y <= x
  <1> DEFINE Mirror == {d - x : x \in T}
  <1>1. PICK m \in Mirror : \A y \in Mirror : m <= y
    <2>1. \A x \in T : d - x \in Nat
      OBVIOUS
    <2>2. Mirror \subseteq Nat /\ Mirror # {}
      BY <2>1
    <2> HIDE DEF Mirror
    <2> QED
      BY <2>2, LeastNumber
  <1>2. PICK x \in T : m = d - x
    BY <1>1
  <1>3. \A y \in T : d - x <= d - y
    BY <1>1, <1>2
  <1> QED
    BY <1>2, <1>3

\* The values f takes from base by d steps of F.
Steps(F, d, S) == F \in [(1..d) \X S -> S]
Iterates(f, F, base, d, S) ==
    /\ f \in [0..d -> S]
    /\ f[0] = base
    /\ \A n \in 1..d : f[n] = F[<<n, f[n - 1]>>]

\* A step function on a set can be applied d times in a row.
LEMMA Iteration ==
  ASSUME NEW S, NEW base \in S, NEW d \in Nat, NEW F, Steps(F, d, S)
  PROVE  \E f : Iterates(f, F, base, d, S)
  <1> USE DEF Steps
  <1> DEFINE Upto(k) == \E f \in [0..k -> S] :
                          f[0] = base /\ \A n \in 1..k : f[n] = F[<<n, f[n - 1]>>]
             T == {k \in 0..d : Upto(k)}
  <1>1. 0 \in T
    <2>1. [n \in 0..0 |-> base] \in [0..0 -> S]
      OBVIOUS
    <2>2. Upto(0)
      <3> WITNESS [n \in 0..0 |-> base] \in [0..0 -> S]
      <3> QED OBVIOUS
    <2> QED
      BY <2>2
  <1>2. ASSUME NEW k \in 0..d, k < d, k \in T
        PROVE  k + 1 \in T
    <2>1. PICK f \in [0..k -> S] :
                 f[0] = base /\ \A n \in 1..k : f[n] = F[<<n, f[n - 1]>>]
      BY <1>2
    <2> DEFINE g == [n \in 0..(k + 1) |-> IF n <= k THEN f[n] ELSE F[<<n, f[n - 1]>>]]
    <2>2. F[<<k + 1, f[k]>>] \in S
      <3>1. k + 1 \in 1..d /\ f[k] \in S
        BY <1>2, <2>1
      <3> QED
        BY <3>1
    <2>3. g \in [0..(k + 1) -> S]
      BY <2>1, <2>2
    <2>4. g[0] = base
      BY <2>1
    <2>5. ASSUME NEW n \in 1..(k + 1) PROVE g[n] = F[<<n, g[n - 1]>>]
      BY <2>1, <2>5
    <2>6. Upto(k + 1)
      BY <2>3, <2>4, <2>5
    <2> QED
      BY <2>6, <1>2
  <1>3. 0..d \subseteq T
    <2> HIDE DEF T
    <2> QED BY <1>1, <1>2, Climb
  <1> QED
    BY <1>3 DEF Iterates

-----------------------------------------------------------------------------
(* Walks in the knowledge graph, of any depth.                              *)

\* One round of _bfs.
NextFront(hops, before) ==
    LET past == before.reached \cup before.frontier
    IN  [reached |-> past,
         frontier |-> {h.to : h \in {x \in hops : /\ x.from \in before.frontier
                                                  /\ x.to \notin past}}]

\* The recursive function of _bfs is the one its equation describes.
LEMMA WalkDef ==
  ASSUME NEW hops, NEW starts, NEW depth \in Nat
  PROVE  LET walk == Walk(hops, starts, depth)
         IN  /\ walk[0] = [reached |-> {}, frontier |-> starts]
             /\ \A n \in 1..depth : walk[n] = NextFront(hops, walk[n - 1])
  <1> DEFINE Nodes == starts \cup {h.to : h \in hops}
             S == [reached : SUBSET Nodes, frontier : SUBSET Nodes]
             base == [reached |-> {}, frontier |-> starts]
             F == [x \in (1..depth) \X S |-> NextFront(hops, x[2])]
             Eq(w) == w = [n \in 0..depth |->
                             IF n = 0 THEN base
                             ELSE NextFront(hops, w[n - 1])]
  <1>1. base \in S
    OBVIOUS
  <1>2. \A x \in S : NextFront(hops, x) \in S
    BY DEF NextFront
  <1>3. F \in [(1..depth) \X S -> S]
    BY <1>2
  <1>4. PICK w \in [0..depth -> S] :
               w[0] = base /\ \A n \in 1..depth : w[n] = F[<<n, w[n - 1]>>]
    <2> HIDE DEF S, F, base
    <2>1. Steps(F, depth, S)
      BY <1>3 DEF Steps
    <2>2. PICK w : Iterates(w, F, base, depth, S)
      BY <1>1, <2>1, Iteration
    <2> QED BY <2>2 DEF Iterates
  <1>5. \A n \in 1..depth : w[n] = NextFront(hops, w[n - 1])
    <2> SUFFICES ASSUME NEW n \in 1..depth PROVE w[n] = NextFront(hops, w[n - 1])
      OBVIOUS
    <2>1. n - 1 \in 0..depth
      OBVIOUS
    <2>2. w[n - 1] \in S
      BY <2>1, <1>4
    <2>3. <<n, w[n - 1]>> \in (1..depth) \X S
      BY <2>2
    <2>4. F[<<n, w[n - 1]>>] = NextFront(hops, w[n - 1])
      BY <2>3
    <2> QED
      BY <1>4, <2>4
  <1>6. Eq(w)
    <2> HIDE DEF base, S, F, NextFront
    <2>1. \A n \in 0..depth : w[n] = IF n = 0 THEN base ELSE NextFront(hops, w[n - 1])
      BY <1>4, <1>5
    <2>2. w = [n \in 0..depth |-> w[n]]
      BY <1>4
    <2> QED
      BY <2>1, <2>2
  <1>7. Eq(Walk(hops, starts, depth))
    <2>1. \E v : Eq(v)
      BY <1>6
    <2> QED
      BY <2>1 DEF Walk, NextFront
  <1>8. \A n \in 0..depth : Walk(hops, starts, depth)[n] =
            IF n = 0 THEN base ELSE NextFront(hops, Walk(hops, starts, depth)[n - 1])
    <2> DEFINE W == Walk(hops, starts, depth)
    <2> HIDE DEF W, base, NextFront
    <2>1. Eq(W)
      BY <1>7 DEF W
    <2>2. \A n \in 0..depth : W[n] = IF n = 0 THEN base ELSE NextFront(hops, W[n - 1])
      BY <2>1
    <2> QED
      BY <2>2 DEF W
  <1>9. /\ Walk(hops, starts, depth)[0] = base
        /\ \A n \in 1..depth : Walk(hops, starts, depth)[n] =
             NextFront(hops, Walk(hops, starts, depth)[n - 1])
    <2> HIDE DEF base
    <2> QED BY <1>8
  <1> QED
    BY <1>9, Zenon

\* The recursive function of _traverse is the one its equation describes.
LEMMA PathsDef ==
  ASSUME NEW hops, NEW starts, NEW depth \in Nat
  PROVE  /\ Paths(hops, starts, depth)[0] = starts
         /\ \A n \in 1..depth : Paths(hops, starts, depth)[n] =
              {h.to : h \in {x \in hops : x.from \in Paths(hops, starts, depth)[n - 1]}}
  <1> DEFINE Nodes == starts \cup {h.to : h \in hops}
             S == SUBSET Nodes
             Next1(before) == {h.to : h \in {x \in hops : x.from \in before}}
             F == [x \in (1..depth) \X S |-> Next1(x[2])]
             Eq(w) == w = [n \in 0..depth |-> IF n = 0 THEN starts
                                              ELSE Next1(w[n - 1])]
             W == Paths(hops, starts, depth)
  <1>1. starts \in S
    OBVIOUS
  <1>2. \A x \in S : Next1(x) \in S
    OBVIOUS
  <1>3. F \in [(1..depth) \X S -> S]
    BY <1>2
  <1>4. PICK w \in [0..depth -> S] :
               w[0] = starts /\ \A n \in 1..depth : w[n] = F[<<n, w[n - 1]>>]
    <2> HIDE DEF S, F
    <2>1. Steps(F, depth, S)
      BY <1>3 DEF Steps
    <2>2. PICK w : Iterates(w, F, starts, depth, S)
      BY <1>1, <2>1, Iteration
    <2> QED BY <2>2 DEF Iterates
  <1>5. \A n \in 1..depth : w[n] = Next1(w[n - 1])
    <2> SUFFICES ASSUME NEW n \in 1..depth PROVE w[n] = Next1(w[n - 1])
      OBVIOUS
    <2>1. n - 1 \in 0..depth
      OBVIOUS
    <2>2. w[n - 1] \in S
      BY <2>1, <1>4
    <2>3. <<n, w[n - 1]>> \in (1..depth) \X S
      BY <2>2
    <2>4. F[<<n, w[n - 1]>>] = Next1(w[n - 1])
      BY <2>3
    <2> QED
      BY <1>4, <2>4
  <1>6. Eq(w)
    <2> HIDE DEF S, F, Next1
    <2>1. \A n \in 0..depth : w[n] = IF n = 0 THEN starts ELSE Next1(w[n - 1])
      BY <1>4, <1>5
    <2>2. w = [n \in 0..depth |-> w[n]]
      BY <1>4
    <2> QED
      BY <2>1, <2>2
  <1>7. Eq(W)
    <2>1. \E v : Eq(v)
      BY <1>6
    <2> QED
      BY <2>1 DEF Paths
  <1>8. \A n \in 0..depth : W[n] = IF n = 0 THEN starts ELSE Next1(W[n - 1])
    <2> HIDE DEF W, Next1
    <2> QED
      BY <1>7
  <1> QED
    <2> HIDE DEF W
    <2>1. W[0] = starts /\ \A n \in 1..depth : W[n] = Next1(W[n - 1])
      <3> HIDE DEF Next1
      <3> QED BY <1>8
    <2> QED
      BY <2>1 DEF W

\* Where paths of n edges lead, n rounds of the search have been: the search
\* goes on from each node once, which is enough.
LEMMA SearchCoversPaths ==
  ASSUME NEW hops, NEW more, hops \subseteq more, NEW starts, NEW from,
         from \subseteq starts, NEW depth \in Nat, NEW n \in 0..depth
  PROVE  LET last == Walk(more, starts, depth)[depth]
         IN  Paths(hops, from, depth)[n] \subseteq last.reached \cup last.frontier
  <1> DEFINE W == Walk(more, starts, depth)
             P == Paths(hops, from, depth)
             Seen(k) == W[k].reached \cup W[k].frontier
             \* What was reached before has had all its hops taken.
             Closed(k) == \A h \in more : h.from \in W[k].reached => h.to \in Seen(k)
             T == {k \in 0..depth : \A j \in 0..k : P[j] \subseteq Seen(k)}
             C == {k \in 0..depth : Closed(k)}
  <1>1. /\ W[0] = [reached |-> {}, frontier |-> starts]
        /\ \A k \in 1..depth : W[k] = NextFront(more, W[k - 1])
    BY WalkDef
  <1>2. /\ P[0] = from
        /\ \A k \in 1..depth : P[k] = {h.to : h \in {x \in hops : x.from \in P[k - 1]}}
    BY PathsDef
  <1> HIDE DEF W, P
  <1>3. \A k \in 1..depth : /\ W[k].reached = Seen(k - 1)
                            /\ \A h \in more : /\ h.from \in W[k - 1].frontier
                                               /\ h.to \notin Seen(k - 1)
                                               => h.to \in W[k].frontier
    <2> SUFFICES ASSUME NEW k \in 1..depth
                 PROVE  /\ W[k].reached = Seen(k - 1)
                        /\ \A h \in more : /\ h.from \in W[k - 1].frontier
                                           /\ h.to \notin Seen(k - 1)
                                           => h.to \in W[k].frontier
      BY Zenon
    <2> DEFINE B == W[k - 1]
    <2>1. W[k] = NextFront(more, B)
      BY <1>1
    <2> HIDE DEF B
    <2>2. /\ W[k].reached = B.reached \cup B.frontier
          /\ W[k].frontier = {h.to : h \in {x \in more :
                /\ x.from \in B.frontier
                /\ x.to \notin B.reached \cup B.frontier}}
      BY <2>1 DEF NextFront
    <2> QED
      BY <2>2 DEF B
  <1>4. 0..depth \subseteq C
    <2>1. 0 \in C
      BY <1>1
    <2>2. ASSUME NEW k \in 0..depth, k < depth, k \in C
          PROVE  k + 1 \in C
      <3>1. k + 1 \in 1..depth /\ (k + 1) - 1 = k
        BY <2>2
      <3>2. /\ W[k + 1].reached = Seen(k)
            /\ \A h \in more : /\ h.from \in W[k].frontier
                               /\ h.to \notin Seen(k)
                               => h.to \in W[k + 1].frontier
        BY <1>3, <3>1
      <3>3. Closed(k)
        BY <2>2
      <3>4. Closed(k + 1)
        BY <3>2, <3>3
      <3> QED
        BY <3>1, <3>4
    <2> HIDE DEF C
    <2> QED
      BY <2>1, <2>2, Climb
  <1>5. 0..depth \subseteq T
    <2>1. 0 \in T
      BY <1>1, <1>2
    <2>2. ASSUME NEW k \in 0..depth, k < depth, k \in T
          PROVE  k + 1 \in T
      <3>1. k + 1 \in 1..depth /\ (k + 1) - 1 = k
        BY <2>2
      <3>2. Seen(k) \subseteq Seen(k + 1)
        BY <1>3, <3>1
      <3>3. Closed(k + 1)
        BY <1>4, <3>1
      <3>4. P[k + 1] \subseteq Seen(k + 1)
        <4> SUFFICES ASSUME NEW y \in P[k + 1] PROVE y \in Seen(k + 1)
          OBVIOUS
        <4>1. PICK h \in hops : h.from \in P[k] /\ y = h.to
          BY <1>2, <3>1
        <4>2. h.from \in Seen(k)
          BY <2>2, <4>1
        <4>3. h.from \in W[k + 1].reached
          BY <1>3, <3>1, <4>2
        <4> QED
          BY <4>1, <4>3, <3>3
      <3>5. \A j \in 0..(k + 1) : P[j] \subseteq Seen(k + 1)
        <4> SUFFICES ASSUME NEW j \in 0..(k + 1) PROVE P[j] \subseteq Seen(k + 1)
          OBVIOUS
        <4>1. CASE j = k + 1
          BY <3>4, <4>1
        <4>2. CASE j \in 0..k
          BY <2>2, <3>2, <4>2
        <4> QED
          BY <4>1, <4>2
      <3> QED
        BY <3>1, <3>5
    <2> HIDE DEF T
    <2> QED
      BY <2>1, <2>2, Climb
  <1>6. P[n] \subseteq Seen(depth)
    BY <1>5
  <1> QED
    BY <1>6 DEF W, P

-----------------------------------------------------------------------------
(* The code graph: what builds leave in the store.                          *)

\* The facts of every tree that a revision holds are stored.
FactsAreStored ==
    \A v \in Revisions : \A tree \in built[v] :
        /\ TreeSymbols(tree) \subseteq {x.symbol : x \in StoredSymbols(v)}
        /\ ResolvedRelations(tree) \subseteq StoredLinks(v)

\* After one build there is one tree, and all symbols are its symbols.
OneTree ==
    /\ builds = 0 => symbols = {} /\ \A v \in Revisions : built[v] = {}
    /\ builds <= 1 =>
         /\ \A v, w \in Revisions : \A t1 \in built[v], t2 \in built[w] : t1 = t2
         /\ \A x \in symbols : \E tree \in built[x.revision] :
              x.symbol \in TreeSymbols(tree)

CodeInv ==
    /\ CodeTypeOK
    /\ IsFiniteSet(symbols) /\ IsFiniteSet(codeLinks)
    /\ FactsAreStored
    /\ OneTree

LEMMA CodeStarts == CodeInit => CodeInv
  <1> SUFFICES ASSUME CodeInit PROVE CodeInv
    OBVIOUS
  <1>1. CodeTypeOK
    BY CodeAssumption DEF CodeInit, CodeTypeOK
  <1>2. IsFiniteSet(symbols) /\ IsFiniteSet(codeLinks)
    BY FS_EmptySet DEF CodeInit
  <1>3. FactsAreStored /\ OneTree
    BY DEF CodeInit, FactsAreStored, OneTree
  <1> QED
    BY <1>1, <1>2, <1>3 DEF CodeInv

\* What a build writes: typed, finite facts of the revision and of this build.
LEMMA NewFacts ==
  ASSUME builds \in Nat, NEW v \in Revisions, NEW tree \in Trees
  PROVE  /\ IsFiniteSet(NewSymbols(v, tree)) /\ IsFiniteSet(NewLinks(v, tree))
         /\ \A x \in NewSymbols(v, tree) :
              x.revision = v /\ x.build = builds + 1 /\ x.symbol \in TreeSymbols(tree)
         /\ \A x \in NewLinks(v, tree) : x.revision = v /\ x.build = builds + 1
         /\ TreeSymbols(tree) \subseteq {x.symbol : x \in NewSymbols(v, tree)}
         /\ ResolvedRelations(tree) \subseteq {x.link : x \in NewLinks(v, tree)}
  <1> DEFINE MakeSymbol == [x \in TreeSymbols(tree) |->
                              [revision |-> v, symbol |-> x, build |-> builds + 1]]
             MakeLink == [x \in ResolvedRelations(tree) |->
                            [revision |-> v, link |-> x, build |-> builds + 1]]
  <1>1. IsFiniteSet(TreeSymbols(tree)) /\ IsFiniteSet(ResolvedRelations(tree))
    BY TreeAssumption
  <1>2. IsFiniteSet(NewSymbols(v, tree))
    <2>1. NewSymbols(v, tree) = {[revision |-> v, symbol |-> x, build |-> builds + 1] :
                                   x \in TreeSymbols(tree)}
      BY DEF NewSymbols
    <2>2. NewSymbols(v, tree) = {MakeSymbol[x] : x \in TreeSymbols(tree)}
      BY <2>1
    <2>3. MakeSymbol \in Surjection(TreeSymbols(tree), NewSymbols(v, tree))
      BY <2>2 DEF Surjection
    <2> HIDE DEF MakeSymbol
    <2> QED
      BY <1>1, <2>3, FS_Surjection
  <1>3. IsFiniteSet(NewLinks(v, tree))
    <2>1. NewLinks(v, tree) = {MakeLink[x] : x \in ResolvedRelations(tree)}
      BY DEF NewLinks
    <2>2. MakeLink \in Surjection(ResolvedRelations(tree), NewLinks(v, tree))
      BY <2>1 DEF Surjection
    <2> HIDE DEF MakeLink
    <2> QED
      BY <1>1, <2>2, FS_Surjection
  <1>4. \A x \in NewSymbols(v, tree) :
          x.revision = v /\ x.build = builds + 1 /\ x.symbol \in TreeSymbols(tree)
    BY DEF NewSymbols
  <1>5. \A x \in NewLinks(v, tree) : x.revision = v /\ x.build = builds + 1
    BY DEF NewLinks
  <1>6. \A y \in TreeSymbols(tree) : \E x \in NewSymbols(v, tree) : x.symbol = y
    <2> SUFFICES ASSUME NEW y \in TreeSymbols(tree)
                 PROVE  \E x \in NewSymbols(v, tree) : x.symbol = y
      OBVIOUS
    <2> USE DEF NewSymbols
    <2> WITNESS [revision |-> v, symbol |-> y, build |-> builds + 1]
                  \in NewSymbols(v, tree)
    <2> QED OBVIOUS
  <1>7. \A y \in ResolvedRelations(tree) : \E x \in NewLinks(v, tree) : x.link = y
    <2> SUFFICES ASSUME NEW y \in ResolvedRelations(tree)
                 PROVE  \E x \in NewLinks(v, tree) : x.link = y
      OBVIOUS
    <2> USE DEF NewLinks
    <2> WITNESS [revision |-> v, link |-> y, build |-> builds + 1]
                  \in NewLinks(v, tree)
    <2> QED OBVIOUS
  <1> QED
    BY <1>2, <1>3, <1>4, <1>5, <1>6, <1>7

\* save_symbols keeps the symbols of the other revisions and every identity.
LEMMA SavedSymbols ==
  ASSUME NEW old, NEW new
  PROVE  /\ SaveSymbols(old, new) \subseteq old \cup new
         /\ new \subseteq SaveSymbols(old, new)
         /\ \A x \in old : \E y \in SaveSymbols(old, new) :
              /\ x.symbol = y.symbol /\ x.revision = y.revision
  <1>1. /\ SaveSymbols(old, new) \subseteq old \cup new
        /\ new \subseteq SaveSymbols(old, new)
    BY DEF SaveSymbols
  <1>2. ASSUME NEW x \in old, x \notin SaveSymbols(old, new)
        PROVE  \E y \in new : x.symbol = y.symbol /\ x.revision = y.revision
    BY <1>2 DEF SaveSymbols
  <1> QED
    BY <1>1, <1>2

LEMMA BuildKeeps ==
  ASSUME CodeInv, NEW v \in Revisions, NEW tree \in Trees, NEW replace \in BOOLEAN,
         BuildRevision(v, tree, replace)
  PROVE  CodeInv'
  <1> DEFINE old(facts) == IF replace THEN Expired(facts, v) ELSE facts
             newS == NewSymbols(v, tree)
             newL == NewLinks(v, tree)
  <1>1. /\ builds \in 0..MaxBuilds /\ builds < MaxBuilds /\ builds' = builds + 1
        /\ MaxBuilds \in Nat /\ codeStore' = codeStore
    BY CodeAssumption DEF CodeInv, CodeTypeOK, BuildRevision
  <1>2. /\ symbols' = SaveSymbols(old(symbols), newS)
        /\ codeLinks' = old(codeLinks) \cup newL
        /\ codeFiles' = old(codeFiles) \cup
                          {[revision |-> v, module |-> m] : m \in Parsed(tree)}
        /\ built' = [built EXCEPT ![v] = {tree} \cup IF replace THEN {} ELSE @]
    BY DEF BuildRevision
  <1>3. /\ IsFiniteSet(newS) /\ IsFiniteSet(newL)
        /\ \A x \in newS : x.revision = v /\ x.build = builds + 1
                             /\ x.symbol \in TreeSymbols(tree)
        /\ \A x \in newL : x.revision = v /\ x.build = builds + 1
        /\ TreeSymbols(tree) \subseteq {x.symbol : x \in newS}
        /\ ResolvedRelations(tree) \subseteq {x.link : x \in newL}
    <2>1. builds \in Nat
      BY <1>1
    <2> QED
      BY <2>1, NewFacts
  <1> HIDE DEF newS, newL
  <1>4. /\ symbols' \subseteq symbols \cup newS
        /\ newS \subseteq symbols'
        /\ \A x \in old(symbols) : \E y \in symbols' :
             x.symbol = y.symbol /\ x.revision = y.revision
    <2>1. old(symbols) \subseteq symbols
      BY DEF Expired
    <2> HIDE DEF old
    <2> QED
      BY <1>2, <2>1, SavedSymbols
  <1>5. /\ codeLinks' \subseteq codeLinks \cup newL
        /\ newL \subseteq codeLinks'
        /\ old(codeLinks) \subseteq codeLinks'
    BY <1>2 DEF Expired
  <1>6. /\ built' \in [Revisions -> SUBSET Trees]
        /\ built'[v] \subseteq {tree} \cup built[v]
        /\ replace => built'[v] = {tree}
        /\ \A w \in Revisions \ {v} : built'[w] = built[w]
    BY <1>2 DEF CodeInv, CodeTypeOK
  <1>7. CodeTypeOK'
    <2>1. \A x \in symbols' : x.revision \in Revisions /\ x.build \in 1..(builds + 1)
      <3>1. \A x \in symbols : x.revision \in Revisions /\ x.build \in 1..builds
        BY DEF CodeInv, CodeTypeOK
      <3> QED
        BY <1>1, <1>3, <1>4, <3>1
    <2>2. \A x \in codeLinks' : x.revision \in Revisions /\ x.build \in 1..(builds + 1)
      <3>1. \A x \in codeLinks : x.revision \in Revisions /\ x.build \in 1..builds
        BY DEF CodeInv, CodeTypeOK
      <3> QED
        BY <1>1, <1>3, <1>5, <3>1
    <2>3. \A x \in codeFiles' : x.revision \in Revisions
      BY <1>2 DEF CodeInv, CodeTypeOK, Expired
    <2> QED
      BY <1>1, <1>6, <2>1, <2>2, <2>3 DEF CodeInv, CodeTypeOK
  <1>8. IsFiniteSet(symbols') /\ IsFiniteSet(codeLinks')
    <2>1. IsFiniteSet(symbols \cup newS) /\ IsFiniteSet(codeLinks \cup newL)
      BY <1>3, FS_Union DEF CodeInv
    <2> QED
      BY <1>4, <1>5, <2>1, FS_Subset
  <1>9. FactsAreStored'
    <2> SUFFICES ASSUME NEW w \in Revisions, NEW t \in built'[w]
                 PROVE  /\ TreeSymbols(t) \subseteq {x.symbol : x \in StoredSymbols(w)'}
                        /\ ResolvedRelations(t) \subseteq StoredLinks(w)'
      BY DEF FactsAreStored
    <2>1. CASE w = v /\ t = tree
      BY <2>1, <1>3, <1>4, <1>5 DEF StoredSymbols, StoredLinks
    <2>2. CASE t \in built[w] /\ (w # v \/ ~replace)
      <3>1. /\ TreeSymbols(t) \subseteq {x.symbol : x \in StoredSymbols(w)}
            /\ ResolvedRelations(t) \subseteq StoredLinks(w)
        BY <2>2 DEF CodeInv, FactsAreStored
      <3>2. /\ StoredSymbols(w) \subseteq old(symbols)
            /\ \A x \in StoredSymbols(w) : x.revision = w
            /\ {x \in codeLinks : x.revision = w} \subseteq codeLinks'
        BY <2>2, <1>5 DEF Expired, StoredSymbols
      <3>3. {x.symbol : x \in StoredSymbols(w)} \subseteq
              {x.symbol : x \in StoredSymbols(w)'}
        <4> HIDE DEF old
        <4>1. \A x \in StoredSymbols(w) : \E y \in StoredSymbols(w)' : x.symbol = y.symbol
          BY <1>4, <3>2 DEF StoredSymbols
        <4> QED
          BY <4>1
      <3>4. StoredLinks(w) \subseteq StoredLinks(w)'
        BY <3>2 DEF StoredLinks
      <3> QED
        BY <3>1, <3>3, <3>4
    <2> QED
      BY <2>1, <2>2, <1>6
  <1>10. OneTree'
    <2>1. builds' # 0
      BY <1>1
    <2>2. ASSUME builds' <= 1
          PROVE  /\ \A u, w \in Revisions : \A t1 \in built'[u], t2 \in built'[w] : t1 = t2
                 /\ \A x \in symbols' : \E t \in built'[x.revision] :
                      x.symbol \in TreeSymbols(t)
      <3>1. builds = 0
        BY <1>1, <2>2
      <3>2. symbols = {} /\ \A u \in Revisions : built[u] = {}
        BY <3>1 DEF CodeInv, OneTree
      <3>3. built'[v] = {tree} /\ \A w \in Revisions \ {v} : built'[w] = {}
        BY <1>2, <1>6, <3>2 DEF CodeInv, CodeTypeOK
      <3> QED
        BY <3>2, <3>3, <1>3, <1>4
    <2> QED
      BY <2>1, <2>2 DEF OneTree
  <1> QED
    BY <1>7, <1>8, <1>9, <1>10 DEF CodeInv

LEMMA RaiseKeeps ==
  ASSUME CodeInv, NEW v \in Revisions, NEW tree \in Trees, NEW replace \in BOOLEAN,
         BuildRaises(v, tree, replace)
  PROVE  CodeInv'
  <1> DEFINE old(facts) == IF replace THEN Expired(facts, v) ELSE facts
  <1>1. /\ builds \in 0..MaxBuilds /\ builds < MaxBuilds /\ builds' = builds + 1
        /\ MaxBuilds \in Nat /\ codeStore' = codeStore
    BY CodeAssumption DEF CodeInv, CodeTypeOK, BuildRaises
  <1>2. /\ symbols' = old(symbols)
        /\ codeLinks' = old(codeLinks)
        /\ codeFiles' = old(codeFiles)
        /\ built' = IF replace THEN [built EXCEPT ![v] = {}] ELSE built
    BY DEF BuildRaises
  <1>3. /\ symbols' \subseteq symbols /\ codeLinks' \subseteq codeLinks
        /\ codeFiles' \subseteq codeFiles
        /\ \A w \in Revisions \ {v} :
             /\ {x \in symbols : x.revision = w} \subseteq symbols'
             /\ {x \in codeLinks : x.revision = w} \subseteq codeLinks'
        /\ ~replace => symbols' = symbols /\ codeLinks' = codeLinks
    BY <1>2 DEF Expired
  <1>4. /\ built' \in [Revisions -> SUBSET Trees]
        /\ replace => built'[v] = {}
        /\ ~replace => built'[v] = built[v]
        /\ \A w \in Revisions \ {v} : built'[w] = built[w]
    BY <1>2 DEF CodeInv, CodeTypeOK
  <1>5. CodeTypeOK'
    <2>1. \A n \in 1..builds : n \in 1..(builds + 1)
      BY <1>1
    <2> QED
      BY <1>1, <1>3, <1>4, <2>1 DEF CodeInv, CodeTypeOK
  <1>6. IsFiniteSet(symbols') /\ IsFiniteSet(codeLinks')
    BY <1>3, FS_Subset DEF CodeInv
  <1>7. FactsAreStored'
    <2> SUFFICES ASSUME NEW w \in Revisions, NEW t \in built'[w]
                 PROVE  /\ TreeSymbols(t) \subseteq {x.symbol : x \in StoredSymbols(w)'}
                        /\ ResolvedRelations(t) \subseteq StoredLinks(w)'
      BY DEF FactsAreStored
    <2>1. t \in built[w] /\ (w = v => ~replace)
      BY <1>4
    <2>2. /\ TreeSymbols(t) \subseteq {x.symbol : x \in StoredSymbols(w)}
          /\ ResolvedRelations(t) \subseteq StoredLinks(w)
      BY <2>1 DEF CodeInv, FactsAreStored
    <2>3. /\ StoredSymbols(w) \subseteq StoredSymbols(w)'
          /\ StoredLinks(w) \subseteq StoredLinks(w)'
      BY <1>3, <2>1 DEF StoredSymbols, StoredLinks
    <2> QED
      BY <2>2, <2>3
  <1>8. OneTree'
    <2>1. builds' # 0
      BY <1>1
    <2>2. ASSUME builds' <= 1
          PROVE  symbols' = {} /\ \A u \in Revisions : built'[u] = {}
      <3>1. builds = 0
        BY <1>1, <2>2
      <3> QED
        BY <3>1, <1>3, <1>4 DEF CodeInv, OneTree
    <2> QED
      BY <2>1, <2>2 DEF OneTree
  <1> QED
    BY <1>5, <1>6, <1>7, <1>8 DEF CodeInv

LEMMA CodeStep == CodeInv /\ [CodeNext]_codeVars => CodeInv'
  <1>1. ASSUME CodeInv, CodeNext PROVE CodeInv'
    BY <1>1, BuildKeeps, RaiseKeeps DEF CodeNext
  <1>2. ASSUME CodeInv, UNCHANGED codeVars PROVE CodeInv'
    BY <1>2 DEF codeVars, CodeInv, CodeTypeOK, FactsAreStored, OneTree, StoredSymbols,
                StoredLinks
  <1> QED
    BY <1>1, <1>2

-----------------------------------------------------------------------------
(* Resolution: what the files mean is among the relations of the tree.      *)

\* The first l places of a sequence.
LEMMA Prefix ==
  ASSUME NEW m \in Seq(STRING), NEW l \in Int, 0 <= l, l <= Len(m)
  PROVE  /\ SubSeq(m, 1, l) \in Seq(STRING)
         /\ Len(SubSeq(m, 1, l)) = l
         /\ \A k \in 1..l : SubSeq(m, 1, l)[k] = m[k]
  <1>1. \A k \in 1..l : m[k] \in STRING
    OBVIOUS
  <1>2. /\ SubSeq(m, 1, l) \in Seq(STRING)
        /\ Len(SubSeq(m, 1, l)) = IF 1 <= l THEN l - 1 + 1 ELSE 0
        /\ \A k \in 1..(l - 1 + 1) : SubSeq(m, 1, l)[k] = m[1 + k - 1]
    BY <1>1, SubSeqProperties
  <1> QED
    BY <1>2

\* _resolve_module finds the module that Python means.
LEMMA ResolutionIsMeaning ==
  ASSUME NEW tree \in Trees, NEW m \in Parsed(tree), NEW i \in tree[m].imports
  PROVE  ResolveModule(tree, m, i) = MeantModules(tree, m, i)
  <1>1. m \in Seq(STRING) /\ m # <<>> /\ i.level \in Nat
    BY TreeAssumption DEF Parsed
  <1> DEFINE up == Len(m) - i.level + (IF m \in Packages THEN 1 ELSE 0)
  <1>2. Len(m) \in Nat /\ Len(m) >= 1
    BY <1>1
  <1>3. ASSUME i.level # 0
        PROVE  Climbed(Container(m), i.level - 1) = SubSeq(m, 1, up)
    <2>1. CASE m \in Packages
      <3>1. Container(m) = m /\ up = Len(m) - (i.level - 1)
        BY <2>1, <1>1, <1>2 DEF Container
      <3>2. CASE i.level - 1 >= Len(m)
        <4>1. SubSeq(m, 1, up) = <<>>
          BY <1>1, <1>2, <1>3, <3>1, <3>2
        <4> QED
          BY <3>1, <3>2, <4>1 DEF Climbed
      <3>3. CASE ~(i.level - 1 >= Len(m))
        BY <3>1, <3>3 DEF Climbed
      <3> QED
        BY <3>2, <3>3
    <2>2. CASE m \notin Packages
      <3> DEFINE c == SubSeq(m, 1, Len(m) - 1)
      <3>1. Container(m) = c /\ up = Len(m) - i.level
        BY <2>2, <1>1, <1>2 DEF Container
      <3>2. /\ c \in Seq(STRING) /\ Len(c) = Len(m) - 1
            /\ \A k \in 1..(Len(m) - 1) : c[k] = m[k]
        <4>1. Len(m) - 1 \in Int /\ 0 <= Len(m) - 1 /\ Len(m) - 1 <= Len(m)
          BY <1>2
        <4> QED
          BY <1>1, <4>1, Prefix
      <3> HIDE DEF c
      <3>3. CASE i.level - 1 >= Len(c)
        <4>1. SubSeq(m, 1, up) = <<>>
          BY <1>1, <1>2, <1>3, <3>1, <3>2, <3>3
        <4> QED
          BY <3>1, <3>3, <4>1 DEF Climbed
      <3>4. CASE ~(i.level - 1 >= Len(c))
        <4> DEFINE a == SubSeq(c, 1, Len(c) - (i.level - 1))
                   b == SubSeq(m, 1, up)
        <4>0. up = Len(m) - i.level /\ Len(c) = Len(m) - 1
          BY <3>1, <3>2
        <4>1. up \in 1..(Len(m) - 1) /\ Len(c) - (i.level - 1) = up
          <5> DEFINE n == Len(m)
                     l == i.level
                     k == Len(c)
          <5>1. n \in Nat /\ l \in Nat /\ l # 0 /\ up = n - l /\ k = n - 1 /\ ~(l - 1 >= k)
            BY <1>1, <1>2, <1>3, <3>4, <4>0
          <5> HIDE DEF n, l, k, up
          <5>2. up \in 1..(n - 1) /\ k - (l - 1) = up
            BY <5>1
          <5> QED
            BY <5>2 DEF n, l, k
        <4>2. a \in Seq(STRING) /\ Len(a) = up /\ \A k \in 1..up : a[k] = c[k]
          <5>1. up \in Int /\ 0 <= up /\ up <= Len(c) /\ a = SubSeq(c, 1, up)
            BY <1>2, <4>0, <4>1
          <5> HIDE DEF a, up
          <5> QED
            BY <3>2, <5>1, Prefix
        <4>3. b \in Seq(STRING) /\ Len(b) = up /\ \A k \in 1..up : b[k] = m[k]
          <5>1. up \in Int /\ 0 <= up /\ up <= Len(m)
            BY <1>2, <4>1
          <5> HIDE DEF up
          <5> QED
            BY <1>1, <5>1, Prefix
        <4> HIDE DEF a, b, up
        <4>4. a = b
          BY <3>2, <4>1, <4>2, <4>3
        <4> QED
          BY <3>1, <3>4, <4>4 DEF Climbed, a, b, up
      <3> QED
        BY <3>3, <3>4
    <2> QED
      BY <2>1, <2>2
  <1> QED
    BY <1>3 DEF ResolveModule, MeantModules

LEMMA LinkedPair ==
  ASSUME NEW type, NEW sources, NEW targets, NEW x \in sources, NEW y \in targets
  PROVE  Link(type, x, y) \in Links(type, sources, targets)
  BY DEF Links

\* The relations of a tree hold the imports of its files, the modules that its
\* tests import names from, and the calls of functions imported by name.
LEMMA MeantLinks ==
  ASSUME NEW tree \in Trees, NEW m \in Parsed(tree), NEW i \in tree[m].imports,
         NEW t \in MeantModules(tree, m, i), t # m
  PROVE  /\ t \in Parsed(tree)
         /\ Link("IMPORTS", ModuleSymbol(m), ModuleSymbol(t)) \in ResolvedRelations(tree)
         /\ m \in TestModules /\ i.name # "" =>
              Link("TESTS", ModuleSymbol(m), ModuleSymbol(t)) \in ResolvedRelations(tree)
         /\ \A site \in tree[m].sites :
              site.kind = "name" /\ site.name = Binds(i)
                /\ i.name \in tree[t].functions \ {""} =>
              \A caller \in Caller(m, tree[m], site) :
                Link("CALLS", caller, Declare(t, <<i.name>>, "function"))
                  \in ResolvedRelations(tree)
  <1>1. t \in ResolveModule(tree, m, i) /\ t \in Parsed(tree)
    BY ResolutionIsMeaning DEF MeantModules
  <1>2. ASSUME NEW x, NEW y, NEW type, x.module = m, y.module = t,
               Link(type, x, y) \in ImportRelations(tree, m) \cup CallRelations(tree, m)
                                      \cup TestRelations(tree, m)
        PROVE  Link(type, x, y) \in ResolvedRelations(tree)
    <2>1. Link(type, x, y).source # Link(type, x, y).target
      BY <1>2 DEF Link
    <2> DEFINE Across == ImportRelations(tree, m) \cup CallRelations(tree, m)
                           \cup TestRelations(tree, m)
    <2>2. Link(type, x, y) \in {r \in Across : r.source # r.target}
      BY <1>2, <2>1
    <2> HIDE DEF Across
    <2> QED
      BY <2>2 DEF ResolvedRelations, Across
  <1>3. ModuleSymbol(m).module = m /\ ModuleSymbol(t).module = t
    BY DEF ModuleSymbol, Declare
  <1>4. Link("IMPORTS", ModuleSymbol(m), ModuleSymbol(t)) \in ResolvedRelations(tree)
    <2>1. Link("IMPORTS", ModuleSymbol(m), ModuleSymbol(t)) \in ImportRelations(tree, m)
      BY <1>1 DEF ImportRelations, Links
    <2> QED
      BY <2>1, <1>2, <1>3
  <1> DEFINE local == [name |-> Binds(i), module |-> t, of |-> i.name]
  <1>5. ASSUME i.name # "" PROVE local \in LocalNames(tree, m)
    <2> DEFINE Part(x) == {[name |-> Binds(x), module |-> target, of |-> x.name] :
                             target \in ResolveModule(tree, m, x)}
    <2>1. local \in Part(i)
      BY <1>1
    <2>2. i \in {x \in tree[m].imports : x.name # ""}
      BY <1>5
    <2>3. LocalNames(tree, m) =
            UNION {Part(x) : x \in {y \in tree[m].imports : y.name # ""}}
      BY DEF LocalNames
    <2> HIDE DEF Part, local
    <2> QED
      BY <2>1, <2>2, <2>3
  <1>6. ASSUME m \in TestModules, i.name # ""
        PROVE  Link("TESTS", ModuleSymbol(m), ModuleSymbol(t)) \in ResolvedRelations(tree)
    <2>1. ModuleSymbol(t) \in {ModuleSymbol(n.module) : n \in LocalNames(tree, m)}
      <3>1. local.module = t
        OBVIOUS
      <3> HIDE DEF local
      <3> QED
        BY <1>5, <1>6, <3>1
    <2>2. Link("TESTS", ModuleSymbol(m), ModuleSymbol(t)) \in TestRelations(tree, m)
      <3> DEFINE Modules == {ModuleSymbol(n.module) : n \in LocalNames(tree, m)}
      <3>1. TestRelations(tree, m) = Links("TESTS", {ModuleSymbol(m)}, Modules)
        BY <1>6 DEF TestRelations
      <3> HIDE DEF Modules
      <3> QED
        BY <2>1, <3>1 DEF Links, Modules
    <2> QED
      BY <2>2, <1>2, <1>3
  <1>7. ASSUME NEW site \in tree[m].sites, site.kind = "name", site.name = Binds(i),
               i.name \in tree[t].functions \ {""}, NEW caller \in Caller(m, tree[m], site)
        PROVE  Link("CALLS", caller, Declare(t, <<i.name>>, "function"))
                  \in ResolvedRelations(tree)
    <2> DEFINE callee == Declare(t, <<i.name>>, "function")
    <2>1. callee \in FileSymbols(t, tree[t])
      BY <1>7 DEF FileSymbols
    <2>2. callee.qualified = t \o <<i.name>> /\ callee.kind = "function"
            /\ callee.module = t
      BY DEF Declare
    <2>3. callee \in ByModuleSymbol(tree, t, i.name)
      BY <2>1, <2>2 DEF ByModuleSymbol
    <2>4. callee \in ResolveImportedName(tree, m, site.name)
      <3>1. local \in {x \in LocalNames(tree, m) : x.name = site.name}
        BY <1>5, <1>7
      <3>2. local.module = t /\ local.of = i.name
        OBVIOUS
      <3> HIDE DEF local, callee
      <3> QED
        BY <2>3, <3>1, <3>2 DEF ResolveImportedName
    <2>5. callee \in ResolveCallSite(tree, m, site)
      BY <2>4, <1>7 DEF ResolveCallSite
    <2>6. Link("CALLS", caller, callee) \in CallRelations(tree, m)
      <3> HIDE DEF callee
      <3> DEFINE Kind(x, y) == IF x.kind = "name" /\ y.kind = "class"
                               THEN "INSTANTIATES" ELSE "CALLS"
                 Part(x) == UNION {Links(Kind(x, target), Caller(m, tree[m], x), {target}) :
                                     target \in ResolveCallSite(tree, m, x)}
      <3>1. Kind(site, callee) = "CALLS"
        BY <2>2
      <3>2. Link("CALLS", caller, callee) \in
              Links("CALLS", Caller(m, tree[m], site), {callee})
        BY LinkedPair
      <3>3. CallRelations(tree, m) = UNION {Part(x) : x \in tree[m].sites}
        BY DEF CallRelations
      <3> HIDE DEF Kind
      <3>4. Link("CALLS", caller, callee) \in Part(site)
        <4>1. Link("CALLS", caller, callee) \in
                Links(Kind(site, callee), Caller(m, tree[m], site), {callee})
          BY <3>1, <3>2
        <4>2. \A target \in ResolveCallSite(tree, m, site) :
                Links(Kind(site, target), Caller(m, tree[m], site), {target})
                  \subseteq Part(site)
          OBVIOUS
        <4> QED
          BY <4>1, <4>2, <2>5
      <3> HIDE DEF Part
      <3> QED
        BY <3>3, <3>4, <1>7
    <2>7. caller.module = m
      <3>1. caller \in FileSymbols(m, tree[m])
        BY DEF Caller, ByQualified
      <3>2. \A name, kind : Declare(m, name, kind).module = m
        BY DEF Declare
      <3>3. \A x \in FileSymbols(m, tree[m]) : \E name, kind : x = Declare(m, name, kind)
        BY DEF FileSymbols, ModuleSymbol
      <3> QED
        BY <3>1, <3>2, <3>3
    <2> QED
      <3> HIDE DEF callee
      <3>1. Link("CALLS", caller, callee) \in ResolvedRelations(tree)
        BY <1>2, <2>2, <2>6, <2>7
      <3> QED
        BY <3>1 DEF callee
  <1> QED
    BY <1>1, <1>4, <1>6, <1>7

-----------------------------------------------------------------------------
(* What a complete projection shows of the code.                            *)

ProjectedIds(p, v) == {e.id : e \in ProjectedEntities(p, v)}

\* The graph has every edge of a projection of the project as it is now, but
\* for those with an end outside the project.
Shows(graph, p, v) ==
    \E newest \in BOOLEAN : \A r \in ProjectedEdges(p, v, newest) :
        {r.subject, r.object} \subseteq ProjectedIds(p, v) => r \in graph.edges

StoredIdentities(v) == {x.symbol : x \in StoredSymbols(v)}

\* Every stored identity has a node, whichever build comes last.
LEMMA IdentityHasNode ==
  ASSUME CodeInv, NEW v \in Revisions, NEW identity \in StoredIdentities(v),
         NEW newest \in BOOLEAN
  PROVE  \E x \in StoredSymbols(v) : /\ x.symbol = identity
                                     /\ SymbolNode(x) \in NodeOfIdentity(v, identity, newest)
  <1> DEFINE same == {x \in StoredSymbols(v) : x.symbol = identity}
             B == {x.build : x \in same}
  <1>1. builds \in Nat /\ \A x \in same : x.build \in 0..builds
    BY CodeAssumption DEF CodeInv, CodeTypeOK, StoredSymbols
  <1>2. B \subseteq 0..builds /\ B # {}
    BY <1>1 DEF StoredIdentities
  <1>3. PICK x \in same : \A z \in same : IF newest THEN z.build <= x.build
                                          ELSE z.build >= x.build
    <2>1. CASE newest
      <3>1. PICK b \in B : \A y \in B : y <= b
        <4> HIDE DEF B
        <4> QED BY <1>1, <1>2, GreatestNumber
      <3> QED
        BY <2>1, <3>1
    <2>2. CASE ~newest
      <3>1. PICK b \in B : \A y \in B : b <= y
        <4>1. B \subseteq Nat
          BY <1>2
        <4> HIDE DEF B
        <4> QED BY <4>1, <1>2, LeastNumber
      <3>2. PICK x \in same : x.build = b
        BY <3>1
      <3>3. \A z \in same : z.build >= x.build
        BY <3>1, <3>2, <1>1
      <3> QED
        BY <2>2, <3>3
    <2> QED
      BY <2>1, <2>2
  <1>4. SymbolNode(x) \in NodeOfIdentity(v, identity, newest)
    BY <1>3 DEF NodeOfIdentity
  <1> QED
    BY <1>3, <1>4

\* A stored relation between stored identities is an edge of the projection.
LEMMA LinkIsNear ==
  ASSUME CodeInv, NEW p, NEW v \in Revisions, HasCode(p, v), NEW graph,
         Shows(graph, p, v), NEW r \in StoredLinks(v),
         r.source \in StoredIdentities(v), r.target \in StoredIdentities(v)
  PROVE  r.target \in Near(graph, v, r.source, CodeRelationMap[r.type])
  <1>1. PICK newest \in BOOLEAN : \A y \in ProjectedEdges(p, v, newest) :
               {y.subject, y.object} \subseteq ProjectedIds(p, v) => y \in graph.edges
    BY DEF Shows
  <1>2. PICK a \in StoredSymbols(v) :
               a.symbol = r.source /\ SymbolNode(a) \in NodeOfIdentity(v, r.source, newest)
    BY IdentityHasNode
  <1>3. PICK b \in StoredSymbols(v) :
               b.symbol = r.target /\ SymbolNode(b) \in NodeOfIdentity(v, r.target, newest)
    BY IdentityHasNode
  <1> DEFINE edge == Edge(SymbolNode(a), CodeRelationMap[r.type], SymbolNode(b), v)
             Between(l) == {Edge(x, CodeRelationMap[l.type], y, v) :
                              x \in NodeOfIdentity(v, l.source, newest),
                              y \in NodeOfIdentity(v, l.target, newest)}
  <1>4. edge \in Between(r)
    BY <1>2, <1>3
  <1>5. Between(r) \subseteq CodeEdges(v, newest)
    BY DEF CodeEdges
  <1>6. CodeEdges(v, newest) \subseteq ProjectedEdges(p, v, newest)
    BY DEF ProjectedEdges
  <1>7. /\ edge.subject = SymbolNode(a) /\ edge.object = SymbolNode(b)
        /\ edge.type = CodeRelationMap[r.type] /\ edge.revision = v
    BY DEF Edge
  <1>8. {SymbolNode(a), SymbolNode(b)} \subseteq ProjectedIds(p, v)
    <2>1. \A x \in StoredSymbols(v) :
            Entity(SymbolNode(x), "Symbol", p, v) \in ProjectedEntities(p, v)
      BY DEF ProjectedEntities, CodeEntities
    <2>2. \A x : Entity(SymbolNode(x), "Symbol", p, v).id = SymbolNode(x)
      BY DEF Entity
    <2> QED
      BY <2>1, <2>2 DEF ProjectedIds
  <1> HIDE DEF edge, Between
  <1>9. edge \in graph.edges
    BY <1>1, <1>4, <1>5, <1>6, <1>7, <1>8
  <1>10. SymbolNode(b).symbol = r.target
    BY <1>3 DEF SymbolNode
  <1> QED
    BY <1>2, <1>7, <1>9, <1>10 DEF Near

LEMMA FiniteImage ==
  ASSUME NEW S, IsFiniteSet(S), NEW f
  PROVE  IsFiniteSet({f[x] : x \in S})
  <1> DEFINE g == [x \in S |-> f[x]]
  <1>1. g \in Surjection(S, {f[x] : x \in S})
    BY DEF Surjection
  <1> HIDE DEF g
  <1> QED
    BY <1>1, FS_Surjection

\* The risk of a change that has a symbol and a file is between 1 and 100.
LEMMA RiskInRange ==
  ASSUME NEW v, NEW primary, NEW files, primary # {}, IsFiniteSet(codeLinks),
         IsFiniteSet(files), files # {}
  PROVE  RiskScore(v, primary, files) \in 1..100
  <1> DEFINE calls == {x \in codeLinks : /\ x.revision = v
                                         /\ x.link.type = "CALLS"
                                         /\ x.link.source \in primary}
             core == IF {x.module : x \in primary} \cap CoreModules # {} THEN 15 ELSE 0
  <1>1. Cardinality(calls) \in Nat
    BY FS_Subset, FS_CardinalityType
  <1>2. Cardinality(files) \in Nat /\ Cardinality(files) # 0
    BY FS_EmptySet, FS_CardinalityType
  <1>3. core \in 0..15
    OBVIOUS
  <1>4. RiskScore(v, primary, files) =
          Capped(10 * Cardinality(calls), 40) + Capped(5 * Cardinality(files), 30) + core
    BY DEF RiskScore
  <1> HIDE DEF calls, core
  <1>5. /\ Capped(10 * Cardinality(calls), 40) \in 0..40
        /\ Capped(5 * Cardinality(files), 30) \in 5..30
    BY <1>1, <1>2 DEF Capped
  <1> QED
    BY <1>3, <1>4, <1>5

\* The files of an analysis are finitely many.
LEMMA FilesAreFinite ==
  ASSUME CodeInv, NEW v, NEW primary, primary \subseteq StoredIdentities(v)
  PROVE  IsFiniteSet(RelatedFiles(v, primary))
  <1> DEFINE ofSymbol == [x \in symbols |-> x.symbol.module]
             ofSource == [x \in codeLinks |-> x.link.source.module]
             ofTarget == [x \in codeLinks |-> x.link.target.module]
             A == {ofSymbol[x] : x \in symbols}
             B == {ofSource[x] : x \in codeLinks}
             C == {ofTarget[x] : x \in codeLinks}
  <1>1. {x.module : x \in primary} \subseteq A
    BY DEF StoredIdentities, StoredSymbols
  <1>2. \A r \in StoredLinks(v) : r.source.module \in B /\ r.target.module \in C
    BY DEF StoredLinks
  <1>3. IsFiniteSet(A) /\ IsFiniteSet(B) /\ IsFiniteSet(C)
    <2> HIDE DEF ofSymbol, ofSource, ofTarget
    <2> QED BY FiniteImage DEF CodeInv
  <1> HIDE DEF A, B, C
  <1>4. IsFiniteSet(A \cup B)
    BY <1>3, FS_Union
  <1>5. IsFiniteSet((A \cup B) \cup C)
    BY <1>3, <1>4, FS_Union
  <1>6. RelatedFiles(v, primary) \subseteq (A \cup B) \cup C
    BY <1>1, <1>2 DEF RelatedFiles, FilesOf
  <1> QED
    BY <1>5, <1>6, FS_Subset

\* A stored call shows in the analysis of a change of its target.
LEMMA CallHasImpact ==
  ASSUME CodeInv, NEW v \in Revisions, NEW caller, NEW callee,
         Link("CALLS", caller, callee) \in StoredLinks(v),
         caller \in StoredIdentities(v), callee \in StoredIdentities(v),
         callee.qualified # <<>>, ModuleSymbol(caller.module) \in StoredIdentities(v)
  PROVE  ImpactIsShown(v, callee, caller.module)
  <1> DEFINE link == Link("CALLS", caller, callee)
             last == <<callee.qualified[Len(callee.qualified)]>>
  <1>1. link.type = "CALLS" /\ link.source = caller /\ link.target = callee
    BY DEF Link
  <1>2. callee \in FindSymbol(v, callee.qualified)
    BY DEF FindSymbol, StoredIdentities
  <1> SUFFICES ASSUME NEW target \in {callee.qualified}
                                      \cup {x \in {last} : FindSymbol(v, x) = {}}
               PROVE  /\ {caller.module, callee.module} \subseteq
                           AnalyzeImpact(v, {target}).files
                      /\ {caller.module} \cap TestModules \subseteq
                           AnalyzeImpact(v, {target}).tests
                             \cap FindRelatedTests(v, callee.qualified)
                      /\ AnalyzeImpact(v, {target}).risk \in 1..100
    BY DEF ImpactIsShown
  <1> DEFINE primary == SelectPrimary(v, {target})
             files == RelatedFiles(v, primary)
  <1>3. callee \in primary
    <2>1. CASE target = callee.qualified
      BY <2>1, <1>2 DEF SelectPrimary
    <2>2. CASE target = last /\ FindSymbol(v, target) = {}
      BY <2>2 DEF SelectPrimary, StoredIdentities
    <2> QED
      BY <2>1, <2>2
  <1>4. primary \subseteq StoredIdentities(v)
    <2>1. CASE FindSymbol(v, target) # {}
      <3>1. primary = FindSymbol(v, target)
        BY <2>1 DEF SelectPrimary
      <3> QED
        BY <3>1 DEF FindSymbol, StoredIdentities
    <2>2. CASE FindSymbol(v, target) = {}
      <3>1. primary = {x.symbol : x \in {y \in StoredSymbols(v) :
                         LET name == y.symbol.qualified
                         IN  name # <<>> /\ <<name[Len(name)]>> = target}}
        BY <2>2 DEF SelectPrimary
      <3> QED
        BY <3>1 DEF StoredIdentities
    <2> QED
      BY <2>1, <2>2
  <1> HIDE DEF primary
  <1>5. link \in {r \in StoredLinks(v) :
                    r.type = "CALLS" /\ {r.source, r.target} \cap primary # {}}
    BY <1>1, <1>3
  <1>6. caller.module \in files /\ callee.module \in files
    BY <1>1, <1>5 DEF RelatedFiles, FilesOf
  <1>7. RiskScore(v, primary, files) \in 1..100
    <2>1. IsFiniteSet(files)
      BY <1>4, FilesAreFinite
    <2> HIDE DEF files
    <2> QED
      BY <1>3, <1>6, <2>1, RiskInRange DEF CodeInv
  <1>8. caller.module \in {x.symbol.module : x \in StoredSymbols(v)}
    BY DEF StoredIdentities
  <1>9. caller.module \in TestModules => /\ caller.module \in RelatedTests(v, files)
                                         /\ caller.module \in FindRelatedTests(v, callee.qualified)
    <2>1. link \in {r \in StoredLinks(v) :
                      callee.qualified \in {r.source.qualified, r.target.qualified}}
      BY <1>1
    <2>2. caller.module \in FindRelatedFiles(v, callee.qualified)
      BY <1>1, <1>2, <2>1 DEF FindRelatedFiles, FilesOf
    <2> QED
      BY <1>8, <2>2 DEF RelatedTests, FindRelatedTests
  <1> HIDE DEF files
  <1>10. /\ AnalyzeImpact(v, {target}).files = files
         /\ AnalyzeImpact(v, {target}).tests = RelatedTests(v, files)
         /\ AnalyzeImpact(v, {target}).risk = RiskScore(v, primary, files)
    BY DEF AnalyzeImpact, primary, files
  <1> QED
    BY <1>6, <1>7, <1>9, <1>10

\* A graph that has the edges of a projection shows the code of every tree
\* whose facts the revision holds.
LEMMA CodeShows ==
  ASSUME CodeInv, NEW p, NEW v \in Revisions, HasCode(p, v), NEW graph,
         Shows(graph, p, v), NEW tree \in built[v]
  PROVE  CodeIsShown(graph, v, tree)
  <1>1. tree \in Trees
    BY DEF CodeInv, CodeTypeOK
  <1>2. /\ TreeSymbols(tree) \subseteq StoredIdentities(v)
        /\ ResolvedRelations(tree) \subseteq StoredLinks(v)
    BY DEF CodeInv, FactsAreStored, StoredIdentities
  <1>3. ASSUME NEW type \in {"IMPORTS", "TESTS", "CALLS"}, NEW x, NEW y,
               Link(type, x, y) \in ResolvedRelations(tree),
               x \in TreeSymbols(tree), y \in TreeSymbols(tree)
        PROVE  y \in Near(graph, v, x, type)
    <2>1. /\ Link(type, x, y).type = type /\ Link(type, x, y).source = x
          /\ Link(type, x, y).target = y
      BY DEF Link
    <2>2. CodeRelationMap[type] = type
      BY <1>3 DEF CodeRelationMap
    <2>3. /\ Link(type, x, y) \in StoredLinks(v)
          /\ x \in StoredIdentities(v) /\ y \in StoredIdentities(v)
      BY <1>2, <1>3
    <2> QED
      BY <2>1, <2>2, <2>3, LinkIsNear
  <1>4. \A m \in Parsed(tree) : FileSymbols(m, tree[m]) \subseteq TreeSymbols(tree)
    BY DEF TreeSymbols
  <1>5. \A m \in Parsed(tree) : ModuleSymbol(m) \in TreeSymbols(tree)
    BY <1>4 DEF FileSymbols
  <1> SUFFICES ASSUME NEW m \in Parsed(tree), NEW i \in tree[m].imports,
                      NEW t \in MeantModules(tree, m, i), t # m
               PROVE  /\ ModuleSymbol(t) \in Near(graph, v, ModuleSymbol(m), "IMPORTS")
                      /\ m \in TestModules /\ i.name # ""
                           => ModuleSymbol(t) \in Near(graph, v, ModuleSymbol(m), "TESTS")
                      /\ \A site \in tree[m].sites :
                           site.kind = "name" /\ site.name = Binds(i)
                             /\ i.name \in tree[t].functions \ {""}
                           => \A caller \in Caller(m, tree[m], site) :
                                LET callee == Declare(t, <<i.name>>, "function")
                                IN  /\ callee \in Near(graph, v, caller, "CALLS")
                                    /\ Link("CALLS", caller, callee) \in
                                         WhatCalls(v, callee.qualified)
                                           \cap WhatIsCalledBy(v, caller.qualified)
                                    /\ ImpactIsShown(v, callee, m)
    BY DEF CodeIsShown
  <1>6. t \in Parsed(tree)
    BY DEF MeantModules
  <1>7. ModuleSymbol(t) \in Near(graph, v, ModuleSymbol(m), "IMPORTS")
    BY <1>1, <1>3, <1>5, <1>6, MeantLinks
  <1>8. m \in TestModules /\ i.name # ""
          => ModuleSymbol(t) \in Near(graph, v, ModuleSymbol(m), "TESTS")
    BY <1>1, <1>3, <1>5, <1>6, MeantLinks
  <1>9. ASSUME NEW site \in tree[m].sites, site.kind = "name", site.name = Binds(i),
               i.name \in tree[t].functions \ {""}, NEW caller \in Caller(m, tree[m], site),
               NEW callee, callee = Declare(t, <<i.name>>, "function")
        PROVE  /\ callee \in Near(graph, v, caller, "CALLS")
               /\ Link("CALLS", caller, callee) \in
                    WhatCalls(v, callee.qualified) \cap WhatIsCalledBy(v, caller.qualified)
               /\ ImpactIsShown(v, callee, m)
    <2>1. Link("CALLS", caller, callee) \in ResolvedRelations(tree)
      BY <1>1, <1>9, MeantLinks
    <2>2. caller \in FileSymbols(m, tree[m]) /\ callee \in FileSymbols(t, tree[t])
      <3>1. caller \in FileSymbols(m, tree[m])
        BY DEF Caller, ByQualified
      <3>2. callee \in FileSymbols(t, tree[t])
        BY <1>9 DEF FileSymbols
      <3> QED
        BY <3>1, <3>2
    <2>3. caller \in TreeSymbols(tree) /\ callee \in TreeSymbols(tree)
      BY <2>2, <1>4, <1>6
    <2>4. callee \in Near(graph, v, caller, "CALLS")
      BY <1>3, <2>1, <2>3
    <2>5. /\ Link("CALLS", caller, callee).type = "CALLS"
          /\ Link("CALLS", caller, callee).source = caller
          /\ Link("CALLS", caller, callee).target = callee
      BY DEF Link
    <2>6. Link("CALLS", caller, callee) \in
            WhatCalls(v, callee.qualified) \cap WhatIsCalledBy(v, caller.qualified)
      <3>1. /\ callee \in FindSymbol(v, callee.qualified)
            /\ caller \in FindSymbol(v, caller.qualified)
        BY <1>2, <2>3 DEF FindSymbol, StoredIdentities
      <3> QED
        BY <1>2, <2>1, <2>5, <3>1 DEF WhatCalls, WhatIsCalledBy
    <2>7. callee.qualified # <<>>
      <3>1. t \in Seq(STRING)
        BY <1>1, <1>6, TreeAssumption DEF Parsed
      <3>2. callee.qualified = t \o <<i.name>>
        BY <1>9 DEF Declare
      <3>3. Len(t \o <<i.name>>) = Len(t) + 1
        BY <3>1
      <3>4. Len(t) \in Nat
        BY <3>1
      <3> QED
        BY <3>2, <3>3, <3>4
    <2>8. caller.module = m
      <3>1. \A name, kind : Declare(m, name, kind).module = m
        BY DEF Declare
      <3>2. \A x \in FileSymbols(m, tree[m]) : \E name, kind : x = Declare(m, name, kind)
        BY DEF FileSymbols, ModuleSymbol
      <3> QED
        BY <2>2, <3>1, <3>2
    <2>9. ImpactIsShown(v, callee, caller.module)
      <3>1. ModuleSymbol(caller.module) \in StoredIdentities(v)
        BY <1>2, <1>5, <2>8
      <3> QED
        BY <1>2, <2>1, <2>3, <2>7, <3>1, CallHasImpact
    <2> QED
      BY <2>4, <2>6, <2>8, <2>9
  <1> QED
    BY <1>7, <1>8, <1>9

-----------------------------------------------------------------------------
(* The projection.                                                          *)

KnowledgeSpec == KnowledgeInit /\ [][KnowledgeNext]_knowledgeVars

Moments == Revisions \cup {NoRevision}

\* A node is known by its identifier and label, belongs to a project, and the
\* identifier of a symbol or a file is made of what the code graph holds.
NodesAreSound(E) ==
    /\ \A e1, e2 \in E : e1.id = e2.id /\ e1.label = e2.label => e1 = e2
    /\ \A e \in E : e.project \in Projects /\ e.revision \in Moments
    /\ \A e \in E : e.label = "File" =>
         e.id = [file |-> e.id.file, revision |-> e.revision]
    /\ \A e \in E : e.label = "Symbol" =>
         /\ e.id = [symbol |-> e.id.symbol, build |-> e.id.build,
                    revision |-> e.revision]
         /\ e.id.build \in 1..builds
         /\ builds <= 1 => \E v \in Revisions : \E tree \in built[v] :
                             e.id.symbol \in TreeSymbols(tree)

IsGraph(graph) == graph = [entities |-> graph.entities, edges |-> graph.edges]

GraphsInv ==
    /\ IsGraph(reference) /\ IsGraph(neo4j)
    /\ neo4j.edges \subseteq reference.edges
    /\ EntityIds(neo4j) = EntityIds(reference)
    /\ Orphans(neo4j) = {}
    /\ NodesAreSound(neo4j.entities)
    /\ \A e \in reference.entities : e.project \in Projects /\ e.revision \in Moments

\* The work of a projection is that of some order of the builds, as long as
\* nothing has outdated it, and its nodes are written before its edges.
IsJob(j) ==
    /\ j = [project |-> j.project, revision |-> j.revision, step |-> j.step,
            exact |-> j.exact, entities |-> j.entities, edges |-> j.edges]
    /\ j.project \in Projects /\ j.revision \in Moments
    /\ j.step \in {"entities", "relations"}
    /\ NodesAreSound(j.entities)
    /\ j.step = "relations" => {e.id : e \in j.entities} \subseteq EntityIds(neo4j)
    /\ j.exact => /\ j.entities = ProjectedEntities(j.project, j.revision)
                  /\ \E newest \in BOOLEAN :
                       j.edges = ProjectedEdges(j.project, j.revision, newest)

FreshInv ==
    /\ fresh \subseteq Projects \X Moments
    /\ \A pv \in fresh : Shows(neo4j, pv[1], pv[2])

KnowledgeInv ==
    /\ CodeInv
    /\ live \subseteq CanonicalRows
    /\ projections \in 0..MaxProjections /\ rowEdits \in 0..MaxRowEdits
    /\ GraphsInv
    /\ job # NoJob => IsJob(job)
    /\ FreshInv

LEMMA KnowledgeStarts == KnowledgeInit => KnowledgeInv
  <1> SUFFICES ASSUME KnowledgeInit PROVE KnowledgeInv
    OBVIOUS
  <1>1. CodeInv
    BY CodeStarts DEF KnowledgeInit
  <1>2. GraphsInv
    BY DEF KnowledgeInit, GraphsInv, EmptyGraph, IsGraph, EntityIds, Orphans, NodesAreSound
  <1>3. FreshInv
    BY DEF KnowledgeInit, FreshInv
  <1> QED
    BY <1>1, <1>2, <1>3, KnowledgeAssumption DEF KnowledgeInit, KnowledgeInv

EdgesBetween(A, r, B, v) ==
    {Edge(a, CodeRelationMap[r.type], b, v) : a \in A, b \in B}

\* What a projection would write depends on the code graph and the rows alone.
LEMMA SameProjection ==
  ASSUME UNCHANGED <<codeVars, live>>, NEW p, NEW v
  PROVE  /\ ProjectedEntities(p, v)' = ProjectedEntities(p, v)
         /\ \A newest \in BOOLEAN :
              ProjectedEdges(p, v, newest)' = ProjectedEdges(p, v, newest)
  <1>1. RowsOf(p)' = RowsOf(p) /\ StoredSymbols(v)' = StoredSymbols(v)
        /\ StoredLinks(v)' = StoredLinks(v) /\ HasCode(p, v)' = HasCode(p, v)
    BY DEF RowsOf, StoredSymbols, StoredLinks, codeVars, HasCode
  <1>2. \A q : RowsOf(q)' = RowsOf(q)
    BY DEF RowsOf
  <1>3. CodeEntities(p, v)' = CodeEntities(p, v)
    BY <1>1 DEF CodeEntities
  <1>4. \A row : RowEdges(row, v)' = RowEdges(row, v)
    BY <1>2 DEF RowEdges
  <1>5. \A x, newest : NodeOfIdentity(v, x, newest)' = NodeOfIdentity(v, x, newest)
    BY <1>1 DEF NodeOfIdentity
  <1>6. ASSUME NEW newest \in BOOLEAN PROVE CodeEdges(v, newest)' = CodeEdges(v, newest)
    <2> DEFINE Between(r) == EdgesBetween(NodeOfIdentity(v, r.source, newest), r,
                                          NodeOfIdentity(v, r.target, newest), v)
    <2>1. ASSUME NEW r PROVE Between(r)' = Between(r)
      BY <1>5
    <2>2. CodeEdges(v, newest) =
            {Edge(FileNode(v, x.symbol.module), "PART_OF", CodeRepository, v) :
               x \in StoredSymbols(v)}
              \cup {Edge(SymbolNode(x), "PART_OF", FileNode(v, x.symbol.module), v) :
                      x \in StoredSymbols(v)}
              \cup UNION {Between(r) : r \in StoredLinks(v)}
      BY DEF CodeEdges, EdgesBetween
    <2>3. CodeEdges(v, newest)' =
            {Edge(FileNode(v, x.symbol.module), "PART_OF", CodeRepository, v) :
               x \in StoredSymbols(v)}
              \cup {Edge(SymbolNode(x), "PART_OF", FileNode(v, x.symbol.module), v) :
                      x \in StoredSymbols(v)}
              \cup UNION {Between(r)' : r \in StoredLinks(v)}
      BY <1>1 DEF CodeEdges, EdgesBetween
    <2> HIDE DEF Between
    <2> QED
      BY <2>1, <2>2, <2>3
  <1>7. ProjectedEntities(p, v)' = ProjectedEntities(p, v)
    BY <1>1, <1>3 DEF ProjectedEntities
  <1>8. \A newest \in BOOLEAN :
          ProjectedEdges(p, v, newest)' = ProjectedEdges(p, v, newest)
    BY <1>1, <1>4, <1>6 DEF ProjectedEdges
  <1> QED
    BY <1>7, <1>8

LEMMA SameShows ==
  ASSUME UNCHANGED <<codeVars, live>>, NEW p, NEW v, Shows(neo4j, p, v),
         neo4j.edges \subseteq neo4j'.edges
  PROVE  Shows(neo4j, p, v)'
  <1>1. PICK newest \in BOOLEAN : \A r \in ProjectedEdges(p, v, newest) :
               {r.subject, r.object} \subseteq ProjectedIds(p, v) => r \in neo4j.edges
    BY DEF Shows
  <1>2. /\ ProjectedIds(p, v)' = ProjectedIds(p, v)
        /\ ProjectedEdges(p, v, newest)' = ProjectedEdges(p, v, newest)
    BY SameProjection DEF ProjectedIds
  <1> QED
    BY <1>1, <1>2 DEF Shows

\* The nodes of a projection are sound.
LEMMA ProjectedAreSound ==
  ASSUME CodeInv, live \subseteq CanonicalRows, NEW p \in Projects, NEW v \in Moments
  PROVE  NodesAreSound(ProjectedEntities(p, v))
  <1> DEFINE E == ProjectedEntities(p, v)
             ofRows == {Entity(p, "Project", p, v)}
                       \cup {Entity(row.id, row.label, p, v) : row \in RowsOf(p)}
             files == {Entity(FileNode(v, x.symbol.module),
                              IF x.symbol.module \in TestModules THEN "Test" ELSE "File",
                              p, v) : x \in StoredSymbols(v)}
             syms == {Entity(SymbolNode(x), "Symbol", p, v) : x \in StoredSymbols(v)}
  <1>1. E \subseteq ofRows \cup files \cup syms
    BY DEF ProjectedEntities, CodeEntities
  <1>2. \A e \in ofRows : /\ e = Entity(e.id, e.label, p, v)
                        /\ e.label \notin {"File", "Symbol"}
    BY KnowledgeAssumption DEF Entity, RowsOf
  <1>3. \A e \in files : /\ e = Entity(e.id, e.label, p, v)
                         /\ e.label # "Symbol"
                         /\ e.id = [file |-> e.id.file, revision |-> v]
    BY DEF Entity, FileNode
  <1>4. ASSUME NEW e \in syms
        PROVE  /\ e = Entity(e.id, e.label, p, v)
               /\ e.label = "Symbol"
               /\ \E x \in StoredSymbols(v) :
                    e.id = [symbol |-> x.symbol, build |-> x.build, revision |-> v]
    <2>1. PICK x \in StoredSymbols(v) : e = Entity(SymbolNode(x), "Symbol", p, v)
      OBVIOUS
    <2>2. x.revision = v
      BY DEF StoredSymbols
    <2> QED
      BY <2>1, <2>2 DEF Entity, SymbolNode
  <1>5. \A x \in StoredSymbols(v) :
          /\ x.build \in 1..builds /\ v \in Revisions
          /\ builds <= 1 => \E tree \in built[v] : x.symbol \in TreeSymbols(tree)
    BY DEF CodeInv, CodeTypeOK, OneTree, StoredSymbols
  <1>6. \A e \in E : e = Entity(e.id, e.label, p, v)
    BY <1>1, <1>2, <1>3, <1>4
  <1>7. \A e \in E : e.label = "File" => e.id = [file |-> e.id.file, revision |-> v]
    BY <1>1, <1>2, <1>3, <1>4
  <1>8. \A e \in E : e.label = "Symbol" => e \in syms
    BY <1>1, <1>2, <1>3
  <1> HIDE DEF E, ofRows, files, syms
  <1>9. \A e \in E : e.project = p /\ e.revision = v
    BY <1>6 DEF Entity
  <1>10. ASSUME NEW e \in E, e.label = "Symbol"
         PROVE  /\ e.id = [symbol |-> e.id.symbol, build |-> e.id.build, revision |-> v]
                /\ e.id.build \in 1..builds
                /\ builds <= 1 => \E w \in Revisions : \E tree \in built[w] :
                                    e.id.symbol \in TreeSymbols(tree)
    <2>1. PICK x \in StoredSymbols(v) :
                 e.id = [symbol |-> x.symbol, build |-> x.build, revision |-> v]
      BY <1>4, <1>8, <1>10
    <2>2. e.id.symbol = x.symbol /\ e.id.build = x.build
      BY <2>1
    <2> QED
      BY <2>1, <2>2, <1>5
  <1>11. \A e1, e2 \in E : e1.id = e2.id /\ e1.label = e2.label => e1 = e2
    BY <1>6
  <1>12. \A e \in E : e.label = "Symbol" =>
           /\ e.id = [symbol |-> e.id.symbol, build |-> e.id.build,
                      revision |-> e.revision]
           /\ e.id.build \in 1..builds
           /\ builds <= 1 => \E w \in Revisions : \E tree \in built[w] :
                               e.id.symbol \in TreeSymbols(tree)
    BY <1>9, <1>10
  <1>13. \A e \in E : e.label = "File" =>
           e.id = [file |-> e.id.file, revision |-> e.revision]
    BY <1>7, <1>9
  <1>14. \A e \in E : e.project \in Projects /\ e.revision \in Moments
    BY <1>9
  <1>15. NodesAreSound(E)
    BY <1>11, <1>12, <1>13, <1>14 DEF NodesAreSound
  <1> QED
    BY <1>15 DEF E

\* Writing nodes leaves the edges, and keeps sound what was sound.
LEMMA UpsertedNodes ==
  ASSUME NEW graph, IsGraph(graph), NEW new
  PROVE  /\ IsGraph(UpsertedEntities(graph, new))
         /\ UpsertedEntities(graph, new).edges = graph.edges
         /\ UpsertedEntities(graph, new).entities =
              {e \in graph.entities : e.id \notin {n.id : n \in new}} \cup new
         /\ EntityIds(UpsertedEntities(graph, new)) =
              EntityIds(graph) \cup {n.id : n \in new}
  <1>1. UpsertedEntities(graph, new) =
          [entities |-> {e \in graph.entities : e.id \notin {n.id : n \in new}} \cup new,
           edges |-> graph.edges]
    BY DEF UpsertedEntities, IsGraph
  <1> DEFINE after == UpsertedEntities(graph, new)
  <1>2. /\ after.edges = graph.edges
        /\ after.entities =
              {e \in graph.entities : e.id \notin {n.id : n \in new}} \cup new
    BY <1>1
  <1>3. IsGraph(after)
    BY <1>1, <1>2 DEF IsGraph
  <1> HIDE DEF after
  <1>4. EntityIds(after) = EntityIds(graph) \cup {n.id : n \in new}
    BY <1>2 DEF EntityIds
  <1> QED
    BY <1>2, <1>3, <1>4 DEF after

LEMMA SoundUpsert ==
  ASSUME NEW E, NEW new, NodesAreSound(E), NodesAreSound(new)
  PROVE  NodesAreSound({e \in E : e.id \notin {n.id : n \in new}} \cup new)
  <1> DEFINE all == {e \in E : e.id \notin {n.id : n \in new}} \cup new
  <1>1. \A e \in all : e \in E \/ e \in new
    OBVIOUS
  <1>2. \A e1, e2 \in all : e1.id = e2.id /\ e1.label = e2.label => e1 = e2
    BY DEF NodesAreSound
  <1> HIDE DEF all
  <1>3. NodesAreSound(all)
    BY <1>1, <1>2 DEF NodesAreSound
  <1> QED
    BY <1>3 DEF all

LEMMA SoundSubset ==
  ASSUME NEW E, NEW part, part \subseteq E, NodesAreSound(E)
  PROVE  NodesAreSound(part)
  BY DEF NodesAreSound

\* Both adapters write the same nodes.
LEMMA NodesStep ==
  ASSUME GraphsInv, UNCHANGED codeVars, NEW new, NodesAreSound(new),
         reference' = UpsertedEntities(reference, new),
         neo4j' = UpsertedEntities(neo4j, new)
  PROVE  /\ GraphsInv'
         /\ neo4j'.edges = neo4j.edges
         /\ EntityIds(neo4j)' = EntityIds(neo4j) \cup {n.id : n \in new}
  <1>1. IsGraph(reference) /\ IsGraph(neo4j)
    BY DEF GraphsInv
  <1>2. /\ IsGraph(reference)' /\ IsGraph(neo4j)'
        /\ reference'.edges = reference.edges /\ neo4j'.edges = neo4j.edges
        /\ reference'.entities =
             {e \in reference.entities : e.id \notin {n.id : n \in new}} \cup new
        /\ neo4j'.entities =
             {e \in neo4j.entities : e.id \notin {n.id : n \in new}} \cup new
        /\ EntityIds(reference)' = EntityIds(reference) \cup {n.id : n \in new}
        /\ EntityIds(neo4j)' = EntityIds(neo4j) \cup {n.id : n \in new}
    BY <1>1, UpsertedNodes
  <1>3. NodesAreSound(neo4j'.entities)
    BY <1>2, SoundUpsert DEF GraphsInv
  <1>4. NodesAreSound(neo4j.entities)'
    BY <1>3 DEF NodesAreSound, codeVars
  <1>5. Orphans(neo4j)' = {}
    BY <1>2 DEF Orphans, GraphsInv
  <1>6. \A e \in reference'.entities : e.project \in Projects /\ e.revision \in Moments
    BY <1>2 DEF GraphsInv, NodesAreSound
  <1> QED
    BY <1>2, <1>4, <1>5, <1>6 DEF GraphsInv

\* A build adds a number and, when it is the first one, finds no symbol.
LEMMA BuildKeepsSound ==
  ASSUME CodeInv, CodeNext, NEW E, NodesAreSound(E)
  PROVE  NodesAreSound(E)'
  <1>1. builds \in Nat /\ builds' = builds + 1
    BY DEF CodeInv, CodeTypeOK, CodeNext, BuildRevision, BuildRaises
  <1>2. \A e \in E : e.label = "Symbol" => e.id.build \in 1..builds
    BY DEF NodesAreSound
  <1>3. \A n \in 1..builds : ~(builds' <= 1) /\ n \in 1..builds'
    BY <1>1
  <1> QED
    BY <1>2, <1>3 DEF NodesAreSound

LEMMA EditKeeps ==
  ASSUME KnowledgeInv, NEW row \in CanonicalRows, EditRow(row)
  PROVE  KnowledgeInv'
  <1>1. CodeInv'
    BY CodeStep DEF KnowledgeInv, EditRow
  <1>2. GraphsInv'
    BY DEF KnowledgeInv, GraphsInv, EditRow, IsGraph, EntityIds, Orphans, NodesAreSound,
           codeVars
  <1>3. (job # NoJob => IsJob(job))'
    <2>1. CASE job = NoJob
      BY <2>1 DEF EditRow, Outdated
    <2>2. CASE job # NoJob
      <3>1. IsJob(job)
        BY <2>2 DEF KnowledgeInv
      <3>2. job' = [project |-> job.project, revision |-> job.revision,
                    step |-> job.step, exact |-> FALSE, entities |-> job.entities,
                    edges |-> job.edges]
        BY <2>2, <3>1 DEF IsJob, EditRow, Outdated
      <3>3. NodesAreSound(job.entities)'
        BY <3>1, <3>2 DEF IsJob, EditRow, NodesAreSound, codeVars
      <3>4. job'.step = "relations" =>
              {e.id : e \in job'.entities} \subseteq EntityIds(neo4j)'
        BY <3>1, <3>2 DEF IsJob, EditRow, EntityIds
      <3> QED
        BY <3>1, <3>2, <3>3, <3>4 DEF IsJob
    <2> QED
      BY <2>1, <2>2
  <1>4. FreshInv'
    BY DEF EditRow, Outdated, FreshInv
  <1>5. live' \subseteq CanonicalRows
    BY DEF KnowledgeInv, EditRow
  <1>6. projections' \in 0..MaxProjections /\ rowEdits' \in 0..MaxRowEdits
    BY KnowledgeAssumption DEF KnowledgeInv, EditRow
  <1> QED
    BY <1>1, <1>2, <1>3, <1>4, <1>5, <1>6 DEF KnowledgeInv

LEMMA CodeBuildKeeps ==
  ASSUME KnowledgeInv, BuildCode
  PROVE  KnowledgeInv'
  <1>1. CodeInv /\ CodeNext
    BY DEF KnowledgeInv, BuildCode
  <1>2. CodeInv'
    BY <1>1, CodeStep
  <1>3. NodesAreSound(neo4j.entities)'
    BY <1>1, BuildKeepsSound DEF KnowledgeInv, GraphsInv, BuildCode, NodesAreSound
  <1>4. GraphsInv'
    BY <1>3 DEF KnowledgeInv, GraphsInv, BuildCode, IsGraph, EntityIds, Orphans
  <1>5. (job # NoJob => IsJob(job))'
    <2>1. CASE job = NoJob
      BY <2>1 DEF BuildCode, Outdated
    <2>2. CASE job # NoJob
      <3>1. IsJob(job)
        BY <2>2 DEF KnowledgeInv
      <3>2. job' = [project |-> job.project, revision |-> job.revision,
                    step |-> job.step, exact |-> FALSE, entities |-> job.entities,
                    edges |-> job.edges]
        BY <2>2, <3>1 DEF IsJob, BuildCode, Outdated
      <3>3. NodesAreSound(job.entities)'
        BY <1>1, <3>1, <3>2, BuildKeepsSound DEF IsJob, NodesAreSound
      <3>4. job'.step = "relations" =>
              {e.id : e \in job'.entities} \subseteq EntityIds(neo4j)'
        BY <3>1, <3>2 DEF IsJob, BuildCode, EntityIds
      <3> QED
        BY <3>1, <3>2, <3>3, <3>4 DEF IsJob
    <2> QED
      BY <2>1, <2>2
  <1>6. FreshInv'
    BY DEF BuildCode, Outdated, FreshInv
  <1> QED
    BY <1>2, <1>4, <1>5, <1>6 DEF KnowledgeInv, BuildCode

LEMMA GatherKeeps ==
  ASSUME KnowledgeInv, NEW p \in Projects, NEW v \in Moments, NEW newest \in BOOLEAN,
         Gather(p, v, newest)
  PROVE  KnowledgeInv'
  <1>1. UNCHANGED <<codeVars, live>> /\ neo4j' = neo4j /\ fresh' = fresh
    BY DEF Gather
  <1>2. CodeInv'
    BY <1>1, CodeStep DEF KnowledgeInv
  <1>3. GraphsInv'
    BY DEF KnowledgeInv, GraphsInv, Gather, IsGraph, EntityIds, Orphans, NodesAreSound,
           codeVars
  <1>4. IsJob(job)'
    <2> DEFINE E == ProjectedEntities(p, v)
               R == ProjectedEdges(p, v, newest)
    <2>1. NodesAreSound(E)
      BY ProjectedAreSound DEF KnowledgeInv
    <2>2. /\ ProjectedEntities(p, v)' = E
          /\ ProjectedEdges(p, v, newest)' = R
      BY <1>1, SameProjection
    <2>3. job' = [project |-> p, revision |-> v, step |-> "entities", exact |-> TRUE,
                  entities |-> E, edges |-> R]
      BY DEF Gather
    <2> HIDE DEF E, R
    <2>4. /\ job'.project = p /\ job'.revision = v /\ job'.step = "entities"
          /\ job'.entities = E /\ job'.edges = R
      BY <2>3
    <2>5. NodesAreSound(job.entities)'
      BY <1>1, <2>1, <2>4 DEF NodesAreSound, codeVars
    <2> QED
      BY <2>2, <2>3, <2>4, <2>5 DEF IsJob
  <1>5. FreshInv'
    BY <1>1, SameShows DEF KnowledgeInv, FreshInv
  <1> QED
    BY <1>2, <1>3, <1>4, <1>5, KnowledgeAssumption DEF KnowledgeInv, Gather

LEMMA EntitiesKeep ==
  ASSUME KnowledgeInv, UpsertEntities
  PROVE  KnowledgeInv'
  <1>1. UNCHANGED <<codeVars, live>> /\ fresh' = fresh /\ IsJob(job)
    BY DEF UpsertEntities, KnowledgeInv
  <1>2. CodeInv'
    BY <1>1, CodeStep DEF KnowledgeInv
  <1>3. /\ GraphsInv'
        /\ neo4j'.edges = neo4j.edges
        /\ EntityIds(neo4j)' = EntityIds(neo4j) \cup {n.id : n \in job.entities}
    BY <1>1, NodesStep DEF KnowledgeInv, IsJob, UpsertEntities
  <1>4. IsJob(job)'
    <2>1. job' = [project |-> job.project, revision |-> job.revision,
                  step |-> "relations", exact |-> job.exact, entities |-> job.entities,
                  edges |-> job.edges]
      BY <1>1 DEF IsJob, UpsertEntities
    <2>2. /\ job'.project = job.project /\ job'.revision = job.revision
          /\ job'.step = "relations" /\ job'.exact = job.exact
          /\ job'.entities = job.entities /\ job'.edges = job.edges
      BY <2>1
    <2>3. NodesAreSound(job.entities)'
      BY <1>1, <2>2 DEF IsJob, NodesAreSound, codeVars
    <2>4. job.exact => /\ job.entities = ProjectedEntities(job.project, job.revision)'
                       /\ \E newest \in BOOLEAN :
                            job.edges = ProjectedEdges(job.project, job.revision, newest)'
      <3> DEFINE p == job.project
                 v == job.revision
      <3>1. /\ ProjectedEntities(p, v)' = ProjectedEntities(p, v)
            /\ \A newest \in BOOLEAN :
                 ProjectedEdges(p, v, newest)' = ProjectedEdges(p, v, newest)
        BY <1>1, <2>2, SameProjection
      <3> QED
        BY <1>1, <3>1 DEF IsJob
    <2> QED
      BY <1>1, <1>3, <2>1, <2>2, <2>3, <2>4 DEF IsJob
  <1>5. FreshInv'
    BY <1>1, <1>3, SameShows DEF KnowledgeInv, FreshInv
  <1> QED
    BY <1>1, <1>2, <1>3, <1>4, <1>5 DEF KnowledgeInv, UpsertEntities

\* Neo4j keeps the edges whose ends are nodes.
LEMMA UpsertedEdges ==
  ASSUME NEW graph, IsGraph(graph), NEW new
  PROVE  /\ IsGraph(UpsertedInMemory(graph, new)) /\ IsGraph(UpsertedInNeo4j(graph, new))
         /\ UpsertedInMemory(graph, new).entities = graph.entities
         /\ UpsertedInNeo4j(graph, new).entities = graph.entities
         /\ UpsertedInMemory(graph, new).edges = graph.edges \cup new
         /\ UpsertedInNeo4j(graph, new).edges = graph.edges \cup
              {r \in new : {r.subject, r.object} \subseteq EntityIds(graph)}
  <1>1. UpsertedInMemory(graph, new) =
          [entities |-> graph.entities, edges |-> graph.edges \cup new]
    BY DEF UpsertedInMemory, IsGraph
  <1>2. UpsertedInNeo4j(graph, new) =
          [entities |-> graph.entities, edges |-> graph.edges \cup
             {r \in new : {r.subject, r.object} \subseteq EntityIds(graph)}]
    <2> DEFINE kept == {r \in new : {r.subject, r.object} \subseteq EntityIds(graph)}
    <2>1. UpsertedInNeo4j(graph, new) = [graph EXCEPT !.edges = graph.edges \cup kept]
      BY DEF UpsertedInNeo4j
    <2> HIDE DEF kept
    <2>2. UpsertedInNeo4j(graph, new) =
            [entities |-> graph.entities, edges |-> graph.edges \cup kept]
      BY <2>1 DEF IsGraph
    <2> QED
      BY <2>2 DEF kept
  <1> QED
    BY <1>1, <1>2 DEF IsGraph

LEMMA RelationsKeep ==
  ASSUME KnowledgeInv, UpsertRelations
  PROVE  KnowledgeInv'
  <1>1. /\ UNCHANGED <<codeVars, live>> /\ IsJob(job) /\ GraphsInv
        /\ job.step = "relations"
    BY DEF UpsertRelations, KnowledgeInv
  <1>2. CodeInv'
    BY <1>1, CodeStep DEF KnowledgeInv
  <1>3. IsGraph(reference) /\ IsGraph(neo4j)
    BY <1>1 DEF GraphsInv
  <1> DEFINE kept == {r \in job.edges : {r.subject, r.object} \subseteq EntityIds(neo4j)}
  <1>4. /\ IsGraph(reference)' /\ IsGraph(neo4j)'
        /\ reference'.entities = reference.entities /\ neo4j'.entities = neo4j.entities
        /\ reference'.edges = reference.edges \cup job.edges
        /\ neo4j'.edges = neo4j.edges \cup kept
    BY <1>3, UpsertedEdges DEF UpsertRelations
  <1>5. GraphsInv'
    <2>1. EntityIds(neo4j)' = EntityIds(neo4j) /\ EntityIds(reference)' = EntityIds(reference)
      BY <1>4 DEF EntityIds
    <2>2. Orphans(neo4j)' = {}
      BY <1>1, <1>4, <2>1 DEF Orphans, GraphsInv
    <2>3. NodesAreSound(neo4j.entities)'
      BY <1>1, <1>4 DEF NodesAreSound, codeVars, GraphsInv
    <2>4. neo4j'.edges \subseteq reference'.edges
      BY <1>1, <1>4 DEF GraphsInv
    <2> QED
      BY <1>1, <1>4, <2>1, <2>2, <2>3, <2>4 DEF GraphsInv
  <1>6. job' = NoJob
    BY DEF UpsertRelations
  <1>7. ASSUME job.exact, NEW p, NEW v, p = job.project, v = job.revision
        PROVE  Shows(neo4j, p, v)'
    <2>1. PICK newest \in BOOLEAN : job.edges = ProjectedEdges(p, v, newest)
      BY <1>1, <1>7 DEF IsJob
    <2>2. /\ ProjectedEdges(p, v, newest)' = job.edges
          /\ ProjectedIds(p, v)' = {e.id : e \in job.entities}
      BY <1>1, <1>7, <2>1, SameProjection DEF ProjectedIds, IsJob
    <2>3. {e.id : e \in job.entities} \subseteq EntityIds(neo4j)
      BY <1>1 DEF IsJob
    <2>4. \A r \in job.edges : {r.subject, r.object} \subseteq ProjectedIds(p, v)'
                                 => r \in neo4j'.edges
      BY <1>4, <2>2, <2>3
    <2> QED
      BY <2>2, <2>4 DEF Shows
  <1>8. FreshInv'
    <2>1. fresh \subseteq Projects \X Moments /\ \A pv \in fresh : Shows(neo4j, pv[1], pv[2])'
      BY <1>1, <1>4, SameShows DEF KnowledgeInv, FreshInv
    <2>2. CASE job.exact
      <3>1. fresh' = fresh \cup {<<job.project, job.revision>>}
        BY <2>2 DEF UpsertRelations
      <3>2. <<job.project, job.revision>> \in Projects \X Moments
        BY <1>1 DEF IsJob
      <3>3. ASSUME NEW pv \in fresh' PROVE Shows(neo4j, pv[1], pv[2])'
        <4>1. CASE pv \in fresh
          BY <4>1, <2>1
        <4>2. CASE pv = <<job.project, job.revision>>
          BY <4>2, <1>7, <2>2
        <4> QED
          BY <3>1, <4>1, <4>2
      <3> QED
        BY <2>1, <3>1, <3>2, <3>3 DEF FreshInv
    <2>3. CASE ~job.exact
      BY <2>1, <2>3 DEF FreshInv, UpsertRelations
    <2> QED
      BY <2>2, <2>3
  <1> QED
    BY <1>1, <1>2, <1>5, <1>6, <1>8 DEF KnowledgeInv, UpsertRelations

LEMMA FailureKeeps ==
  ASSUME KnowledgeInv, NEW n \in FailurePoints, ProjectionFails(n)
  PROVE  KnowledgeInv'
  <1> DEFINE written == {e \in job.entities : \E i \in 1..n : LabelOrder[i] = e.label}
  <1>1. /\ UNCHANGED <<codeVars, live>> /\ fresh' = fresh /\ IsJob(job)
        /\ job' = NoJob
        /\ reference' = UpsertedEntities(reference, written)
        /\ neo4j' = UpsertedEntities(neo4j, written)
    BY DEF ProjectionFails, KnowledgeInv
  <1>2. CodeInv'
    BY <1>1, CodeStep DEF KnowledgeInv
  <1>3. NodesAreSound(written)
    BY <1>1, SoundSubset DEF IsJob
  <1> HIDE DEF written
  <1>4. GraphsInv' /\ neo4j'.edges = neo4j.edges
    BY <1>1, <1>3, NodesStep DEF KnowledgeInv
  <1>5. FreshInv'
    BY <1>1, <1>4, SameShows DEF KnowledgeInv, FreshInv
  <1> QED
    BY <1>1, <1>2, <1>4, <1>5 DEF KnowledgeInv, ProjectionFails

LEMMA KnowledgeStep == KnowledgeInv /\ [KnowledgeNext]_knowledgeVars => KnowledgeInv'
  <1> SUFFICES ASSUME KnowledgeInv, [KnowledgeNext]_knowledgeVars PROVE KnowledgeInv'
    OBVIOUS
  <1>1. CASE KnowledgeNext
    BY <1>1, EditKeeps, CodeBuildKeeps, GatherKeeps, EntitiesKeep, RelationsKeep,
       FailureKeeps DEF KnowledgeNext, Moments
  <1>2. CASE UNCHANGED knowledgeVars
    <2>1. /\ UNCHANGED <<codeVars, live>> /\ job' = job /\ reference' = reference
          /\ neo4j' = neo4j /\ fresh' = fresh /\ projections' = projections
          /\ rowEdits' = rowEdits
      BY <1>2 DEF knowledgeVars
    <2>2. CodeInv'
      BY <2>1, CodeStep DEF KnowledgeInv
    <2>3. GraphsInv'
      BY <2>1 DEF KnowledgeInv, GraphsInv, IsGraph, EntityIds, Orphans, NodesAreSound,
                  codeVars
    <2>4. (job # NoJob => IsJob(job))'
      <3> SUFFICES ASSUME job # NoJob PROVE IsJob(job)'
        BY <2>1
      <3>1. IsJob(job)
        BY DEF KnowledgeInv
      <3>2. NodesAreSound(job.entities)'
        BY <2>1, <3>1 DEF IsJob, NodesAreSound, codeVars
      <3>3. ASSUME NEW p, NEW v
            PROVE  /\ ProjectedEntities(p, v)' = ProjectedEntities(p, v)
                   /\ \A newest \in BOOLEAN :
                        ProjectedEdges(p, v, newest)' = ProjectedEdges(p, v, newest)
        BY <2>1, SameProjection
      <3>4. EntityIds(neo4j)' = EntityIds(neo4j)
        BY <2>1 DEF EntityIds
      <3> QED
        BY <2>1, <3>1, <3>2, <3>3, <3>4 DEF IsJob
    <2>5. FreshInv'
      BY <2>1, SameShows DEF KnowledgeInv, FreshInv
    <2> QED
      BY <2>1, <2>2, <2>3, <2>4, <2>5 DEF KnowledgeInv
  <1> QED
    BY <1>1, <1>2

-----------------------------------------------------------------------------
(* What the invariant says to those who read the graph.                     *)

\* The hops of a graph lead to ends of its edges, and more edges make more hops.
LEMMA HopsOf ==
  ASSUME NEW graph, NEW more, graph.edges \subseteq more.edges, NEW direction
  PROVE  /\ Hops(graph, direction) \subseteq Hops(more, direction)
         /\ \A h \in Hops(graph, direction) :
              h.edge \in graph.edges /\ h.to \in {h.edge.subject, h.edge.object}
  BY DEF Hops

\* A walk in Neo4j reaches no more than one in memory, at any depth.
LEMMA WalksAgree ==
  ASSUME GraphsInv, NEW types, types # {}, NEW depth \in Nat, NEW p, NEW v, NEW direction
  PROVE  TraverseInNeo4j(neo4j, {p}, types, depth, v, direction)
           \subseteq TraverseInMemory(reference, {p}, types, depth, v, direction)
  <1> DEFINE near == {h \in Hops(neo4j, direction) : Allowed(h.edge, types, v)}
             more == {h \in Hops(reference, direction) : Allowed(h.edge, types, v)}
             from == {p} \cap EntityIds(neo4j)
             last == Walk(more, {p}, depth)[depth]
  <1>1. near \subseteq more
    BY HopsOf DEF GraphsInv
  <1>2. ASSUME NEW h \in near PROVE h.to \in EntityIds(neo4j)
    <2>1. h.edge \in neo4j.edges /\ h.to \in {h.edge.subject, h.edge.object}
      BY HopsOf
    <2> QED
      BY <2>1 DEF GraphsInv, Orphans
  <1>3. TraverseInNeo4j(neo4j, {p}, types, depth, v, direction) =
          UNION {Paths(near, from, depth)[n] : n \in 0..depth}
    BY DEF TraverseInNeo4j
  <1>4. TraverseInMemory(reference, {p}, types, depth, v, direction) =
          (last.reached \cup last.frontier) \cap EntityIds(reference)
    BY DEF TraverseInMemory
  <1> HIDE DEF near, more
  <1>5. ASSUME NEW n \in 0..depth
        PROVE  Paths(near, from, depth)[n] \subseteq last.reached \cup last.frontier
    BY <1>1, SearchCoversPaths
  <1>6. ASSUME NEW n \in 0..depth
        PROVE  Paths(near, from, depth)[n] \subseteq EntityIds(reference)
    <2>1. EntityIds(reference) = EntityIds(neo4j)
      BY DEF GraphsInv
    <2>2. CASE n = 0
      BY <2>1, <2>2, PathsDef
    <2>3. CASE n # 0
      <3>1. n \in 1..depth
        BY <2>3
      <3>2. Paths(near, from, depth)[n] \subseteq {h.to : h \in near}
        BY <3>1, PathsDef
      <3> QED
        BY <3>2, <2>1, <1>2
    <2> QED
      BY <2>2, <2>3
  <1> HIDE DEF last, from
  <1> QED
    BY <1>3, <1>4, <1>5, <1>6

LEMMA Agreement ==
  ASSUME KnowledgeInv, NEW types, types # {}, NEW depth \in Nat
  PROVE  AdaptersAgree(types, depth)
  BY WalksAgree DEF KnowledgeInv, GraphsInv, AdaptersAgree

LEMMA Contentment ==
  ASSUME KnowledgeInv
  PROVE  CheckerIsContent
  <1>1. NodesAreSound(neo4j.entities) /\ Orphans(neo4j) = {} /\ CodeInv
    BY DEF KnowledgeInv, GraphsInv
  <1> SUFFICES ASSUME builds <= 1,
                      \A e1, e2 \in neo4j.entities : e1.revision = e2.revision,
                      \A v \in Revisions : \A tree \in built[v] : NamesAreUnique(tree),
                      NEW e1 \in neo4j.entities, NEW e2 \in neo4j.entities,
                      e1.label = e2.label, EntityIdentity(e1) = EntityIdentity(e2)
               PROVE  e1.id = e2.id
    BY <1>1 DEF CheckerIsContent, HasDuplicates, NodesAreSound
  <1>2. e1.revision = e2.revision
    OBVIOUS
  <1>3. CASE e1.label = "Symbol"
    <2>1. /\ e1.id = [symbol |-> e1.id.symbol, build |-> e1.id.build,
                      revision |-> e1.revision]
          /\ e2.id = [symbol |-> e2.id.symbol, build |-> e2.id.build,
                      revision |-> e2.revision]
          /\ e1.id.build \in 1..builds /\ e2.id.build \in 1..builds
      BY <1>1, <1>3 DEF NodesAreSound
    <2>2. e1.id.build = e2.id.build
      BY <1>1, <2>1 DEF CodeInv, CodeTypeOK
    <2>3. PICK v1 \in Revisions : \E tree \in built[v1] : e1.id.symbol \in TreeSymbols(tree)
      BY <1>1, <1>3 DEF NodesAreSound
    <2>4. PICK v2 \in Revisions : \E tree \in built[v2] : e2.id.symbol \in TreeSymbols(tree)
      BY <1>1, <1>3 DEF NodesAreSound
    <2>5. PICK tree \in built[v1] :
                 e1.id.symbol \in TreeSymbols(tree) /\ e2.id.symbol \in TreeSymbols(tree)
      BY <1>1, <2>3, <2>4 DEF CodeInv, OneTree
    <2>6. e1.id.symbol.qualified = e2.id.symbol.qualified
      BY <1>3 DEF EntityIdentity
    <2>7. e1.id.symbol = e2.id.symbol
      BY <2>5, <2>6 DEF NamesAreUnique
    <2> QED
      BY <1>2, <2>1, <2>2, <2>7
  <1>4. CASE e1.label = "File"
    <2>1. /\ e1.id = [file |-> e1.id.file, revision |-> e1.revision]
          /\ e2.id = [file |-> e2.id.file, revision |-> e2.revision]
      BY <1>1, <1>4 DEF NodesAreSound
    <2>2. e1.id.file = e2.id.file
      BY <1>4 DEF EntityIdentity
    <2> QED
      BY <1>2, <2>1, <2>2
  <1>5. CASE e1.label \notin {"File", "Symbol"}
    BY <1>5 DEF EntityIdentity
  <1> QED
    BY <1>3, <1>4, <1>5

LEMMA RowsShow ==
  ASSUME NEW p, NEW v, Shows(neo4j, p, v)
  PROVE  RowsAreShown(p, v)
  <1>1. PICK newest \in BOOLEAN : \A r \in ProjectedEdges(p, v, newest) :
               {r.subject, r.object} \subseteq ProjectedIds(p, v) => r \in neo4j.edges
    BY DEF Shows
  <1>2. p \in ProjectedIds(p, v)
    <2>1. Entity(p, "Project", p, v) \in ProjectedEntities(p, v)
      BY DEF ProjectedEntities
    <2>2. Entity(p, "Project", p, v).id = p
      BY DEF Entity
    <2> QED
      BY <2>1, <2>2 DEF ProjectedIds
  <1>3. ASSUME NEW row \in RowsOf(p) PROVE row.id \in ProjectedIds(p, v)
    <2>1. Entity(row.id, row.label, p, v) \in ProjectedEntities(p, v)
      BY DEF ProjectedEntities
    <2>2. Entity(row.id, row.label, p, v).id = row.id
      BY DEF Entity
    <2> QED
      BY <2>1, <2>2 DEF ProjectedIds
  <1> SUFFICES ASSUME NEW row \in RowsOf(p),
                      NEW other \in (row.refs \cup {p})
                                      \cap ({p} \cup {x.id : x \in RowsOf(p)})
               PROVE  \E r \in neo4j.edges : /\ r.revision = v
                                             /\ {r.subject, r.object} = {row.id, other}
    BY DEF RowsAreShown
  <1>4. row.id \in ProjectedIds(p, v) /\ other \in ProjectedIds(p, v) /\ row.project = p
    BY <1>2, <1>3 DEF RowsOf
  <1>5. PICK r \in RowEdges(row, v) :
               r.revision = v /\ {r.subject, r.object} = {row.id, other}
    <2>1. CASE other = p
      <3> DEFINE up == IF row.label = "Repository" THEN Edge(row.project, "PART_OF", row.id, v)
                       ELSE Edge(row.id, "PART_OF", row.project, v)
      <3>1. up \in RowEdges(row, v)
        BY DEF RowEdges
      <3>2. up.revision = v /\ {up.subject, up.object} = {row.id, other}
        BY <1>4, <2>1 DEF Edge
      <3> QED
        BY <3>1, <3>2
    <2>2. CASE other \in row.refs
      <3>1. Edge(row.id, RefType[row.label], other, v) \in RowEdges(row, v)
        BY <2>2 DEF RowEdges
      <3> QED
        BY <3>1 DEF Edge
    <2> QED
      BY <2>1, <2>2
  <1>6. r \in ProjectedEdges(p, v, newest)
    BY <1>5 DEF ProjectedEdges
  <1> QED
    BY <1>1, <1>4, <1>5, <1>6

LEMMA Completeness ==
  ASSUME KnowledgeInv
  PROVE  ProjectionIsComplete
  <1>1. ASSUME NEW pv \in fresh
        PROVE  /\ RowsAreShown(pv[1], pv[2])
               /\ HasCode(pv[1], pv[2]) =>
                    \A tree \in built[pv[2]] : CodeIsShown(neo4j, pv[2], tree)
    <2>1. Shows(neo4j, pv[1], pv[2]) /\ pv[2] \in Moments
      BY DEF KnowledgeInv, FreshInv
    <2>2. HasCode(pv[1], pv[2]) => pv[2] \in Revisions
      BY <2>1 DEF HasCode, Moments
    <2> QED
      BY <2>1, <2>2, RowsShow, CodeShows DEF KnowledgeInv
  <1>2. AdaptersAgree({"PART_OF", "DEPENDS_ON"}, 2)
    BY Agreement
  <1>3. CheckerIsContent
    BY Contentment
  <1> QED
    BY <1>1, <1>2, <1>3 DEF ProjectionIsComplete

LEMMA KnowledgeInvariance == KnowledgeSpec => []KnowledgeInv
  BY KnowledgeStarts, KnowledgeStep, PTL DEF KnowledgeSpec

LEMMA KnowledgeTypes == KnowledgeInv => KnowledgeTypeOK
  BY DEF KnowledgeInv, KnowledgeTypeOK, GraphsInv, NodesAreSound, FreshInv, CodeInv,
         IsJob, Moments

\* The projection keeps its types: the rows and nodes are of known projects
\* and revisions, and so are the projections that are up to date.
THEOREM KnowledgeTyped == KnowledgeSpec => []KnowledgeTypeOK
  BY KnowledgeTypes, KnowledgeInvariance, PTL

\* GraphProjectionService.project: for every set of file trees, of rows and of
\* projects, after any builds, failed builds and edits and any projections,
\* failed ones among them, what ended and nothing has outdated is complete in
\* Neo4j, the adapters agree, and the integrity checker finds nothing.
THEOREM ProjectionCompletes == KnowledgeSpec => []ProjectionIsComplete
  BY KnowledgeInvariance, Completeness, PTL

\* traverse, traverse_reverse and neighborhood of Neo4jKnowledgeGraph find, for
\* every choice of types but the empty one and at every depth, nothing that
\* the same call of InMemoryKnowledgeGraph does not find.
THEOREM TraversalsAgree ==
  ASSUME NEW types, types # {}, NEW depth \in Nat
  PROVE  KnowledgeSpec => []AdaptersAgree(types, depth)
  <1>1. KnowledgeInv => AdaptersAgree(types, depth)
    BY Agreement
  <1> QED
    BY <1>1, KnowledgeInvariance, PTL

-----------------------------------------------------------------------------
(* Sorting: a stable sort by falling keys.                                  *)

LEMMA SetToSeqType ==
  ASSUME NEW S, IsFiniteSet(S)
  PROVE  SetToSeq(S) \in Seq(S)
  <1>1. \E f \in [1..Cardinality(S) -> S] : IsInjective(f)
    BY FS_CardinalityType DEF ExistsBijection, Bijection, Injection, IsInjective
  <1> QED
    BY <1>1, FS_CardinalityType DEF SetToSeq

\* The places that come no later than i.
NoLater(chosen, key, i) ==
    {j \in chosen : \/ key[j] > key[i]
                    \/ key[j] = key[i] /\ j <= i}
Places(chosen, key) == [i \in chosen |-> Cardinality(NoLater(chosen, key, i))]
HasKeys(chosen, key) ==
    /\ IsFiniteSet(chosen) /\ chosen \subseteq Nat
    /\ \A i \in chosen : key[i] \in Nat

\* What comes later has a later place.
LEMMA LaterPlace ==
  ASSUME NEW chosen, NEW key, HasKeys(chosen, key), NEW i \in chosen, NEW k \in chosen,
         key[i] > key[k] \/ (key[i] = key[k] /\ i < k)
  PROVE  Places(chosen, key)[i] < Places(chosen, key)[k]
  <1> DEFINE A == NoLater(chosen, key, i)
             B == NoLater(chosen, key, k)
  <1>1. i \in Nat /\ k \in Nat /\ key[i] \in Nat /\ key[k] \in Nat
    BY DEF HasKeys
  <1>2. ASSUME NEW j \in A PROVE j \in B
    <2>1. j \in chosen /\ j \in Nat /\ key[j] \in Nat
      BY DEF NoLater, HasKeys
    <2>2. key[j] > key[i] \/ (key[j] = key[i] /\ j <= i)
      BY DEF NoLater
    <2>3. key[j] > key[k] \/ (key[j] = key[k] /\ j <= k)
      BY <1>1, <2>1, <2>2
    <2> QED
      BY <2>1, <2>3 DEF NoLater
  <1>3. k \in B /\ k \notin A
    BY <1>1 DEF NoLater
  <1>4. IsFiniteSet(B)
    BY FS_Subset DEF NoLater, HasKeys
  <1> HIDE DEF A, B
  <1>5. IsFiniteSet(A) /\ Cardinality(A) <= Cardinality(B) /\ Cardinality(B) # Cardinality(A)
    BY <1>2, <1>3, <1>4, FS_Subset
  <1>6. Cardinality(A) \in Nat /\ Cardinality(B) \in Nat
    BY <1>4, <1>5, FS_CardinalityType
  <1>7. Cardinality(A) < Cardinality(B)
    BY <1>5, <1>6
  <1> QED
    BY <1>7 DEF A, B, Places

\* Every place is taken.
LEMMA PlacesAreTaken ==
  ASSUME NEW chosen, NEW key, HasKeys(chosen, key), NEW n \in 1..Cardinality(chosen)
  PROVE  \E i \in chosen : Places(chosen, key)[i] = n
  <1> DEFINE N == Cardinality(chosen)
             f == Places(chosen, key)
  <1>1. N \in Nat /\ IsFiniteSet(chosen)
    BY FS_CardinalityType DEF HasKeys
  <1>2. ASSUME NEW i \in chosen PROVE f[i] \in 1..N
    <2> DEFINE A == NoLater(chosen, key, i)
    <2>1. A \in SUBSET chosen /\ i \in A
      BY DEF NoLater, HasKeys
    <2> HIDE DEF A
    <2>2. IsFiniteSet(A) /\ Cardinality(A) <= N
      BY <1>1, <2>1, FS_Subset
    <2>3. Cardinality(A) \in Nat /\ Cardinality(A) # 0
      BY <2>1, <2>2, FS_CardinalityType, FS_EmptySet
    <2>4. Cardinality(A) \in 1..N
      BY <1>1, <2>2, <2>3
    <2> QED
      BY <2>4 DEF A, Places
  <1>3. f \in [chosen -> 1..N]
    BY <1>2 DEF Places
  <1>4. ASSUME NEW i \in chosen, NEW k \in chosen, f[i] = f[k] PROVE i = k
    <2>1. i \in Nat /\ k \in Nat /\ key[i] \in Nat /\ key[k] \in Nat
      BY DEF HasKeys
    <2>2. f[i] \in Nat /\ f[k] \in Nat
      BY <1>2
    <2>3. ~(f[i] < f[k]) /\ ~(f[k] < f[i])
      BY <1>4, <2>2
    <2>4. /\ ~(key[i] > key[k] \/ (key[i] = key[k] /\ i < k))
          /\ ~(key[k] > key[i] \/ (key[k] = key[i] /\ k < i))
      BY <2>3, LaterPlace
    <2> QED
      BY <2>1, <2>4
  <1> HIDE DEF f
  <1>5. f \in Injection(chosen, 1..N)
    BY <1>3, <1>4 DEF Injection, IsInjective
  <1>6. IsFiniteSet(1..N) /\ Cardinality(1..N) = N
    BY <1>1, FS_Interval
  <1>7. f \in Surjection(chosen, 1..N)
    BY <1>5, <1>6, FS_Injection
  <1> QED
    BY <1>7 DEF Surjection, f

\* A sorted sequence holds the chosen elements by falling key.
LEMMA Sorted ==
  ASSUME NEW s, NEW chosen, NEW key, HasKeys(chosen, key), NEW T,
         \A i \in chosen : s[i] \in T
  PROVE  LET sorted == SortedByKey(s, chosen, key)
         IN  /\ sorted \in Seq(T)
             /\ Len(sorted) = Cardinality(chosen)
             /\ \A n, m \in 1..Cardinality(chosen) : n < m =>
                  \E i, k \in chosen : /\ sorted[n] = s[i] /\ sorted[m] = s[k]
                                       /\ key[i] >= key[k]
  <1> DEFINE N == Cardinality(chosen)
             P == Places(chosen, key)
             at(n) == CHOOSE i \in chosen : P[i] = n
             sorted == SortedByKey(s, chosen, key)
  <1>1. N \in Nat
    BY FS_CardinalityType DEF HasKeys
  <1>2. sorted = [n \in 1..N |-> s[at(n)]]
    BY DEF SortedByKey, Places, NoLater
  <1>3. ASSUME NEW n \in 1..N PROVE at(n) \in chosen /\ P[at(n)] = n
    <2>1. \E i \in chosen : P[i] = n
      BY PlacesAreTaken
    <2> HIDE DEF P
    <2> QED
      BY <2>1
  <1> HIDE DEF at, P, sorted
  <1>4. sorted \in [1..N -> T]
    BY <1>2, <1>3
  <1>5. sorted \in Seq(T) /\ Len(sorted) = N
    BY <1>1, <1>4
  <1>6. ASSUME NEW n \in 1..N, NEW m \in 1..N, n < m
        PROVE  \E i, k \in chosen : /\ sorted[n] = s[i] /\ sorted[m] = s[k]
                                    /\ key[i] >= key[k]
    <2> DEFINE i == at(n)
               k == at(m)
    <2>1. i \in chosen /\ k \in chosen /\ P[i] = n /\ P[k] = m
      BY <1>3
    <2>2. sorted[n] = s[i] /\ sorted[m] = s[k]
      BY <1>2
    <2>3. key[i] \in Nat /\ key[k] \in Nat
      BY <2>1 DEF HasKeys
    <2> HIDE DEF i, k
    <2>4. ~(key[k] > key[i])
      <3> SUFFICES ASSUME key[k] > key[i] PROVE FALSE
        OBVIOUS
      <3>1. P[k] < P[i]
        BY <2>1, LaterPlace DEF P
      <3> QED
        BY <2>1, <3>1, <1>6
    <2> QED
      BY <2>1, <2>2, <2>3, <2>4
  <1>7. /\ sorted \in Seq(T)
        /\ Len(sorted) = N
        /\ \A n, m \in 1..N : n < m =>
             \E i, k \in chosen : /\ sorted[n] = s[i] /\ sorted[m] = s[k]
                                  /\ key[i] >= key[k]
    BY <1>5, <1>6
  <1> QED
    BY <1>7, Zenon DEF sorted

-----------------------------------------------------------------------------
(* The tokens of some candidates.                                           *)

Sized(ranked, d) ==
    /\ d \in Nat /\ Len(ranked) = d
    /\ \A n \in 1..d : ranked[n].tokens \in Nat

SumsUp(sum, ranked, S, d) ==
    /\ sum \in [0..d -> Nat]
    /\ sum[0] = 0
    /\ \A n \in 1..d : sum[n] = sum[n - 1] + (IF n \in S THEN ranked[n].tokens ELSE 0)

\* The recursive function is the one its equation describes.
LEMMA TokensDef ==
  ASSUME NEW ranked, NEW d, Sized(ranked, d), NEW S
  PROVE  \E sum : SumsUp(sum, ranked, S, d) /\ TokensOf(ranked, S) = sum[d]
  <1> DEFINE more(n) == IF n \in S THEN ranked[n].tokens ELSE 0
             F == [x \in (1..d) \X Nat |-> x[2] + more(x[1])]
             Eq(w) == w = [n \in 0..d |-> IF n = 0 THEN 0 ELSE w[n - 1] + more(n)]
             W == CHOOSE w : Eq(w)
  <1>0. d \in Nat /\ Len(ranked) = d
    BY DEF Sized
  <1>1. \A n \in 1..d : more(n) \in Nat
    BY DEF Sized
  <1>2. TokensOf(ranked, S) = W[d]
    BY <1>0 DEF TokensOf
  <1> HIDE DEF more
  <1>3. F \in [(1..d) \X Nat -> Nat]
    BY <1>1
  <1>4. PICK w \in [0..d -> Nat] :
               w[0] = 0 /\ \A n \in 1..d : w[n] = F[<<n, w[n - 1]>>]
    <2> HIDE DEF F
    <2>1. Steps(F, d, Nat)
      BY <1>3 DEF Steps
    <2>2. PICK w : Iterates(w, F, 0, d, Nat)
      BY <1>0, <2>1, Iteration
    <2> QED
      BY <2>2 DEF Iterates
  <1>5. \A n \in 1..d : w[n] = w[n - 1] + more(n)
    <2> SUFFICES ASSUME NEW n \in 1..d PROVE w[n] = w[n - 1] + more(n)
      OBVIOUS
    <2>1. w[n - 1] \in Nat
      BY <1>0, <1>4
    <2>2. <<n, w[n - 1]>> \in (1..d) \X Nat
      BY <2>1
    <2> QED
      BY <1>4, <2>2
  <1>6. Eq(w)
    <2>1. \A n \in 0..d : w[n] = IF n = 0 THEN 0 ELSE w[n - 1] + more(n)
      BY <1>0, <1>4, <1>5
    <2>2. w = [n \in 0..d |-> w[n]]
      BY <1>4
    <2> QED
      BY <2>1, <2>2
  <1>7. Eq(W)
    BY <1>6
  <1> HIDE DEF W
  <1>8. W = [n \in 0..d |-> W[n]] /\ W[0] = 0 /\ \A n \in 1..d : W[n] = W[n - 1] + more(n)
    <2> DEFINE V == [n \in 0..d |-> IF n = 0 THEN 0 ELSE W[n - 1] + more(n)]
    <2>1. W = V
      BY <1>7
    <2>2. /\ V = [n \in 0..d |-> V[n]] /\ V[0] = 0
          /\ \A n \in 1..d : V[n] = W[n - 1] + more(n)
      BY <1>0
    <2> HIDE DEF V
    <2> QED
      BY <2>1, <2>2
  <1> HIDE DEF Eq
  <1>9. W \in [0..d -> Nat]
    <2> DEFINE T == {n \in 0..d : W[n] \in Nat}
    <2>1. 0 \in T
      BY <1>0, <1>8
    <2>2. ASSUME NEW n \in 0..d, n < d, n \in T PROVE n + 1 \in T
      <3>1. n + 1 \in 1..d /\ (n + 1) - 1 = n
        BY <1>0, <2>2
      <3>2. W[n] \in Nat /\ more(n + 1) \in Nat
        BY <1>1, <2>2, <3>1
      <3>3. W[n + 1] = W[(n + 1) - 1] + more(n + 1)
        BY <1>8, <3>1
      <3>4. n + 1 \in 0..d
        BY <3>1
      <3> QED
        BY <3>1, <3>2, <3>3, <3>4
    <2> HIDE DEF T
    <2>3. 0..d \subseteq T
      BY <1>0, <2>1, <2>2, Climb
    <2> QED
      BY <1>8, <2>3 DEF T
  <1>10. SumsUp(W, ranked, S, d)
    BY <1>8, <1>9 DEF SumsUp, more
  <1> QED
    BY <1>2, <1>10

LEMMA NoTokens ==
  ASSUME NEW ranked, NEW d, Sized(ranked, d)
  PROVE  TokensOf(ranked, {}) = 0
  <1>1. PICK sum : SumsUp(sum, ranked, {}, d) /\ TokensOf(ranked, {}) = sum[d]
    BY TokensDef
  <1> DEFINE T == {n \in 0..d : sum[n] = 0}
  <1>2. d \in Nat
    BY DEF Sized
  <1>3. 0 \in T
    BY <1>1, <1>2 DEF SumsUp
  <1>4. ASSUME NEW n \in 0..d, n < d, n \in T PROVE n + 1 \in T
    <2>1. n + 1 \in 1..d /\ (n + 1) - 1 = n
      BY <1>2, <1>4
    <2> QED
      BY <1>1, <1>4, <2>1 DEF SumsUp
  <1> HIDE DEF T
  <1>5. 0..d \subseteq T
    BY <1>2, <1>3, <1>4, Climb
  <1> QED
    BY <1>1, <1>2, <1>5 DEF T

\* One more candidate adds its tokens.
LEMMA MoreTokens ==
  ASSUME NEW ranked, NEW d, Sized(ranked, d), NEW S, NEW i \in 1..d, i \notin S
  PROVE  /\ TokensOf(ranked, S) \in Nat
         /\ TokensOf(ranked, S \cup {i}) = TokensOf(ranked, S) + ranked[i].tokens
  <1>1. PICK sum : SumsUp(sum, ranked, S, d) /\ TokensOf(ranked, S) = sum[d]
    BY TokensDef
  <1>2. PICK new : /\ SumsUp(new, ranked, S \cup {i}, d)
                   /\ TokensOf(ranked, S \cup {i}) = new[d]
    <2> DEFINE all == S \cup {i}
    <2> HIDE DEF all
    <2>1. \E new : SumsUp(new, ranked, all, d) /\ TokensOf(ranked, all) = new[d]
      BY TokensDef
    <2> QED
      BY <2>1 DEF all
  <1>3. d \in Nat /\ ranked[i].tokens \in Nat
    BY DEF Sized
  <1> DEFINE T == {n \in 0..d : new[n] = sum[n] + (IF n >= i THEN ranked[i].tokens ELSE 0)}
  <1>4. 0 \in T
    BY <1>1, <1>2, <1>3 DEF SumsUp
  <1>5. ASSUME NEW n \in 0..d, n < d, n \in T PROVE n + 1 \in T
    <2>1. n + 1 \in 1..d /\ (n + 1) - 1 = n /\ n \in Nat
      BY <1>3, <1>5
    <2>2. /\ sum[n + 1] = sum[n] + (IF n + 1 \in S THEN ranked[n + 1].tokens ELSE 0)
          /\ new[n + 1] = new[n] + (IF n + 1 \in S \cup {i} THEN ranked[n + 1].tokens
                                    ELSE 0)
          /\ sum[n] \in Nat /\ ranked[n + 1].tokens \in Nat
      BY <1>1, <1>2, <2>1 DEF SumsUp, Sized
    <2>3. new[n] = sum[n] + (IF n >= i THEN ranked[i].tokens ELSE 0)
      BY <1>5
    <2>4. CASE n + 1 = i
      BY <1>3, <2>1, <2>2, <2>3, <2>4
    <2>5. CASE n + 1 # i
      <3>1. (n + 1 >= i) <=> (n >= i)
        BY <2>1, <2>5
      <3>2. n + 1 \in S \cup {i} <=> n + 1 \in S
        BY <2>5
      <3> QED
        BY <1>3, <2>1, <2>2, <2>3, <3>1, <3>2
    <2> QED
      BY <2>4, <2>5
  <1> HIDE DEF T
  <1>6. 0..d \subseteq T
    BY <1>3, <1>4, <1>5, Climb
  <1>7. new[d] = sum[d] + ranked[i].tokens /\ sum[d] \in Nat
    BY <1>1, <1>3, <1>6 DEF T, SumsUp
  <1> QED
    BY <1>1, <1>2, <1>7

-----------------------------------------------------------------------------
(* The selection.                                                           *)

Categories == DOMAIN Weights
Capsules(d) ==
    [included : SUBSET (1..d), total : Nat, open : BOOLEAN, used : [Categories -> Nat]]
Candidates(ranked, d) ==
    Sized(ranked, d) /\ \A n \in 1..d : ranked[n].category \in Categories

\* What the selection has done with the first k candidates.
KeepsBest(request, ranked, capsule, k) ==
    LET S == capsule.included
    IN  /\ S \subseteq 1..k
        /\ capsule.total = TokensOf(ranked, S)
        /\ capsule.total <= request.max
        /\ \A c \in Categories :
             capsule.used[c] = TokensOf(ranked, OfCategory(ranked, S, c))
        /\ \A i \in S : ~UsedUp(request, ranked, S, i)
        /\ capsule.open => \A i \in (1..k) \ S : UsedUp(request, ranked, S, i)
        /\ ~capsule.open => \E j \in (1..k) \ S :
             /\ ~UsedUp(request, ranked, S, j) /\ TooLarge(request, ranked, S, j)
             /\ \A i \in S : i < j
             /\ \A i \in (1..k) \ S : i < j => UsedUp(request, ranked, S, i)

LEMMA TakenType ==
  ASSUME NEW ranked, NEW d, Candidates(ranked, d), NEW capsule \in Capsules(d),
         NEW n \in 1..d
  PROVE  /\ Taken(ranked, capsule, n) \in Capsules(d)
         /\ Taken(ranked, capsule, n).included = capsule.included \cup {n}
         /\ Taken(ranked, capsule, n).total = capsule.total + ranked[n].tokens
         /\ Taken(ranked, capsule, n).open = capsule.open
         /\ \A c \in Categories : Taken(ranked, capsule, n).used[c] =
              IF c = ranked[n].category THEN capsule.used[c] + ranked[n].tokens
              ELSE capsule.used[c]
  <1>1. /\ ranked[n].tokens \in Nat /\ ranked[n].category \in Categories
        /\ capsule.used \in [Categories -> Nat] /\ capsule.total \in Nat
        /\ capsule.included \in SUBSET (1..d) /\ capsule.open \in BOOLEAN
    BY DEF Candidates, Sized, Capsules
  <1> DEFINE used == [capsule.used EXCEPT ![ranked[n].category] = @ + ranked[n].tokens]
  <1>2. used \in [Categories -> Nat]
    BY <1>1
  <1>3. \A c \in Categories : used[c] =
          IF c = ranked[n].category THEN capsule.used[c] + ranked[n].tokens
          ELSE capsule.used[c]
    BY <1>1
  <1> HIDE DEF used
  <1>4. Taken(ranked, capsule, n) =
          [included |-> capsule.included \cup {n}, total |-> capsule.total + ranked[n].tokens,
           open |-> capsule.open, used |-> used]
    BY DEF Taken, used
  <1> QED
    BY <1>1, <1>2, <1>3, <1>4 DEF Capsules

LEMMA ClosedType ==
  ASSUME NEW d, NEW capsule \in Capsules(d)
  PROVE  LET closed == [capsule EXCEPT !.open = FALSE]
         IN  /\ closed.included = capsule.included /\ closed.total = capsule.total
             /\ closed.used = capsule.used /\ closed.open = FALSE
  BY DEF Capsules

LEMMA SelectType ==
  ASSUME NEW request, NEW ranked, NEW d, Candidates(ranked, d),
         NEW capsule \in Capsules(d), NEW n \in 1..d
  PROVE  Select(request, ranked, capsule, n) \in Capsules(d)
  <1>1. [capsule EXCEPT !.open = FALSE] \in Capsules(d)
    BY DEF Capsules
  <1>2. Taken(ranked, capsule, n) \in Capsules(d)
    BY TakenType
  <1> QED
    BY <1>1, <1>2, Zenon DEF Select

LEMMA NothingType ==
  ASSUME NEW d
  PROVE  NothingSelected \in Capsules(d)
  <1> DEFINE used == [c \in Categories |-> 0]
  <1>1. used \in [Categories -> Nat]
    OBVIOUS
  <1>2. NothingSelected = [included |-> {}, total |-> 0, open |-> TRUE, used |-> used]
    BY DEF NothingSelected, Categories
  <1> HIDE DEF used
  <1> QED
    BY <1>1, <1>2 DEF Capsules

Selects(chosen, request, ranked, d) ==
    /\ chosen \in [0..d -> Capsules(d)]
    /\ chosen[0] = NothingSelected
    /\ \A n \in 1..d : chosen[n] = Select(request, ranked, chosen[n - 1], n)

\* The loop of _build_capsule is the function its equation describes.
LEMMA CapsuleDef ==
  ASSUME NEW request, NEW ranked, NEW d, Candidates(ranked, d)
  PROVE  \E chosen : /\ Selects(chosen, request, ranked, d)
                     /\ BuildCapsule(request, ranked) = chosen[d]
  <1> DEFINE C == Capsules(d)
             Pick(n, capsule) == Select(request, ranked, capsule, n)
             F == [x \in (1..d) \X C |-> Pick(x[1], x[2])]
             Eq(w) == w = [n \in 0..d |-> IF n = 0 THEN NothingSelected
                                          ELSE Pick(n, w[n - 1])]
             W == CHOOSE w : Eq(w)
  <1>0. d \in Nat /\ Len(ranked) = d
    BY DEF Candidates, Sized
  <1>1. \A n \in 1..d : \A capsule \in C : Pick(n, capsule) \in C
    BY SelectType
  <1>2. BuildCapsule(request, ranked) = W[d]
    BY <1>0 DEF BuildCapsule
  <1>B. NothingSelected \in C
    BY NothingType
  <1> HIDE DEF Pick, C
  <1>3. F \in [(1..d) \X C -> C]
    BY <1>1
  <1>4. PICK w \in [0..d -> C] :
               w[0] = NothingSelected /\ \A n \in 1..d : w[n] = F[<<n, w[n - 1]>>]
    <2> HIDE DEF F
    <2>1. Steps(F, d, C)
      BY <1>3 DEF Steps
    <2>2. PICK w : Iterates(w, F, NothingSelected, d, C)
      BY <1>0, <1>B, <2>1, Iteration
    <2> QED
      BY <2>2 DEF Iterates
  <1>5. \A n \in 1..d : w[n] = Pick(n, w[n - 1])
    <2> SUFFICES ASSUME NEW n \in 1..d PROVE w[n] = Pick(n, w[n - 1])
      OBVIOUS
    <2>1. w[n - 1] \in C
      BY <1>0, <1>4
    <2>2. <<n, w[n - 1]>> \in (1..d) \X C
      BY <2>1
    <2> QED
      BY <1>4, <2>2
  <1>6. Eq(w)
    <2>1. \A n \in 0..d : w[n] = IF n = 0 THEN NothingSelected ELSE Pick(n, w[n - 1])
      BY <1>0, <1>4, <1>5
    <2>2. w = [n \in 0..d |-> w[n]]
      BY <1>4
    <2> QED
      BY <2>1, <2>2
  <1>7. Eq(W)
    BY <1>6
  <1> HIDE DEF W
  <1>8. /\ W = [n \in 0..d |-> W[n]] /\ W[0] = NothingSelected
        /\ \A n \in 1..d : W[n] = Pick(n, W[n - 1])
    BY <1>7, <1>0
  <1> HIDE DEF Eq
  <1>9. W \in [0..d -> C]
    <2> DEFINE T == {n \in 0..d : W[n] \in C}
    <2>1. 0 \in T
      BY <1>0, <1>B, <1>8
    <2>2. ASSUME NEW n \in 0..d, n < d, n \in T PROVE n + 1 \in T
      <3>1. n + 1 \in 1..d /\ (n + 1) - 1 = n /\ n + 1 \in 0..d
        BY <1>0, <2>2
      <3>2. W[n + 1] = Pick(n + 1, W[n])
        BY <1>8, <3>1
      <3> QED
        BY <1>1, <2>2, <3>1, <3>2
    <2> HIDE DEF T
    <2>3. 0..d \subseteq T
      BY <1>0, <2>1, <2>2, Climb
    <2> QED
      BY <1>8, <2>3 DEF T
  <1>10. Selects(W, request, ranked, d)
    BY <1>8, <1>9 DEF Selects, C, Pick
  <1> QED
    BY <1>2, <1>10

\* A category without included candidates has no tokens, and a new candidate
\* adds its tokens to its own category alone.
LEMMA TakenTokens ==
  ASSUME NEW ranked, NEW d, Candidates(ranked, d), NEW S,
         NEW n \in 1..d, n \notin S, NEW c
  PROVE  TokensOf(ranked, OfCategory(ranked, S \cup {n}, c)) =
           IF c = ranked[n].category
           THEN TokensOf(ranked, OfCategory(ranked, S, c)) + ranked[n].tokens
           ELSE TokensOf(ranked, OfCategory(ranked, S, c))
  <1> DEFINE old == OfCategory(ranked, S, c)
             new == OfCategory(ranked, S \cup {n}, c)
  <1>1. n \notin old /\ Sized(ranked, d)
    BY DEF Candidates, OfCategory
  <1>2. CASE c = ranked[n].category
    <2>1. new = old \cup {n}
      BY <1>2 DEF OfCategory
    <2> HIDE DEF new, old
    <2>2. TokensOf(ranked, old \cup {n}) = TokensOf(ranked, old) + ranked[n].tokens
      BY <1>1, MoreTokens
    <2>3. TokensOf(ranked, new) = TokensOf(ranked, old) + ranked[n].tokens
      BY <2>1, <2>2
    <2> QED
      BY <1>2, <2>3 DEF old, new
  <1>3. CASE c # ranked[n].category
    <2>1. new = old
      BY <1>3 DEF OfCategory
    <2> HIDE DEF new, old
    <2>2. TokensOf(ranked, new) = TokensOf(ranked, old)
      BY <2>1
    <2> QED
      BY <1>3, <2>2 DEF old, new
  <1> QED
    BY <1>2, <1>3

\* What comes after a candidate says nothing about its room.
LEMMA SameRoom ==
  ASSUME NEW request, NEW ranked, NEW S, NEW n \in Nat, NEW i \in Nat, i <= n
  PROVE  /\ UsedUp(request, ranked, S \cup {n}, i) <=> UsedUp(request, ranked, S, i)
         /\ TooLarge(request, ranked, S \cup {n}, i) <=> TooLarge(request, ranked, S, i)
  <1>1. Before(S \cup {n}, i) = Before(S, i)
    BY DEF Before
  <1> QED
    BY <1>1 DEF UsedUp, TooLarge

LEMMA SelectKeepsBest ==
  ASSUME NEW request, request.max \in Nat, NEW ranked, NEW d, Candidates(ranked, d),
         NEW capsule \in Capsules(d), NEW k \in 0..d, k < d,
         KeepsBest(request, ranked, capsule, k)
  PROVE  KeepsBest(request, ranked, Select(request, ranked, capsule, k + 1), k + 1)
  <1> DEFINE n == k + 1
             S == capsule.included
             cat == ranked[n].category
             after == Select(request, ranked, capsule, n)
  <1>0. d \in Nat /\ Sized(ranked, d)
    BY DEF Candidates, Sized
  <1>1. /\ n \in 1..d /\ n \in Nat /\ cat \in Categories /\ S \subseteq 1..k
        /\ n \notin S /\ ranked[n].tokens \in Nat
        /\ \A i \in 1..n : i # n => i \in 1..k
        /\ \A i \in 1..k : i < n /\ i \in Nat /\ i \in 1..n
    BY <1>0 DEF Candidates, Sized, KeepsBest
  <1>2. /\ capsule.total = TokensOf(ranked, S)
        /\ capsule.total <= request.max
        /\ \A c \in Categories :
             capsule.used[c] = TokensOf(ranked, OfCategory(ranked, S, c))
        /\ \A i \in S : ~UsedUp(request, ranked, S, i)
        /\ capsule.open => \A i \in (1..k) \ S : UsedUp(request, ranked, S, i)
        /\ ~capsule.open => \E j \in (1..k) \ S :
             /\ ~UsedUp(request, ranked, S, j) /\ TooLarge(request, ranked, S, j)
             /\ \A i \in S : i < j
             /\ \A i \in (1..k) \ S : i < j => UsedUp(request, ranked, S, i)
    BY DEF KeepsBest
  <1>3. Before(S, n) = S
    BY <1>1 DEF Before
  <1>4. UsedUp(request, ranked, S, n) <=> capsule.used[cat] >= Allocated(request, cat)
    BY <1>1, <1>2, <1>3 DEF UsedUp
  <1>5. TooLarge(request, ranked, S, n)
          <=> capsule.total + ranked[n].tokens > request.max
    BY <1>2, <1>3 DEF TooLarge
  <1> HIDE DEF n
  <1>6. CASE ~capsule.open \/ capsule.used[cat] >= Allocated(request, cat)
    <2>1. after = capsule
      BY <1>6 DEF Select
    <2>2. S \subseteq 1..n
      BY <1>1
    <2>3. capsule.open => \A i \in (1..n) \ S : UsedUp(request, ranked, S, i)
      BY <1>1, <1>2, <1>4, <1>6
    <2>4. ~capsule.open => \E j \in (1..n) \ S :
             /\ ~UsedUp(request, ranked, S, j) /\ TooLarge(request, ranked, S, j)
             /\ \A i \in S : i < j
             /\ \A i \in (1..n) \ S : i < j => UsedUp(request, ranked, S, i)
      <3> SUFFICES ASSUME ~capsule.open
                   PROVE  \E j \in (1..n) \ S :
                            /\ ~UsedUp(request, ranked, S, j)
                            /\ TooLarge(request, ranked, S, j)
                            /\ \A i \in S : i < j
                            /\ \A i \in (1..n) \ S : i < j =>
                                 UsedUp(request, ranked, S, i)
        OBVIOUS
      <3>1. PICK j \in (1..k) \ S :
             /\ ~UsedUp(request, ranked, S, j) /\ TooLarge(request, ranked, S, j)
             /\ \A i \in S : i < j
             /\ \A i \in (1..k) \ S : i < j => UsedUp(request, ranked, S, i)
        BY <1>2
      <3>2. j \in 1..n /\ ~(n < j)
        BY <1>1
      <3>3. \A i \in (1..n) \ S : i < j => UsedUp(request, ranked, S, i)
        BY <1>1, <3>1, <3>2
      <3> QED
        BY <3>1, <3>2, <3>3
    <2> HIDE DEF after, S
    <2>5. KeepsBest(request, ranked, capsule, n)
      BY <1>2, <2>2, <2>3, <2>4 DEF KeepsBest, S
    <2> QED
      BY <2>1, <2>5 DEF after, n
  <1>7. CASE /\ capsule.open /\ ~(capsule.used[cat] >= Allocated(request, cat))
             /\ capsule.total + ranked[n].tokens > request.max
    <2>1. after = [capsule EXCEPT !.open = FALSE]
      BY <1>7 DEF Select
    <2>2. /\ after.included = S /\ after.total = capsule.total /\ ~after.open
          /\ after.used = capsule.used
      BY <2>1, ClosedType
    <2>3. S \subseteq 1..n
      BY <1>1
    <2>4. /\ n \in (1..n) \ S
          /\ ~UsedUp(request, ranked, S, n) /\ TooLarge(request, ranked, S, n)
          /\ \A i \in S : i < n
          /\ \A i \in (1..n) \ S : i < n => UsedUp(request, ranked, S, i)
      BY <1>1, <1>2, <1>4, <1>5, <1>7
    <2> HIDE DEF after, S
    <2>5. KeepsBest(request, ranked, after, n)
      BY <1>2, <2>2, <2>3, <2>4 DEF KeepsBest
    <2> QED
      BY <2>5 DEF after, n
  <1>8. CASE /\ capsule.open /\ ~(capsule.used[cat] >= Allocated(request, cat))
             /\ ~(capsule.total + ranked[n].tokens > request.max)
    <2>1. after = Taken(ranked, capsule, n)
      BY <1>8 DEF Select
    <2> DEFINE all == S \cup {n}
    <2>2. /\ after.included = all
          /\ after.total = capsule.total + ranked[n].tokens
          /\ after.open
          /\ \A c \in Categories : after.used[c] =
               IF c = cat THEN capsule.used[c] + ranked[n].tokens ELSE capsule.used[c]
      BY <1>1, <1>8, <2>1, TakenType
    <2>3. capsule.total \in Nat /\ S \subseteq 1..d
      BY DEF Capsules
    <2>4. after.total = TokensOf(ranked, all) /\ after.total <= request.max
      BY <1>0, <1>1, <1>2, <1>8, <2>2, <2>3, MoreTokens
    <2>5. \A c \in Categories :
            after.used[c] = TokensOf(ranked, OfCategory(ranked, all, c))
      <3> SUFFICES ASSUME NEW c \in Categories
                   PROVE  after.used[c] =
                            TokensOf(ranked, OfCategory(ranked, S \cup {n}, c))
        OBVIOUS
      <3>1. TokensOf(ranked, OfCategory(ranked, S \cup {n}, c)) =
              IF c = cat
              THEN TokensOf(ranked, OfCategory(ranked, S, c)) + ranked[n].tokens
              ELSE TokensOf(ranked, OfCategory(ranked, S, c))
        <4>1. S \subseteq 1..d /\ n \in 1..d /\ n \notin S
          BY <1>1, <2>3
        <4> HIDE DEF S
        <4> QED
          BY <4>1, TakenTokens
      <3>2. capsule.used[c] = TokensOf(ranked, OfCategory(ranked, S, c))
        BY <1>2
      <3> QED
        BY <2>2, <3>1, <3>2
    <2>6. \A i \in 1..n : UsedUp(request, ranked, all, i) <=> UsedUp(request, ranked, S, i)
      BY <1>1, SameRoom
    <2>7. \A i \in all : ~UsedUp(request, ranked, all, i)
      BY <1>1, <1>2, <1>4, <1>8, <2>6
    <2>8. \A i \in (1..n) \ all : UsedUp(request, ranked, all, i)
      BY <1>1, <1>2, <1>8, <2>6
    <2>9. all \subseteq 1..n
      BY <1>1
    <2> HIDE DEF after, all
    <2>10. KeepsBest(request, ranked, after, n)
      BY <2>2, <2>4, <2>5, <2>7, <2>8, <2>9 DEF KeepsBest
    <2> QED
      BY <2>10 DEF after, n
  <1> QED
    BY <1>6, <1>7, <1>8

\* The capsule of a ranking keeps the best.
LEMMA CapsuleIsBest ==
  ASSUME NEW request, request.max \in Nat, NEW ranked, NEW d, Candidates(ranked, d)
  PROVE  KeepsBest(request, ranked, BuildCapsule(request, ranked), d)
  <1>1. PICK chosen : /\ Selects(chosen, request, ranked, d)
                      /\ BuildCapsule(request, ranked) = chosen[d]
    BY CapsuleDef
  <1>2. d \in Nat /\ Sized(ranked, d)
    BY DEF Candidates, Sized
  <1> DEFINE T == {n \in 0..d : KeepsBest(request, ranked, chosen[n], n)}
  <1>3. 0 \in T
    <2>1. chosen[0] = NothingSelected
      BY <1>1 DEF Selects
    <2>2. /\ NothingSelected.included = {} /\ NothingSelected.total = 0
          /\ NothingSelected.open /\ \A c \in Categories : NothingSelected.used[c] = 0
      BY DEF NothingSelected, Categories
    <2>3. TokensOf(ranked, {}) = 0
      BY <1>2, NoTokens
    <2>4. \A c : OfCategory(ranked, {}, c) = {}
      BY DEF OfCategory
    <2>5. KeepsBest(request, ranked, NothingSelected, 0)
      BY <2>2, <2>3, <2>4 DEF KeepsBest
    <2> QED
      BY <1>2, <2>1, <2>5
  <1>4. ASSUME NEW k \in 0..d, k < d, k \in T PROVE k + 1 \in T
    <2>1. k + 1 \in 1..d /\ k + 1 \in 0..d /\ (k + 1) - 1 = k
      BY <1>2, <1>4
    <2>2. chosen[k] \in Capsules(d) /\ chosen[k + 1] = Select(request, ranked, chosen[k], k + 1)
      BY <1>1, <2>1 DEF Selects
    <2> QED
      BY <1>4, <2>1, <2>2, SelectKeepsBest
  <1> HIDE DEF T
  <1>5. 0..d \subseteq T
    BY <1>2, <1>3, <1>4, Climb
  <1> QED
    BY <1>1, <1>2, <1>5 DEF T

-----------------------------------------------------------------------------
(* The candidates.                                                          *)

CandidateIds ==
    {Task} \cup Entities \cup {x.id : x \in Range(PastExecutions)}
      \cup (UNION {{y.id : y \in Range(x.results)} : x \in Range(PastExecutions)})
CandidateSet ==
    [id : CandidateIds, tokens : Nat, relevance : Nat, trust : 0..1000,
     category : Categories]
Measures == [Entities -> [1..MaxVersion -> Nat]]
RecordSet == [entity : Entities, version : 1..MaxVersion, repository : BOOLEAN]
HitSet == [record : RecordSet, relevance : Nat]

StateOK ==
    /\ version \in [Entities -> 0..MaxVersion]
    /\ index \in Seq(RecordSet)
    /\ projected \subseteq Entities

LEMMA CandidateType ==
  ASSUME NEW id \in CandidateIds, NEW tokens \in Nat, NEW relevance \in Nat,
         NEW trust \in 0..1000, NEW category \in Categories
  PROVE  Candidate(id, tokens, relevance, trust, category) \in CandidateSet
  BY DEF Candidate, CandidateSet

LEMMA KnownCategories ==
  {"task", "requirements", "architecture", "source_code", "tests", "history"}
    \subseteq Categories
  BY DEF Categories, Weights

LEMMA MeasureTypes ==
  /\ Tokens \in Measures /\ LexicalScore \in Measures /\ VectorScore \in Measures
  /\ SymbolScore \in Measures /\ MaxVersion \in Nat /\ MaxVersion >= 1
  BY ContextAssumption DEF Measures

\* A sequence made place by place from another one.
LEMMA MadeFrom ==
  ASSUME NEW S, NEW s \in Seq(S), NEW T, NEW made, made = [i \in DOMAIN s |-> made[i]],
         \A i \in DOMAIN s : made[i] \in T
  PROVE  made \in Seq(T) /\ DOMAIN made = DOMAIN s
  <1>1. DOMAIN s = 1..Len(s) /\ Len(s) \in Nat
    OBVIOUS
  <1>2. made \in [1..Len(s) -> T]
    BY <1>1
  <1> QED
    BY <1>1, <1>2, IsASeq

LEMMA FirstOfType ==
  ASSUME NEW T, NEW s \in Seq(T), NEW n \in Nat
  PROVE  FirstOf(s, n) \in Seq(T)
  <1> DEFINE m == IF n < Len(s) THEN n ELSE Len(s)
  <1>1. Len(s) \in Nat /\ m \in Nat /\ m <= Len(s)
    OBVIOUS
  <1>2. SubSeq(s, 1, m) \in Seq(T)
    <2> HIDE DEF m
    <2> QED
      BY <1>1, SubSeqProperties
  <1> QED
    BY <1>2 DEF FirstOf

LEMMA DomainIsFinite ==
  ASSUME NEW T, NEW s \in Seq(T), NEW chosen \in SUBSET DOMAIN s
  PROVE  IsFiniteSet(chosen) /\ chosen \subseteq Nat
  <1>1. DOMAIN s = 1..Len(s) /\ Len(s) \in Nat
    OBVIOUS
  <1>2. IsFiniteSet(1..Len(s))
    BY <1>1, FS_Interval
  <1> QED
    BY <1>1, <1>2, FS_Subset

LEMMA SearchType ==
  ASSUME StateOK, NEW score \in Measures, NEW repository, NEW limit \in Nat
  PROVE  Search(score, repository, limit) \in Seq(RecordSet)
  <1> DEFINE key == [i \in DOMAIN index |-> score[index[i].entity][index[i].version]]
             found == {i \in DOMAIN index : /\ key[i] > 0
                                            /\ repository => index[i].repository}
  <1>1. index \in Seq(RecordSet)
    BY DEF StateOK
  <1>2. ASSUME NEW i \in DOMAIN index
        PROVE  index[i] \in RecordSet /\ key[i] \in Nat
    <2>1. index[i] \in RecordSet
      BY <1>1
    <2>2. index[i].entity \in Entities /\ index[i].version \in 1..MaxVersion
      BY <2>1 DEF RecordSet
    <2> QED
      BY <2>1, <2>2 DEF Measures
  <1>3. Search(score, repository, limit) = FirstOf(SortedByKey(index, found, key), limit)
    BY DEF Search
  <1>4. found \in SUBSET DOMAIN index
    OBVIOUS
  <1> HIDE DEF key, found
  <1>5. HasKeys(found, key)
    BY <1>1, <1>2, <1>4, DomainIsFinite DEF HasKeys
  <1>6. SortedByKey(index, found, key) \in Seq(RecordSet)
    BY <1>2, <1>4, <1>5, Sorted
  <1> QED
    BY <1>3, <1>6, FirstOfType

LEMMA RankType ==
  ASSUME NEW i \in Nat, i > 0
  PROVE  NormalizedRank(i) \in Nat
  <1>1. 2000 \div i \in Nat
    OBVIOUS
  <1> QED
    BY <1>1 DEF NormalizedRank

LEMMA HitType ==
  ASSUME NEW record \in RecordSet, NEW relevance \in Nat
  PROVE  Hit(record, relevance) \in HitSet
  BY DEF Hit, HitSet

LEMMA RankedType ==
  ASSUME NEW found \in Seq(RecordSet)
  PROVE  Ranked(found) \in Seq(HitSet)
  <1>1. ASSUME NEW i \in DOMAIN found
        PROVE  Ranked(found)[i] \in HitSet
    <2>1. i \in Nat /\ i > 0 /\ found[i] \in RecordSet
      OBVIOUS
    <2>2. Ranked(found)[i] = Hit(found[i], NormalizedRank(i))
      BY DEF Ranked
    <2> QED
      BY <2>1, <2>2, RankType, HitType
  <1>2. Ranked(found) = [i \in DOMAIN found |-> Ranked(found)[i]]
    BY DEF Ranked
  <1> QED
    BY <1>1, <1>2, MadeFrom

LEMMA MergeType ==
  ASSUME NEW hits \in Seq(HitSet), NEW i \in DOMAIN hits
  PROVE  MergeHit(hits, i) \in HitSet
  <1> DEFINE key == [j \in DOMAIN hits |-> hits[j].relevance]
             same == SameEntity(hits, i)
  <1>1. same \in SUBSET DOMAIN hits /\ i \in same
    BY DEF SameEntity
  <1>2. ASSUME NEW j \in DOMAIN hits PROVE hits[j] \in HitSet /\ key[j] \in Nat
    <2>1. hits[j] \in HitSet
      OBVIOUS
    <2>2. hits[j].relevance \in Nat
      BY <2>1 DEF HitSet
    <2> QED
      BY <2>1, <2>2
  <1>3. MergeHit(hits, i) = SortedByKey(hits, same, key)[1]
    BY DEF MergeHit
  <1> HIDE DEF key, same
  <1>4. HasKeys(same, key)
    BY <1>1, <1>2, DomainIsFinite DEF HasKeys
  <1>5. /\ SortedByKey(hits, same, key) \in Seq(HitSet)
        /\ Len(SortedByKey(hits, same, key)) = Cardinality(same)
    BY <1>1, <1>2, <1>4, Sorted
  <1>6. Cardinality(same) \in Nat /\ Cardinality(same) # 0
    BY <1>1, <1>4, FS_CardinalityType, FS_EmptySet DEF HasKeys
  <1> QED
    BY <1>3, <1>5, <1>6

LEMMA RetrieveType ==
  ASSUME StateOK, NEW repository
  PROVE  Retrieve(repository) \in Seq(HitSet)
  <1> DEFINE lexical == Search(LexicalScore, repository, 2 * SearchLimit)
             semantic == IF HasEmbeddings
                         THEN Search(VectorScore, repository, 2 * SearchLimit)
                         ELSE <<>>
             hits == Ranked(lexical) \o Ranked(semantic)
             firsts == {i \in DOMAIN hits : \A j \in SameEntity(hits, i) : i <= j}
             Boost(hit) == Hit(hit.record, hit.relevance +
                                 IF hit.record.entity \in projected THEN 100 ELSE 0)
             boosted == [i \in DOMAIN hits |-> Boost(MergeHit(hits, i))]
             key == [i \in DOMAIN hits |-> boosted[i].relevance]
  <1>1. SearchLimit \in Nat /\ 2 * SearchLimit \in Nat
    BY ContextAssumption
  <1>2. Ranked(lexical) \in Seq(HitSet)
    BY <1>1, MeasureTypes, SearchType, RankedType
  <1>3. Ranked(semantic) \in Seq(HitSet)
    <2>1. semantic \in Seq(RecordSet)
      BY <1>1, MeasureTypes, SearchType
    <2> HIDE DEF semantic
    <2> QED
      BY <2>1, RankedType
  <1>4. Retrieve(repository) = FirstOf(SortedByKey(boosted, firsts, key), SearchLimit)
    BY DEF Retrieve
  <1>5. hits \in Seq(HitSet)
    <2> HIDE DEF lexical, semantic
    <2> QED
      BY <1>2, <1>3, ConcatProperties
  <1>6. firsts \in SUBSET DOMAIN hits
    OBVIOUS
  <1> HIDE DEF hits, firsts
  <1>7. ASSUME NEW i \in DOMAIN hits PROVE boosted[i] \in HitSet /\ key[i] \in Nat
    <2>1. MergeHit(hits, i) \in HitSet
      BY <1>5, MergeType
    <2>2. \A hit \in HitSet : Boost(hit) \in HitSet
      BY DEF Hit, HitSet
    <2>3. boosted[i] \in HitSet
      <3> HIDE DEF Boost
      <3> QED
        BY <2>1, <2>2
    <2> HIDE DEF boosted
    <2> QED
      BY <2>3 DEF HitSet
  <1> HIDE DEF boosted, key
  <1>8. HasKeys(firsts, key)
    BY <1>5, <1>6, <1>7, DomainIsFinite DEF HasKeys
  <1>9. SortedByKey(boosted, firsts, key) \in Seq(HitSet)
    BY <1>6, <1>7, <1>8, Sorted
  <1> QED
    BY <1>1, <1>4, <1>9, FirstOfType

LEMMA RequirementsType ==
  ASSUME StateOK, NEW request
  PROVE  RequirementCandidates(request) \in Seq(CandidateSet)
  <1> DEFINE S == {e \in RequirementRefs : request.known /\ version[e] > 0}
             found == SetToSeq(S)
             made == RequirementCandidates(request)
  <1>1. S \in SUBSET Entities /\ IsFiniteSet(S)
    BY ContextAssumption, FS_Subset
  <1>2. \A e \in S : version[e] \in 1..MaxVersion
    BY <1>1, MeasureTypes DEF StateOK
  <1>3. made = [i \in DOMAIN found |->
                  Candidate(found[i], Tokens[found[i]][version[found[i]]], 950, 900,
                            "requirements")]
    BY DEF RequirementCandidates
  <1> HIDE DEF S
  <1>4. found \in Seq(S)
    BY <1>1, SetToSeqType
  <1> HIDE DEF found, made
  <1>5. ASSUME NEW i \in DOMAIN found PROVE made[i] \in CandidateSet
    <2>1. found[i] \in S /\ found[i] \in Entities
      BY <1>1, <1>4
    <2>2. Tokens[found[i]][version[found[i]]] \in Nat
      BY <1>2, <2>1, MeasureTypes DEF Measures
    <2>3. found[i] \in CandidateIds /\ "requirements" \in Categories
      BY <2>1, KnownCategories DEF CandidateIds
    <2> DEFINE tokens == Tokens[found[i]][version[found[i]]]
    <2>4. made[i] = Candidate(found[i], tokens, 950, 900, "requirements")
      BY <1>3
    <2> HIDE DEF tokens
    <2>5. tokens \in Nat /\ 950 \in Nat /\ 900 \in 0..1000
      BY <2>2 DEF tokens
    <2> QED
      BY <2>3, <2>4, <2>5, CandidateType
  <1>6. made = [i \in DOMAIN found |-> made[i]]
    BY <1>3
  <1> QED
    BY <1>4, <1>5, <1>6, MadeFrom DEF made

LEMMA SymbolsType ==
  ASSUME StateOK, NEW request
  PROVE  SymbolCandidates(request) \in Seq(CandidateSet)
  <1> DEFINE S == {e \in Entities : /\ request.repository
                                    /\ TypeOf[e] = "Symbol"
                                    /\ version[e] > 0}
             found == SetToSeq(S)
             made == SymbolCandidates(request)
             category(e) == IF e \in TestEntities THEN "tests" ELSE "source_code"
  <1>1. S \in SUBSET Entities /\ IsFiniteSet(S)
    BY ContextAssumption, FS_Subset
  <1>2. \A e \in S : version[e] \in 1..MaxVersion
    BY <1>1, MeasureTypes DEF StateOK
  <1>3. made = [i \in DOMAIN found |->
                  Candidate(found[i], Tokens[found[i]][version[found[i]]],
                            SymbolScore[found[i]][version[found[i]]], 800,
                            category(found[i]))]
    BY DEF SymbolCandidates
  <1>K. \A e : category(e) \in Categories
    BY KnownCategories
  <1> HIDE DEF S, category
  <1>4. found \in Seq(S)
    BY <1>1, SetToSeqType
  <1> HIDE DEF found, made
  <1>5. ASSUME NEW i \in DOMAIN found PROVE made[i] \in CandidateSet
    <2>1. found[i] \in S /\ found[i] \in Entities
      BY <1>1, <1>4
    <2>2. /\ Tokens[found[i]][version[found[i]]] \in Nat
          /\ SymbolScore[found[i]][version[found[i]]] \in Nat
      BY <1>2, <2>1, MeasureTypes DEF Measures
    <2>3. found[i] \in CandidateIds
      BY <2>1 DEF CandidateIds
    <2> DEFINE tokens == Tokens[found[i]][version[found[i]]]
               score == SymbolScore[found[i]][version[found[i]]]
    <2>4. made[i] = Candidate(found[i], tokens, score, 800, category(found[i]))
      BY <1>3
    <2> HIDE DEF tokens, score
    <2>5. tokens \in Nat /\ score \in Nat /\ 800 \in 0..1000
      BY <2>2 DEF tokens, score
    <2> QED
      BY <1>K, <2>3, <2>4, <2>5, CandidateType
  <1>6. made = [i \in DOMAIN found |-> made[i]]
    BY <1>3
  <1> QED
    BY <1>4, <1>5, <1>6, MadeFrom DEF made

LEMMA GraphType ==
  ASSUME StateOK, NEW request
  PROVE  GraphCandidates(request) \in Seq(CandidateSet)
  <1> DEFINE S == {e \in projected :
                     /\ request.project
                     /\ TypeOf[e] \in {"Decision", "Requirement", "Component"}}
             found == SetToSeq(S)
             made == GraphCandidates(request)
  <1>1. S \in SUBSET Entities /\ IsFiniteSet(S)
    BY ContextAssumption, FS_Subset DEF StateOK
  <1>3. made = [i \in DOMAIN found |->
                  Candidate(found[i], NodeTokens, 500, 600, "architecture")]
    BY DEF GraphCandidates
  <1> HIDE DEF S
  <1>4. found \in Seq(S)
    BY <1>1, SetToSeqType
  <1> HIDE DEF found, made
  <1>5. ASSUME NEW i \in DOMAIN found PROVE made[i] \in CandidateSet
    <2>1. found[i] \in CandidateIds
      BY <1>1, <1>4 DEF CandidateIds
    <2>2. "architecture" \in Categories /\ NodeTokens \in Nat
      BY KnownCategories, ContextAssumption
    <2> QED
      BY <1>3, <2>1, <2>2, CandidateType
  <1>6. made = [i \in DOMAIN found |-> made[i]]
    BY <1>3
  <1> QED
    BY <1>4, <1>5, <1>6, MadeFrom DEF made

LEMMA SearchedType ==
  ASSUME StateOK, NEW request
  PROVE  SearchCandidates(request) \in Seq(CandidateSet)
  <1>1. CASE ~request.project
    <2>1. SearchCandidates(request) = <<>>
      BY <1>1 DEF SearchCandidates
    <2> QED
      BY <2>1
  <1>2. CASE request.project
    <2> DEFINE hits == Retrieve(request.repository)
               made == SearchCandidates(request)
    <2>1. made = [i \in DOMAIN hits |->
                    LET r == hits[i].record
                    IN  Candidate(r.entity, Tokens[r.entity][r.version],
                                  hits[i].relevance, 500,
                                  CategoryForType[TypeOf[r.entity]])]
      BY <1>2 DEF SearchCandidates
    <2>2. hits \in Seq(HitSet)
      BY RetrieveType
    <2> HIDE DEF hits, made
    <2>3. \A type \in EntityTypes : CategoryForType[type] \in Categories
      BY KnownCategories DEF EntityTypes, CategoryForType
    <2>4. ASSUME NEW i \in DOMAIN hits PROVE made[i] \in CandidateSet
      <3> DEFINE r == hits[i].record
      <3>1. hits[i] \in HitSet
        BY <2>2
      <3>2. r \in RecordSet /\ hits[i].relevance \in Nat
        BY <3>1 DEF HitSet
      <3>3. r.entity \in Entities /\ r.version \in 1..MaxVersion
        BY <3>2 DEF RecordSet
      <3> HIDE DEF r
      <3>4. /\ Tokens[r.entity][r.version] \in Nat
            /\ CategoryForType[TypeOf[r.entity]] \in Categories
            /\ r.entity \in CandidateIds
        <4>1. Tokens[r.entity][r.version] \in Nat
          BY <3>3, MeasureTypes DEF Measures
        <4>2. TypeOf[r.entity] \in EntityTypes
          BY <3>3, ContextAssumption
        <4>3. r.entity \in CandidateIds
          BY <3>3 DEF CandidateIds
        <4> QED
          BY <2>3, <4>1, <4>2, <4>3
      <3>5. made[i] = Candidate(r.entity, Tokens[r.entity][r.version],
                                hits[i].relevance, 500, CategoryForType[TypeOf[r.entity]])
        BY <2>1 DEF r
      <3> DEFINE id == r.entity
                 tokens == Tokens[r.entity][r.version]
                 relevance == hits[i].relevance
                 category == CategoryForType[TypeOf[r.entity]]
      <3>6. /\ id \in CandidateIds /\ tokens \in Nat /\ relevance \in Nat
            /\ category \in Categories /\ 500 \in 0..1000
            /\ made[i] = Candidate(id, tokens, relevance, 500, category)
        BY <3>2, <3>4, <3>5
      <3> HIDE DEF id, tokens, relevance, category
      <3> QED
        BY <3>6, CandidateType
    <2>5. made = [i \in DOMAIN hits |-> made[i]]
      BY <2>1
    <2> QED
      BY <2>2, <2>4, <2>5, MadeFrom DEF made
  <1> QED
    BY <1>1, <1>2

LEMMA ExecutionType ==
  ASSUME NEW request, NEW n \in DOMAIN PastExecutions
  PROVE  ExecutionCandidates(request, PastExecutions[n]) \in Seq(CandidateSet)
  <1> DEFINE x == PastExecutions[n]
             results == x.results
             made == [i \in DOMAIN results |->
                        Candidate(results[i].id, results[i].tokens, 600, 900, "tests")]
             first == Candidate(x.id, x.tokens, 500, 700, "history")
  <1>1. x \in Range(PastExecutions)
    BY DEF Range
  <1>2. /\ x.tokens \in Nat /\ results \in Seq(Range(results))
        /\ \A y \in Range(results) : y.tokens \in Nat
    BY <1>1, ContextAssumption
  <1>3. x.id \in CandidateIds
    BY <1>1 DEF CandidateIds
  <1>4. \A y \in Range(results) : y.id \in CandidateIds
    BY <1>1 DEF CandidateIds
  <1>5. ExecutionCandidates(request, x) =
          <<first>> \o (IF request.feedback THEN made ELSE <<>>)
    BY DEF ExecutionCandidates
  <1> HIDE DEF x
  <1>6. first \in CandidateSet
    <2> DEFINE id == x.id
               tokens == x.tokens
    <2>1. /\ "history" \in Categories /\ 500 \in Nat /\ 700 \in 0..1000
          /\ id \in CandidateIds /\ tokens \in Nat
      BY <1>2, <1>3, KnownCategories
    <2>2. first = Candidate(id, tokens, 500, 700, "history")
      OBVIOUS
    <2> HIDE DEF id, tokens, first
    <2>3. Candidate(id, tokens, 500, 700, "history") \in CandidateSet
      BY <2>1, CandidateType
    <2> QED
      BY <2>2, <2>3
  <1> HIDE DEF results
  <1>7. made \in Seq(CandidateSet)
    <2>1. ASSUME NEW i \in DOMAIN results PROVE made[i] \in CandidateSet
      <3>1. results[i] \in Range(results)
        BY DEF Range
      <3> DEFINE id == results[i].id
                 tokens == results[i].tokens
      <3>2. /\ id \in CandidateIds /\ tokens \in Nat /\ "tests" \in Categories
            /\ 600 \in Nat /\ 900 \in 0..1000
        BY <1>2, <1>4, <3>1, KnownCategories
      <3>3. made[i] = Candidate(id, tokens, 600, 900, "tests")
        OBVIOUS
      <3> HIDE DEF id, tokens, made
      <3>4. Candidate(id, tokens, 600, 900, "tests") \in CandidateSet
        BY <3>2, CandidateType
      <3> QED
        BY <3>3, <3>4
    <2>2. made = [i \in DOMAIN results |-> made[i]]
      OBVIOUS
    <2> HIDE DEF made
    <2> QED
      BY <1>2, <2>1, <2>2, MadeFrom
  <1> HIDE DEF first, made
  <1>8. <<first>> \in Seq(CandidateSet)
    BY <1>6
  <1>9. (IF request.feedback THEN made ELSE <<>>) \in Seq(CandidateSet)
    BY <1>7
  <1>10. ExecutionCandidates(request, x) \in Seq(CandidateSet)
    <2> DEFINE rest == IF request.feedback THEN made ELSE <<>>
    <2>1. ExecutionCandidates(request, x) = <<first>> \o rest /\ rest \in Seq(CandidateSet)
      BY <1>5, <1>9
    <2> HIDE DEF rest
    <2> QED
      BY <1>8, <2>1, ConcatProperties
  <1> QED
    BY <1>10 DEF x

LEMMA HistoryType ==
  ASSUME NEW request
  PROVE  HistoryCandidates(request) \in Seq(CandidateSet)
  <1> DEFINE d == Len(PastExecutions)
             C == Seq(CandidateSet)
             More(n, done) == done \o ExecutionCandidates(request, PastExecutions[n])
             F == [x \in (1..d) \X C |-> More(x[1], x[2])]
             Eq(w) == w = [n \in 0..d |-> IF n = 0 THEN <<>> ELSE More(n, w[n - 1])]
             W == CHOOSE w : Eq(w)
  <1>0. d \in Nat /\ DOMAIN PastExecutions = 1..d
    BY ContextAssumption
  <1>1. ASSUME NEW n \in 1..d, NEW done \in C PROVE More(n, done) \in C
    BY <1>0, ExecutionType, ConcatProperties
  <1>2. HistoryCandidates(request) = IF request.history THEN W[d] ELSE <<>>
    BY DEF HistoryCandidates
  <1>B. <<>> \in C
    OBVIOUS
  <1> HIDE DEF More, C, d
  <1>3. F \in [(1..d) \X C -> C]
    BY <1>1
  <1>4. PICK w \in [0..d -> C] :
               w[0] = <<>> /\ \A n \in 1..d : w[n] = F[<<n, w[n - 1]>>]
    <2> HIDE DEF F
    <2>1. Steps(F, d, C)
      BY <1>3 DEF Steps
    <2>2. PICK w : Iterates(w, F, <<>>, d, C)
      BY <1>0, <1>B, <2>1, Iteration
    <2> QED
      BY <2>2 DEF Iterates
  <1>5. \A n \in 1..d : w[n] = More(n, w[n - 1])
    <2> SUFFICES ASSUME NEW n \in 1..d PROVE w[n] = More(n, w[n - 1])
      OBVIOUS
    <2>1. w[n - 1] \in C
      BY <1>0, <1>4
    <2>2. <<n, w[n - 1]>> \in (1..d) \X C
      BY <2>1
    <2> QED
      BY <1>4, <2>2
  <1>6. Eq(w)
    <2>1. \A n \in 0..d : w[n] = IF n = 0 THEN <<>> ELSE More(n, w[n - 1])
      BY <1>0, <1>4, <1>5
    <2>2. w = [n \in 0..d |-> w[n]]
      BY <1>4
    <2> QED
      BY <2>1, <2>2
  <1>7. Eq(W)
    BY <1>6
  <1> HIDE DEF W
  <1>8. W[0] = <<>> /\ \A n \in 1..d : W[n] = More(n, W[n - 1])
    BY <1>7, <1>0
  <1> HIDE DEF Eq
  <1> DEFINE T == {n \in 0..d : W[n] \in C}
  <1>9. 0 \in T
    BY <1>0, <1>B, <1>8
  <1>10. ASSUME NEW n \in 0..d, n < d, n \in T PROVE n + 1 \in T
    <2>1. n + 1 \in 1..d /\ (n + 1) - 1 = n /\ n + 1 \in 0..d
      BY <1>0, <1>10
    <2>2. W[n + 1] = More(n + 1, W[n])
      BY <1>8, <2>1
    <2> QED
      BY <1>1, <1>10, <2>1, <2>2
  <1> HIDE DEF T
  <1>11. 0..d \subseteq T
    BY <1>0, <1>9, <1>10, Climb
  <1>12. W[d] \in C
    BY <1>0, <1>11 DEF T
  <1> QED
    BY <1>2, <1>12, <1>B DEF C

LEMMA GatheredType ==
  ASSUME StateOK, NEW request
  PROVE  GatherCandidates(request) \in Seq(CandidateSet)
  <1> DEFINE task == <<Candidate(Task, TaskTokens, 1000, 1000, "task")>>
             a == RequirementCandidates(request)
             b == SearchCandidates(request)
             c == SymbolCandidates(request)
             h == HistoryCandidates(request)
             g == GraphCandidates(request)
  <1>1. task \in Seq(CandidateSet)
    <2>1. /\ Task \in CandidateIds /\ TaskTokens \in Nat /\ 1000 \in Nat
          /\ 1000 \in 0..1000 /\ "task" \in Categories
      BY KnownCategories, ContextAssumption DEF CandidateIds
    <2>2. Candidate(Task, TaskTokens, 1000, 1000, "task") \in CandidateSet
      BY <2>1, CandidateType
    <2> QED
      BY <2>2
  <1>2. /\ a \in Seq(CandidateSet) /\ b \in Seq(CandidateSet) /\ c \in Seq(CandidateSet)
        /\ h \in Seq(CandidateSet) /\ g \in Seq(CandidateSet)
    BY RequirementsType, SearchedType, SymbolsType, HistoryType, GraphType
  <1>3. GatherCandidates(request) = task \o a \o b \o c \o h \o g
    BY DEF GatherCandidates
  <1> HIDE DEF task, a, b, c, h, g
  <1>4. task \o a \in Seq(CandidateSet)
    BY <1>1, <1>2, ConcatProperties
  <1>5. task \o a \o b \in Seq(CandidateSet)
    BY <1>2, <1>4, ConcatProperties
  <1>6. task \o a \o b \o c \in Seq(CandidateSet)
    BY <1>2, <1>5, ConcatProperties
  <1>7. task \o a \o b \o c \o h \in Seq(CandidateSet)
    BY <1>2, <1>6, ConcatProperties
  <1>8. task \o a \o b \o c \o h \o g \in Seq(CandidateSet)
    BY <1>2, <1>7, ConcatProperties
  <1> QED
    BY <1>3, <1>8

\* The key of a candidate with relevance r and trust t.
KeyOf(k, r, t) == r \in Nat /\ t \in 0..1000 /\ k = r * 10000 + t

\* The ranking is by relevance and, among equals, by trust.
LEMMA RankingOrder ==
  ASSUME NEW candidates \in Seq(CandidateSet)
  PROVE  /\ Rank(candidates) \in Seq(CandidateSet)
         /\ \A n, m \in DOMAIN Rank(candidates) : n < m =>
              RanksAbove(Rank(candidates)[n], Rank(candidates)[m])
  <1> DEFINE key == [i \in DOMAIN candidates |->
                       candidates[i].relevance * 10000 + candidates[i].trust]
             places == DOMAIN candidates
             ranked == Rank(candidates)
  <1>1. ranked = SortedByKey(candidates, places, key)
    BY DEF Rank
  <1>2. ASSUME NEW i \in places
        PROVE  /\ candidates[i] \in CandidateSet
               /\ KeyOf(key[i], candidates[i].relevance, candidates[i].trust)
    <2>1. candidates[i] \in CandidateSet
      OBVIOUS
    <2> QED
      BY <2>1 DEF CandidateSet, KeyOf
  <1> HIDE DEF key
  <1>3. ASSUME NEW i \in places PROVE key[i] \in Nat
    <2> DEFINE r == candidates[i].relevance
               t == candidates[i].trust
    <2>1. KeyOf(key[i], r, t)
      BY <1>2
    <2> HIDE DEF r, t
    <2> QED
      BY <2>1 DEF KeyOf
  <1>4. HasKeys(places, key)
    BY <1>3, DomainIsFinite DEF HasKeys
  <1> HIDE DEF places, ranked
  <1>5. /\ ranked \in Seq(CandidateSet) /\ Len(ranked) = Cardinality(places)
        /\ \A n, m \in 1..Cardinality(places) : n < m =>
             \E i, k \in places : /\ ranked[n] = candidates[i]
                                  /\ ranked[m] = candidates[k]
                                  /\ key[i] >= key[k]
    BY <1>1, <1>2, <1>4, Sorted
  <1>6. ASSUME NEW n \in DOMAIN ranked, NEW m \in DOMAIN ranked, n < m
        PROVE  RanksAbove(ranked[n], ranked[m])
    <2>1. n \in 1..Cardinality(places) /\ m \in 1..Cardinality(places)
      BY <1>5
    <2>2. PICK i \in places, k \in places : /\ ranked[n] = candidates[i]
                                            /\ ranked[m] = candidates[k]
                                            /\ key[i] >= key[k]
      BY <1>5, <1>6, <2>1
    <2> DEFINE x == candidates[i]
               y == candidates[k]
               r1 == x.relevance
               t1 == x.trust
               r2 == y.relevance
               t2 == y.trust
    <2>3. /\ r1 \in Nat /\ r2 \in Nat /\ t1 \in 0..1000 /\ t2 \in 0..1000
          /\ r1 * 10000 + t1 >= r2 * 10000 + t2
      <3>1. KeyOf(key[i], r1, t1) /\ KeyOf(key[k], r2, t2)
        BY <1>2
      <3> HIDE DEF r1, r2, t1, t2
      <3> QED
        BY <2>2, <3>1 DEF KeyOf
    <2> HIDE DEF r1, r2, t1, t2
    <2>4. r1 > r2 \/ (r1 = r2 /\ t1 >= t2)
      BY <2>3
    <2>5. RanksAbove(x, y)
      BY <2>4 DEF RanksAbove, r1, r2, t1, t2
    <2> QED
      BY <2>2, <2>5
  <1> QED
    BY <1>5, <1>6 DEF ranked

-----------------------------------------------------------------------------
(* The context engine.                                                      *)

ContextSpec == ContextInit /\ [][ContextNext]_contextVars

\* A build that is still there has a ranking and the capsule made from it.
IsBuild(b) ==
    /\ b.request \in RequestsForContext
    /\ b.ranked \in Seq(CandidateSet)
    /\ \A i, j \in DOMAIN b.ranked : i < j => RanksAbove(b.ranked[i], b.ranked[j])
    /\ KeepsBest(b.request, b.ranked, b.capsule, Len(b.ranked))

ContextInv ==
    /\ StateOK
    /\ indexings \in 0..MaxIndexings
    /\ lastBuild # NoBuild => IsBuild(lastBuild)

LEMMA ContextStarts == ContextInit => ContextInv
  <1> SUFFICES ASSUME ContextInit PROVE ContextInv
    OBVIOUS
  <1>1. StateOK
    BY MeasureTypes DEF ContextInit, StateOK
  <1> QED
    BY <1>1, ContextAssumption DEF ContextInit, ContextInv

LEMMA EntityEditKeeps ==
  ASSUME ContextInv, NEW e \in Entities, EditEntity(e)
  PROVE  ContextInv'
  <1>1. StateOK'
    BY DEF ContextInv, StateOK, EditEntity
  <1> QED
    BY <1>1 DEF ContextInv, EditEntity

LEMMA IndexKeeps ==
  ASSUME ContextInv, NEW repository \in BOOLEAN, IndexProject(repository)
  PROVE  ContextInv'
  <1> DEFINE Record == [e \in Entities |-> RecordOf(e, repository)]
             chosen == Indexed(repository)
             new == {RecordOf(e, repository) : e \in chosen}
  <1>1. chosen \in SUBSET Entities /\ \A e \in chosen : version[e] \in 1..MaxVersion
    BY MeasureTypes DEF Indexed, ContextInv, StateOK
  <1>2. new = {Record[e] : e \in chosen}
    BY <1>1
  <1>3. \A e \in chosen : RecordOf(e, repository) \in RecordSet
    BY <1>1 DEF RecordOf, RecordSet
  <1>4. new \subseteq RecordSet
    BY <1>3
  <1>5. IsFiniteSet(chosen)
    BY <1>1, ContextAssumption, FS_Subset
  <1>6. index' = index \o SetToSeq(new)
    BY DEF IndexProject
  <1> HIDE DEF Record, chosen
  <1>7. IsFiniteSet(new)
    BY <1>2, <1>5, FiniteImage
  <1> HIDE DEF new
  <1>8. SetToSeq(new) \in Seq(RecordSet)
    BY <1>4, <1>7, SetToSeqType, SeqMonotonic
  <1>9. index' \in Seq(RecordSet)
    BY <1>6, <1>8, ConcatProperties DEF ContextInv, StateOK
  <1>10. StateOK'
    BY <1>9 DEF ContextInv, StateOK, IndexProject
  <1> QED
    BY <1>10, ContextAssumption DEF ContextInv, IndexProject

LEMMA EntityProjectionKeeps ==
  ASSUME ContextInv, ProjectEntities
  PROVE  ContextInv'
  <1>1. StateOK'
    BY DEF ContextInv, StateOK, ProjectEntities
  <1> QED
    BY <1>1 DEF ContextInv, ProjectEntities

LEMMA BuildRequestKeeps ==
  ASSUME ContextInv, NEW request \in RequestsForContext, BuildForRequest(request)
  PROVE  ContextInv'
  <1> DEFINE ranked == Rank(GatherCandidates(request))
             capsule == BuildCapsule(request, ranked)
  <1>1. lastBuild' = [request |-> request, ranked |-> ranked, capsule |-> capsule]
    BY DEF BuildForRequest
  <1>2. GatherCandidates(request) \in Seq(CandidateSet)
    BY GatheredType DEF ContextInv
  <1>3. /\ ranked \in Seq(CandidateSet)
        /\ \A i, j \in DOMAIN ranked : i < j => RanksAbove(ranked[i], ranked[j])
    BY <1>2, RankingOrder
  <1> HIDE DEF ranked
  <1>4. Candidates(ranked, Len(ranked))
    <2>1. Len(ranked) \in Nat /\ \A i \in 1..Len(ranked) : ranked[i] \in CandidateSet
      BY <1>3
    <2> QED
      BY <2>1 DEF Candidates, Sized, CandidateSet
  <1>5. request.max \in Nat
    BY ContextAssumption
  <1>6. KeepsBest(request, ranked, capsule, Len(ranked))
    BY <1>4, <1>5, CapsuleIsBest
  <1> HIDE DEF capsule
  <1>7. IsBuild(lastBuild)'
    BY <1>1, <1>3, <1>6 DEF IsBuild
  <1>8. StateOK'
    BY DEF ContextInv, StateOK, BuildForRequest
  <1> QED
    BY <1>7, <1>8 DEF ContextInv, BuildForRequest

LEMMA ContextStep == ContextInv /\ [ContextNext]_contextVars => ContextInv'
  <1> SUFFICES ASSUME ContextInv, [ContextNext]_contextVars PROVE ContextInv'
    OBVIOUS
  <1>1. CASE ContextNext
    BY <1>1, EntityEditKeeps, IndexKeeps, EntityProjectionKeeps, BuildRequestKeeps
       DEF ContextNext
  <1>2. CASE UNCHANGED contextVars
    BY <1>2 DEF contextVars, ContextInv, StateOK, IsBuild
  <1> QED
    BY <1>1, <1>2

LEMMA ContextInvariance == ContextSpec => []ContextInv
  BY ContextStarts, ContextStep, PTL DEF ContextSpec

LEMMA BestFromInv == ContextInv => CapsuleKeepsBest
  <1> SUFFICES ASSUME ContextInv, lastBuild # NoBuild
               PROVE  LET ranked == lastBuild.ranked
                          request == lastBuild.request
                          included == lastBuild.capsule.included
                      IN  /\ \A i, j \in DOMAIN ranked :
                               i < j => RanksAbove(ranked[i], ranked[j])
                          /\ TokensOf(ranked, included) <= request.max
                          /\ \A i \in included : ~UsedUp(request, ranked, included, i)
                          /\ \A i \in DOMAIN ranked \ included :
                               \/ UsedUp(request, ranked, included, i)
                               \/ /\ \A j \in included : j < i
                                  /\ \E j \in 1..i :
                                       /\ j \notin included
                                       /\ ~UsedUp(request, ranked, included, j)
                                       /\ TooLarge(request, ranked, included, j)
    BY DEF CapsuleKeepsBest
  <1> DEFINE ranked == lastBuild.ranked
             request == lastBuild.request
             capsule == lastBuild.capsule
             S == capsule.included
             d == Len(ranked)
  <1>1. /\ ranked \in Seq(CandidateSet) /\ KeepsBest(request, ranked, capsule, d)
        /\ \A i, j \in DOMAIN ranked : i < j => RanksAbove(ranked[i], ranked[j])
    BY DEF ContextInv, IsBuild
  <1>2. DOMAIN ranked = 1..d /\ d \in Nat
    BY <1>1
  <1>3. /\ S \subseteq 1..d
        /\ TokensOf(ranked, S) <= request.max
        /\ \A i \in S : ~UsedUp(request, ranked, S, i)
        /\ capsule.open => \A i \in (1..d) \ S : UsedUp(request, ranked, S, i)
        /\ ~capsule.open => \E j \in (1..d) \ S :
             /\ ~UsedUp(request, ranked, S, j) /\ TooLarge(request, ranked, S, j)
             /\ \A i \in S : i < j
             /\ \A i \in (1..d) \ S : i < j => UsedUp(request, ranked, S, i)
    BY <1>1 DEF KeepsBest
  <1> HIDE DEF ranked, request, S, d
  <1>4. ASSUME NEW i \in (1..d) \ S, ~UsedUp(request, ranked, S, i)
        PROVE  /\ \A j \in S : j < i
               /\ \E j \in 1..i : /\ j \notin S /\ ~UsedUp(request, ranked, S, j)
                                  /\ TooLarge(request, ranked, S, j)
    <2>1. PICK j \in (1..d) \ S :
             /\ ~UsedUp(request, ranked, S, j) /\ TooLarge(request, ranked, S, j)
             /\ \A x \in S : x < j
             /\ \A x \in (1..d) \ S : x < j => UsedUp(request, ranked, S, x)
      BY <1>3, <1>4
    <2>2. ~(i < j) /\ i \in Nat /\ j \in 1..d
      BY <1>2, <1>4, <2>1
    <2>3. j \in 1..i /\ \A x \in S : x < i
      BY <1>2, <1>3, <2>1, <2>2
    <2> QED
      BY <2>1, <2>3
  <1> QED
    BY <1>1, <1>2, <1>3, <1>4 DEF ranked, request, S, capsule

LEMMA ContextTypes == ContextInv => ContextTypeOK
  <1> SUFFICES ASSUME ContextInv PROVE ContextTypeOK
    OBVIOUS
  <1>1. \A i \in DOMAIN index : index[i] \in RecordSet
    BY DEF ContextInv, StateOK
  <1> QED
    BY <1>1 DEF ContextInv, StateOK, ContextTypeOK, RecordSet, IsBuild

\* The context engine keeps its types: records and nodes are of known entities,
\* and a build is of a request that came.
THEOREM ContextTyped == ContextSpec => []ContextTypeOK
  BY ContextTypes, ContextInvariance, PTL

\* ContextEngineService.build: for every set of entities, sizes, scores, past
\* executions and requests, whatever was edited, deleted, indexed and projected
\* before, a capsule stays within the hard limit and leaves a candidate out
\* only for better ones of its category or below the first that did not fit.
THEOREM CapsulesKeepBest == ContextSpec => []CapsuleKeepsBest
  BY ContextInvariance, BestFromInv, PTL

-----------------------------------------------------------------------------
(* The services together.                                                   *)

\* The services share no state: whatever runs beside it, each of them behaves
\* as it does alone, so that what is proved of one holds of all together.
THEOREM ServicesImplementParts ==
  Spec => EngineSpec /\ OrchSpec /\ StoreSpec /\ KnowledgeSpec /\ ContextSpec
  <1>1. Init => EngineInit /\ OrchInit /\ StoreInit /\ KnowledgeInit /\ ContextInit
    BY DEF Init
  <1>2. [Next]_allVars => /\ [EngineNext]_engineVars
                          /\ [OrchNext]_orchVars
                          /\ [StoreNext]_storeVars
                          /\ [KnowledgeNext]_knowledgeVars
                          /\ [ContextNext]_contextVars
    BY DEF Next, InEngine, InOrchestrator, InStore, InKnowledge, InContext, allVars
  <1> QED
    BY <1>1, <1>2, PTL
       DEF Spec, EngineSpec, OrchSpec, StoreSpec, KnowledgeSpec, ContextSpec

\* The services together keep their types: the workflows their stages and
\* counts, every table of the store the columns its schema and its migrations
\* give it, the graphs and the capsules their known projects and entities.
THEOREM ServicesTyped == Spec => []TypeOK
  <1>1. EngineInv => EngineTypeOK
    BY DEF EngineInv
  <1>2. OrchInv => OrchTypeOK
    BY DEF OrchInv
  <1>3. EngineTypeOK /\ OrchTypeOK /\ StoreTypeOK /\ KnowledgeTypeOK /\ ContextTypeOK
          => TypeOK
    BY DEF TypeOK
  <1> QED
    BY <1>1, <1>2, <1>3, ServicesImplementParts, EngineInvariant, OrchInvariant,
       StoreTyped, KnowledgeTyped, ContextTyped, PTL

\* What the workflows, the store, GraphProjectionService.project and
\* ContextEngineService.build promise, they promise in the composition that
\* the services run checks too.
THEOREM ServicesKeepPromises ==
  Spec => /\ []ExecutionsAreBounded /\ EndedWorkflowIsStill /\ EngineFollowsGraph
          /\ []PullRequestHasChanges
          /\ []KeyedSavesSucceed /\ []LookupsAreSingle
          /\ []ProjectionIsComplete
          /\ []CapsuleKeepsBest
  BY ServicesImplementParts, ExecutionsBounded, EndedIsStill, EngineImplementsGraph,
     PullRequestsHaveChanges, KeyedSaves, LookupsSingle, ProjectionCompletes,
     CapsulesKeepBest, PTL
=============================================================================
