--------------------------- MODULE EgressPool_proofs ---------------------------
(***************************************************************************)
(* The rest of a failed egress node and the choice of the next one, for    *)
(* any pools, urls, threads and cooldowns.                                 *)
(***************************************************************************)
EXTENDS EgressPool, FiniteSetTheorems, WellFoundedInduction, TLAPS

\* What the rest depends on: the clock and the marks have their types.  Where
\* the threads stand does not matter, since each note is a single step.
Typed ==
  /\ now \in Nat
  /\ failures \in [Urls -> Nat \cup {None}]
  /\ owed \in [Urls -> Nat]

IInv == Typed /\ FailuresRest

\* Making room among the marks keeps every mark that still tells a node to rest.
LEMMA PruningKeeps ==
  ASSUME now \in Nat, NEW marks \in [Urls -> Nat \cup {None}]
  PROVE  /\ PrunedFailures(marks) \in [Urls -> Nat \cup {None}]
         /\ \A u \in Urls :
              (marks[u] # None /\ marks[u] > now) => PrunedFailures(marks)[u] = marks[u]
<1>1. CASE Crowded(marks)
  BY <1>1 DEF PrunedFailures
<1>2. CASE ~Crowded(marks)
  BY <1>2 DEF PrunedFailures
<1> QED BY <1>1, <1>2

\* A step that writes the marks through PrunedFailures keeps the invariant when
\* the marks it started from cover what is owed.
LEMMA WrittenMarksCover ==
  ASSUME now \in Nat, now' = now,
         NEW marks \in [Urls -> Nat \cup {None}],
         failures' = PrunedFailures(marks),
         owed' \in [Urls -> Nat],
         \A u \in Urls : owed'[u] > now => marks[u] # None /\ marks[u] >= owed'[u]
  PROVE  IInv'
<1>1. Typed'
  BY PruningKeeps DEF Typed
<1>2. ASSUME NEW u \in Urls, owed'[u] > now
      PROVE  failures'[u] # None /\ failures'[u] >= owed'[u]
  <2>1. marks[u] # None /\ marks[u] >= owed'[u]
    BY <1>2
  <2>2. marks[u] \in Nat /\ owed'[u] \in Nat
    BY <2>1
  <2>3. marks[u] > now
    BY <1>2, <2>1, <2>2
  <2> QED BY <2>1, <2>3, PruningKeeps
<1>3. FailuresRest'
  BY <1>2 DEF FailuresRest
<1> QED BY <1>1, <1>3 DEF IInv

\* A failed or blocked call puts its node to rest for the whole cooldown.
LEMMA FailingCovers ==
  ASSUME IInv, NEW url, now' = now, failures' = Failing(url),
         owed' = [owed EXCEPT ![url] = now + FailCooldown]
  PROVE  IInv'
<1> DEFINE marks == [failures EXCEPT ![url] = now + FailCooldown]
<1>1. now + FailCooldown \in Nat /\ now + FailCooldown # None
  BY EgressAssumption DEF IInv, Typed
<1>2. marks \in [Urls -> Nat \cup {None}] /\ owed' \in [Urls -> Nat]
  BY <1>1 DEF IInv, Typed
<1>3. ASSUME NEW u \in Urls, owed'[u] > now
      PROVE  marks[u] # None /\ marks[u] >= owed'[u]
  <2>1. CASE u = url
    BY <1>1, <2>1 DEF IInv, Typed
  <2>2. CASE u # url
    BY <1>3, <2>2 DEF IInv, Typed, FailuresRest
  <2> QED BY <2>1, <2>2
<1>4. now \in Nat /\ failures' = PrunedFailures(marks)
  BY DEF IInv, Typed, Failing
<1> HIDE DEF marks
<1> QED BY <1>2, <1>3, <1>4, WrittenMarksCover

\* An answer ends the rest of its node, and with it the debt.
LEMMA AnsweringCovers ==
  ASSUME IInv, NEW url, now' = now, failures' = Answering(url),
         owed' = [owed EXCEPT ![url] = 0]
  PROVE  IInv'
<1> DEFINE marks == [failures EXCEPT ![url] = None]
<1>1. marks \in [Urls -> Nat \cup {None}] /\ owed' \in [Urls -> Nat]
  BY DEF IInv, Typed
<1>2. ASSUME NEW u \in Urls, owed'[u] > now
      PROVE  marks[u] # None /\ marks[u] >= owed'[u]
  <2>1. u # url
    BY <1>2 DEF IInv, Typed
  <2> QED BY <1>2, <2>1 DEF IInv, Typed, FailuresRest
<1>3. now \in Nat /\ failures' = PrunedFailures(marks)
  BY DEF IInv, Typed, Answering
<1> HIDE DEF marks
<1> QED BY <1>1, <1>2, <1>3, WrittenMarksCover

\* The short rest of a degraded answer never cuts a longer one.
LEMMA RestingCovers ==
  ASSUME IInv, NEW url, now' = now, failures' = Resting(url), owed' = owed
  PROVE  IInv'
<1> DEFINE until == now + DegradedCooldown
           marks == [failures EXCEPT ![url] =
                       IF @ # None /\ @ >= until THEN @ ELSE until]
<1>1. until \in Nat /\ until # None
  BY EgressAssumption DEF IInv, Typed
<1>2. marks \in [Urls -> Nat \cup {None}] /\ owed' \in [Urls -> Nat]
  BY <1>1 DEF IInv, Typed
<1>3. ASSUME NEW u \in Urls, owed'[u] > now
      PROVE  marks[u] # None /\ marks[u] >= owed'[u]
  <2>1. /\ failures[u] \in Nat /\ failures[u] # None
        /\ owed[u] \in Nat /\ failures[u] >= owed[u]
    BY <1>3 DEF IInv, Typed, FailuresRest
  <2>2. marks[u] = IF u = url /\ failures[u] < until THEN until ELSE failures[u]
    BY <1>1, <2>1 DEF IInv, Typed
  <2> HIDE DEF marks, until
  <2> QED BY <1>1, <2>1, <2>2
<1>4. now \in Nat /\ failures' = PrunedFailures(marks)
  BY DEF IInv, Typed, Resting
<1> HIDE DEF marks
<1> QED BY <1>2, <1>3, <1>4, WrittenMarksCover

\* A step that leaves the marks alone while time does not go back.
LEMMA UntouchedCovers ==
  ASSUME IInv, now' \in Nat, now' >= now, failures' = failures, owed' = owed
  PROVE  IInv'
<1>1. ASSUME NEW u \in Urls, owed[u] > now'
      PROVE  owed[u] > now
  BY <1>1 DEF IInv, Typed
<1> QED BY <1>1 DEF IInv, Typed, FailuresRest

LEMMA Inductive == IInv /\ [Next]_vars => IInv'
<1> SUFFICES ASSUME IInv, [Next]_vars
             PROVE  IInv'
  OBVIOUS
<1>1. now \in Nat /\ now >= now
  BY DEF IInv, Typed
<1>2. CASE Tick \/ UNCHANGED vars
  BY <1>1, <1>2, UntouchedCovers DEF Tick, vars
<1>3. ASSUME NEW p \in Probers, Attempt(p)
      PROVE  IInv'
  <2>1. CASE StartRound(p) \/ CopyPool(p) \/ Choose(p) \/ EndsUnnoted(p)
    BY <1>1, <2>1, UntouchedCovers DEF StartRound, CopyPool, Choose, EndsUnnoted
  <2>2. CASE IsUnverified(p) \/ IsVerified(p)
    BY <1>1, <2>2, UntouchedCovers DEF IsUnverified, IsVerified
  <2>3. CASE CallFails(p) \/ IsBlocked(p)
    BY <2>3, FailingCovers DEF CallFails, IsBlocked
  <2>4. CASE Answers(p)
    BY <2>4, AnsweringCovers DEF Answers
  <2>5. CASE IsDegraded(p)
    BY <2>5, RestingCovers DEF IsDegraded
  <2> QED BY <1>3, <2>1, <2>2, <2>3, <2>4, <2>5 DEF Attempt
<1>4. CASE ClearFailures
  <2>1. now' = now /\ failures' = [u \in Urls |-> None] /\ owed' = [u \in Urls |-> 0]
    BY <1>4 DEF ClearFailures
  <2>2. Typed'
    BY <1>1, <2>1 DEF Typed
  <2>3. FailuresRest'
    BY <1>1, <2>1 DEF FailuresRest
  <2> QED BY <2>2, <2>3 DEF IInv
<1>5. CASE ClearGood \/ \E new \in Pools : SwapPool(new)
  BY <1>1, <1>5, UntouchedCovers DEF ClearGood, SwapPool
<1> QED BY <1>2, <1>3, <1>4, <1>5 DEF Next, Swap

\* Whatever the threads do to the marks and to the pool, a node that failed
\* rests out its cooldown unless it answers (note_egress, note_egress_degraded).
THEOREM FailedNodesRest == Spec => []FailuresRest
<1>1. Init => IInv
  BY DEF Init, IInv, Typed, FailuresRest
<1>2. IInv => FailuresRest
  BY DEF IInv
<1> QED BY <1>1, <1>2, Inductive, PTL DEF Spec

-----------------------------------------------------------------------------
(* Places in a pool.                                                       *)

\* A set of numbers that is not empty has a least one.
LEMMA LeastNumber ==
  ASSUME NEW S \in SUBSET Nat, S # {}
  PROVE  \E m \in S : \A n \in S : m <= n
<1>1. PICK m \in S : \A n \in S : ~(<<n, m>> \in OpToRel(<, Nat))
  BY NatLessThanWellFounded, WFMin
<1>2. \A n \in S : ~(n < m)
  BY <1>1 DEF OpToRel
<1> QED BY <1>2

\* The place of every rank exists.
LEMMA RankedPlace ==
  ASSUME NEW n \in Nat, NEW S \in SUBSET (1..n), NEW rank \in 0..(Cardinality(S) - 1)
  PROVE  Ranked(S, rank) \in S
<1> DEFINE Upto(m) == {j \in S : j <= m}
           Enough == {m \in Nat : Cardinality(Upto(m)) > rank}
<1>1. IsFiniteSet(S) /\ Cardinality(S) \in Nat
  <2>1. IsFiniteSet(1..n)
    BY FS_Interval
  <2> QED BY <2>1, FS_Subset, FS_CardinalityType
<1>2. \A j \in S : j \in Nat /\ 1 <= j /\ j <= n
  OBVIOUS
<1>3. \A m \in Nat : IsFiniteSet(Upto(m)) /\ Cardinality(Upto(m)) \in Nat
  <2> TAKE m \in Nat
  <2>1. Upto(m) \in SUBSET S
    OBVIOUS
  <2> HIDE DEF Upto
  <2> QED BY <1>1, <2>1, FS_Subset, FS_CardinalityType
<1>4. n \in Enough
  <2>1. Upto(n) = S
    BY <1>2
  <2> HIDE DEF Upto
  <2> QED BY <1>1, <2>1
<1>5. PICK m \in Enough : \A k \in Enough : m <= k
  <2>1. Enough \in SUBSET Nat
    OBVIOUS
  <2> HIDE DEF Enough
  <2> QED BY <1>4, <2>1, LeastNumber
<1>6. m \in Nat \ {0}
  <2>1. Upto(0) = {}
    <3>1. \A j \in S : ~(j <= 0)
      BY <1>2
    <3> QED BY <3>1
  <2>2. 0 \notin Enough
    BY <2>1, FS_EmptySet
  <2>3. Enough \subseteq Nat
    OBVIOUS
  <2> HIDE DEF Enough, Upto
  <2> QED BY <1>5, <2>2, <2>3
<1>7. m - 1 \in Nat /\ m - 1 \notin Enough
  <2> HIDE DEF Enough
  <2> QED BY <1>5, <1>6
<1>8. Cardinality(Upto(m - 1)) <= rank /\ Cardinality(Upto(m)) > rank
  <2>1. Cardinality(Upto(m)) > rank /\ ~(Cardinality(Upto(m - 1)) > rank)
    BY <1>5, <1>7
  <2> HIDE DEF Upto
  <2> QED BY <1>1, <1>3, <1>7, <2>1
<1>9. m \in S
  <2> SUFFICES ASSUME m \notin S PROVE Upto(m) = Upto(m - 1)
    <3> HIDE DEF Upto
    <3> QED BY <1>1, <1>3, <1>6, <1>7, <1>8
  <2>1. \A j \in S : j <= m <=> j <= m - 1
    BY <1>2, <1>6
  <2> QED BY <2>1
<1>10. Upto(m) = Upto(m - 1) \cup {m} /\ m \notin Upto(m - 1)
  <2>1. \A j \in S : j <= m <=> (j <= m - 1 \/ j = m)
    BY <1>2, <1>6
  <2>2. m <= m /\ ~(m <= m - 1)
    BY <1>6
  <2> QED BY <1>9, <2>1, <2>2
<1>11. Cardinality(Upto(m - 1)) = rank
  <2> HIDE DEF Upto
  <2>1. Cardinality(Upto(m)) = Cardinality(Upto(m - 1)) + 1
    BY <1>3, <1>7, <1>10, FS_AddElement
  <2> QED BY <1>1, <1>3, <1>7, <1>8, <2>1
<1>12. Upto(m - 1) = {j \in S : j < m}
  <2>1. \A j \in S : j <= m - 1 <=> j < m
    BY <1>2, <1>6
  <2> QED BY <2>1
<1>13. \E i \in S : Cardinality({j \in S : j < i}) = rank
  BY <1>9, <1>11, <1>12
<1> QED BY <1>13 DEF Ranked

\* The whole numbers modulo n.
LEMMA SameRemainder ==
  ASSUME NEW n \in Nat \ {0}, NEW q \in Int, NEW m \in 0..(n - 1)
  PROVE  ((n * q) + m) % n = m
OBVIOUS

\* From any start every place of a pool comes up within one turn.
LEMMA TurnReaches ==
  ASSUME NEW n \in Nat \ {0}, NEW start \in Nat, NEW i \in 1..n
  PROVE  \E d \in 0..(n - 1) : ((start + d) % n) + 1 = i
<1>1. /\ start \div n \in Int /\ start % n \in 0..(n - 1)
      /\ start = (n * (start \div n)) + (start % n)
  OBVIOUS
<1>2. PICK q \in Int, r \in 0..(n - 1) : start = (n * q) + r
  BY <1>1
<1>3. PICK d \in 0..(n - 1), p \in Int : start + d = (n * p) + (i - 1)
  <2>1. CASE i - 1 >= r
    <3>1. (i - 1) - r \in 0..(n - 1)
      BY <2>1
    <3>2. start + ((i - 1) - r) = (n * q) + (i - 1)
      BY <1>2
    <3> QED BY <3>1, <3>2
  <2>2. CASE i - 1 < r
    <3>1. ((i - 1) - r) + n \in 0..(n - 1)
      BY <2>2
    <3>2. n * (q + 1) = (n * q) + n
      OBVIOUS
    <3>3. start + (((i - 1) - r) + n) = (n * (q + 1)) + (i - 1)
      BY <1>2, <3>2
    <3>4. q + 1 \in Int
      OBVIOUS
    <3> QED BY <3>1, <3>3, <3>4
  <2> QED BY <2>1, <2>2
<1>4. ((n * p) + (i - 1)) % n = i - 1
  BY SameRemainder
<1>5. ((start + d) % n) + 1 = i
  BY <1>3, <1>4
<1> QED BY <1>5

LEMMA InTurnIsANode ==
  ASSUME NEW nodes \in Seq(Nodes), nodes # <<>>, NEW i \in Nat
  PROVE  InTurn(nodes, i) \in Nodes
<1>1. PICK n \in Nat \ {0} : n = Len(nodes)
  OBVIOUS
<1>2. (i % n) + 1 \in 1..n
  <2>1. i % n \in 0..(n - 1)
    OBVIOUS
  <2> QED BY <2>1
<1>3. nodes[(i % n) + 1] \in Nodes
  BY <1>1, <1>2
<1> QED BY <1>1, <1>3 DEF InTurn

\* What next_egress() chooses: a node of the pool; a proven one that is awake, if
\* there is one; otherwise one that is awake, if there is one.
LEMMA NextNodeIsBest ==
  ASSUME NEW nodes \in Seq(Nodes), nodes # <<>>, NEW start \in Nat
  PROVE  /\ NextNode(nodes, start) \in Nodes
         /\ (\E i \in DOMAIN nodes : Available(nodes[i])) => Available(NextNode(nodes, start))
         /\ (\E i \in DOMAIN nodes : Available(nodes[i]) /\ Proven(nodes[i])) =>
              Proven(NextNode(nodes, start))
<1> DEFINE n == Len(nodes)
           fresh == Fresh(nodes)
           offsets == {i \in 0..(n - 1) : Available(InTurn(nodes, start + i))}
<1>1. n \in Nat \ {0} /\ DOMAIN nodes = 1..n
  OBVIOUS
<1>2. CASE fresh # {}
  <2> DEFINE at == Ranked(fresh, start % Cardinality(fresh))
  <2>1. fresh \in SUBSET (1..n)
    BY <1>1 DEF Fresh
  <2>2. Cardinality(fresh) \in Nat \ {0}
    <3>1. IsFiniteSet(1..n)
      BY <1>1, FS_Interval
    <3> HIDE DEF fresh, n
    <3>2. IsFiniteSet(fresh)
      BY <2>1, <3>1, FS_Subset
    <3> QED BY <1>2, <3>2, FS_CardinalityType, FS_EmptySet
  <2>3. at \in fresh
    <3>1. PICK c \in Nat \ {0} : c = Cardinality(fresh)
      BY <2>2
    <3>2. start % c \in 0..(c - 1)
      OBVIOUS
    <3> HIDE DEF fresh, n
    <3> QED BY <1>1, <2>1, <3>1, <3>2, RankedPlace
  <2>4. NextNode(nodes, start) = nodes[at]
    BY <1>2 DEF NextNode
  <2> QED BY <1>1, <2>1, <2>3, <2>4 DEF Fresh
<1>3. CASE fresh = {} /\ offsets # {}
  <2> DEFINE d == CHOOSE i \in offsets : \A j \in offsets : i <= j
  <2>1. \E i \in offsets : \A j \in offsets : i <= j
    <3>1. offsets \in SUBSET Nat
      BY <1>1
    <3> HIDE DEF offsets
    <3> QED BY <1>3, <3>1, LeastNumber
  <2>2. d \in offsets
    BY <2>1
  <2>3. NextNode(nodes, start) = InTurn(nodes, start + d)
    BY <1>3 DEF NextNode
  <2> HIDE DEF d
  <2>4. d \in Nat /\ start + d \in Nat /\ Available(InTurn(nodes, start + d))
    BY <1>1, <2>2
  <2> QED BY <1>3, <2>3, <2>4, InTurnIsANode DEF Fresh
<1>4. CASE fresh = {} /\ offsets = {}
  <2>1. NextNode(nodes, start) = InTurn(nodes, start)
    BY <1>4 DEF NextNode
  <2>2. ASSUME NEW i \in DOMAIN nodes, Available(nodes[i]) PROVE FALSE
    <3>1. PICK d \in 0..(n - 1) : ((start + d) % n) + 1 = i
      BY <1>1, TurnReaches
    <3> QED BY <1>4, <2>2, <3>1 DEF InTurn
  <2> QED BY <2>1, <2>2, InTurnIsANode
<1> QED BY <1>2, <1>3, <1>4

-----------------------------------------------------------------------------
(* Where the threads stand.                                                *)

Thread ==
  [pc : {"idle", "attempt", "unmarked", "choosing", "calling", "answered",
         "clear failures", "clear good"},
   attempt : 0..Attempts, seen : Pools \cup {<<>>},
   start : 0..(CursorPeriod - 1), node : Nodes \cup {None}]

\* A thread chooses only from a pool that has nodes, and calls one of them.
Placed(t) ==
  /\ t \in Thread
  /\ t.pc = "choosing" => t.seen # <<>>
  /\ t.pc \in {"calling", "answered"} => t.node \in Nodes

TInv ==
  /\ now \in 0..MaxTime /\ pool \in Pools /\ cursor \in 0..(CursorPeriod - 1)
  /\ failures \in [Urls -> Nat \cup {None}]
  /\ good \in [Urls -> Nat \cup {None}]
  /\ owed \in [Urls -> Nat]
  /\ DOMAIN prober = Probers
  /\ \A p \in Probers : Placed(prober[p])

LEMMA IdleIsPlaced == Placed(Idle)
BY EgressAssumption DEF Placed, Thread, Idle

\* What a thread takes into next_egress().
LEMMA ChoiceIsTyped ==
  ASSUME NEW t, Placed(t), t.pc = "choosing"
  PROVE  t.seen \in Seq(Nodes) /\ t.seen # <<>> /\ t.start \in Nat
<1>1. t.seen # <<>> /\ t.seen \in Pools
  BY DEF Placed, Thread
<1>2. t.start \in 0..(CursorPeriod - 1) /\ CursorPeriod \in Nat
  BY EgressAssumption DEF Placed, Thread
<1> QED BY <1>1, <1>2, EgressAssumption

\* A step of one thread alone keeps the others where they are.
LEMMA OneThreadMoves ==
  ASSUME TInv, NEW p \in Probers, NEW t, Placed(t), prober' = [prober EXCEPT ![p] = t]
  PROVE  DOMAIN prober' = Probers /\ \A q \in Probers : Placed(prober'[q])
BY DEF TInv

\* A harvesting thread moves alone.
LEMMA OthersStay ==
  ASSUME TInv, NEW q \in Probers, Attempt(q), NEW p \in Probers, p # q
  PROVE  prober'[p] = prober[p]
<1>1. \A pc : Go(q, pc) => prober'[p] = prober[p]
  BY DEF TInv, Go
<1>2. Again(q) => prober'[p] = prober[p]
  BY DEF TInv, Again, Over, Another
<1>3. Over(q) => prober'[p] = prober[p]
  BY DEF TInv, Over
<1>4. StartRound(q) \/ CopyPool(q) \/ Choose(q) => prober'[p] = prober[p]
  BY <1>1 DEF TInv, StartRound, CopyPool, Choose
<1>5. EndsUnnoted(q) \/ CallFails(q) \/ Answers(q) \/ IsDegraded(q) \/ IsBlocked(q)
        \/ IsUnverified(q) \/ IsVerified(q) => prober'[p] = prober[p]
  BY <1>1, <1>2, <1>3 DEF EndsUnnoted, CallFails, Answers, IsDegraded, IsBlocked,
                          IsUnverified, IsVerified
<1> QED BY <1>4, <1>5 DEF Attempt

\* After an attempt in vain the round is over or goes on within its budget.
LEMMA AgainPlaced ==
  ASSUME TInv, NEW p \in Probers, Again(p)
  PROVE  DOMAIN prober' = Probers /\ \A q \in Probers : Placed(prober'[q])
<1>1. CASE Over(p)
  BY <1>1, IdleIsPlaced, OneThreadMoves DEF Over
<1>2. CASE prober[p].attempt < Attempts /\ Another(p)
  <2> DEFINE t == [Idle EXCEPT !.pc = "attempt", !.attempt = prober[p].attempt + 1]
  <2>1. prober[p].attempt + 1 \in 0..Attempts
    <3>1. prober[p].attempt \in 0..Attempts /\ Attempts \in Nat
      BY EgressAssumption DEF TInv, Placed, Thread
    <3> QED BY <1>2, <3>1
  <2>2. Placed(t)
    BY <2>1, IdleIsPlaced DEF Placed, Thread, Idle
  <2> QED BY <1>2, <2>2, OneThreadMoves DEF Another
<1> QED BY <1>1, <1>2 DEF Again

\* A thread that calls has a node, and may go on to another place with it.
LEMMA GoPlaced ==
  ASSUME TInv, NEW p \in Probers,
         NEW pc \in {"idle", "unmarked", "answered", "clear failures", "clear good"},
         pc = "answered" => prober[p].node \in Nodes,
         Go(p, pc)
  PROVE  DOMAIN prober' = Probers /\ \A q \in Probers : Placed(prober'[q])
<1> DEFINE t == [prober[p] EXCEPT !.pc = pc]
<1>1. Placed(t)
  BY DEF TInv, Placed, Thread
<1>2. prober' = [prober EXCEPT ![p] = t]
  BY DEF Go
<1> HIDE DEF t
<1> QED BY <1>1, <1>2, OneThreadMoves

\* The notes on a node keep the types of the marks.
LEMMA NotesTyped ==
  ASSUME TInv, NEW url \in Urls
  PROVE  /\ Answering(url) \in [Urls -> Nat \cup {None}]
         /\ Failing(url) \in [Urls -> Nat \cup {None}]
         /\ Resting(url) \in [Urls -> Nat \cup {None}]
         /\ Praised(url) \in [Urls -> Nat \cup {None}]
         /\ [owed EXCEPT ![url] = now + FailCooldown] \in [Urls -> Nat]
         /\ [owed EXCEPT ![url] = 0] \in [Urls -> Nat]
<1>1. now \in Nat /\ now + FailCooldown \in Nat /\ now + DegradedCooldown \in Nat
  BY EgressAssumption DEF TInv
<1>2. Answering(url) \in [Urls -> Nat \cup {None}]
  BY <1>1, PruningKeeps DEF Answering, TInv
<1>3. Failing(url) \in [Urls -> Nat \cup {None}]
  BY <1>1, PruningKeeps DEF Failing, TInv
<1>4. Resting(url) \in [Urls -> Nat \cup {None}]
  BY <1>1, PruningKeeps DEF Resting, TInv
<1>5. Praised(url) \in [Urls -> Nat \cup {None}]
  BY <1>1 DEF Praised, PrunedGood, TInv
<1> QED BY <1>1, <1>2, <1>3, <1>4, <1>5 DEF TInv

\* The cursor stays within its period.
LEMMA CursorTurns ==
  ASSUME NEW c \in Nat, NEW i \in Nat
  PROVE  (c + i) % CursorPeriod \in 0..(CursorPeriod - 1)
BY EgressAssumption

LEMMA InitTInv == Init => TInv
<1> SUFFICES ASSUME Init PROVE TInv
  OBVIOUS
<1>1. DOMAIN prober = Probers /\ \A p \in Probers : Placed(prober[p])
  BY IdleIsPlaced DEF Init
<1> QED BY <1>1, EgressAssumption DEF Init, TInv

\* The steps of a harvesting thread.
LEMMA AttemptTInv == ASSUME TInv, NEW p \in Probers, Attempt(p) PROVE TInv'
<1> DEFINE ThreadsPlaced == DOMAIN prober = Probers /\ \A q \in Probers : Placed(prober[q])
<1>1. cursor \in Nat /\ CursorPeriod \in Nat \ {0}
  BY EgressAssumption DEF TInv
<1>2. Placed(prober[p])
  BY DEF TInv
<1>3. CASE StartRound(p)
  <2>1. Placed([Idle EXCEPT !.pc = "attempt", !.attempt = 1])
    <3>1. 1 \in 0..Attempts
      BY EgressAssumption
    <3> QED BY <3>1, IdleIsPlaced DEF Placed, Thread, Idle
  <2>2. ThreadsPlaced'
    BY <1>3, <2>1, OneThreadMoves DEF StartRound
  <2>3. cursor' \in 0..(CursorPeriod - 1)
    <3>1. Len(pool) \in Nat
      BY EgressAssumption DEF TInv
    <3>2. PICK offset \in Nat : cursor' = (cursor + offset) % CursorPeriod
      BY <1>3, <3>1 DEF StartRound
    <3> QED BY <1>1, <3>2, CursorTurns
  <2> QED BY <1>3, <2>2, <2>3 DEF StartRound, TInv
<1>4. CASE CopyPool(p)
  <2>1. CASE pool = <<>>
    <3>1. ThreadsPlaced'
      BY <1>4, <2>1, GoPlaced DEF CopyPool
    <3> QED BY <1>4, <2>1, <3>1 DEF CopyPool, TInv
  <2>2. CASE pool # <<>>
    <3> DEFINE t == [prober[p] EXCEPT !.pc = "choosing", !.seen = pool, !.start = cursor]
    <3>1. Placed(t)
      BY <1>2, <2>2 DEF TInv, Placed, Thread
    <3>2. prober' = [prober EXCEPT ![p] = t]
      BY <1>4, <2>2 DEF CopyPool
    <3> HIDE DEF t
    <3>3. ThreadsPlaced'
      BY <3>1, <3>2, OneThreadMoves
    <3>4. cursor' \in 0..(CursorPeriod - 1)
      BY <1>1, <1>4, <2>2, CursorTurns DEF CopyPool
    <3> QED BY <1>4, <3>3, <3>4 DEF CopyPool, TInv
  <2> QED BY <2>1, <2>2
<1>5. CASE Choose(p)
  <2> DEFINE best == NextNode(prober[p].seen, prober[p].start)
             t == [prober[p] EXCEPT !.pc = "calling", !.node = best]
  <2>1. best \in Nodes
    <3>1. prober[p].pc = "choosing"
      BY <1>5 DEF Choose, Stands
    <3> QED BY <1>2, <3>1, ChoiceIsTyped, NextNodeIsBest
  <2> HIDE DEF best
  <2>2. Placed(t)
    BY <1>2, <2>1 DEF Placed, Thread
  <2>3. prober' = [prober EXCEPT ![p] = t]
    BY <1>5 DEF Choose, best
  <2> HIDE DEF t
  <2>4. ThreadsPlaced'
    BY <2>2, <2>3, OneThreadMoves
  <2> QED BY <1>5, <2>4 DEF Choose, TInv
<1>6. CASE EndsUnnoted(p) \/ IsUnverified(p)
  <2>1. ThreadsPlaced'
    BY <1>6, AgainPlaced DEF EndsUnnoted, IsUnverified
  <2> QED BY <1>6, <2>1 DEF EndsUnnoted, IsUnverified, TInv
<1>7. CASE CallFails(p) \/ IsBlocked(p) \/ IsDegraded(p)
  <2>1. prober[p].node.url \in Urls
    BY <1>2, <1>7 DEF CallFails, IsBlocked, IsDegraded, Stands, Placed, Nodes
  <2>2. ThreadsPlaced'
    BY <1>7, AgainPlaced DEF CallFails, IsBlocked, IsDegraded
  <2>3. failures' \in [Urls -> Nat \cup {None}] /\ owed' \in [Urls -> Nat]
    BY <1>7, <2>1, NotesTyped DEF CallFails, IsBlocked, IsDegraded, TInv
  <2> QED BY <1>7, <2>2, <2>3 DEF CallFails, IsBlocked, IsDegraded, TInv
<1>8. CASE Answers(p)
  <2>1. prober[p].node \in Nodes /\ prober[p].node.url \in Urls
    BY <1>2, <1>8 DEF Answers, Stands, Placed, Nodes
  <2>2. ThreadsPlaced'
    BY <1>8, <2>1, GoPlaced DEF Answers
  <2>3. failures' \in [Urls -> Nat \cup {None}] /\ owed' \in [Urls -> Nat]
    BY <1>8, <2>1, NotesTyped DEF Answers
  <2> QED BY <1>8, <2>2, <2>3 DEF Answers, TInv
<1>9. CASE IsVerified(p)
  <2>1. prober[p].node.url \in Urls
    BY <1>2, <1>9 DEF IsVerified, Stands, Placed, Nodes
  <2>2. ThreadsPlaced'
    BY <1>9, IdleIsPlaced, OneThreadMoves DEF IsVerified, Over
  <2>3. good' \in [Urls -> Nat \cup {None}]
    BY <1>9, <2>1, NotesTyped DEF IsVerified
  <2> QED BY <1>9, <2>2, <2>3 DEF IsVerified, TInv
<1> QED BY <1>3, <1>4, <1>5, <1>6, <1>7, <1>8, <1>9 DEF Attempt

LEMMA NextTInv == TInv /\ [Next]_vars => TInv'
<1> SUFFICES ASSUME TInv, [Next]_vars PROVE TInv'
  OBVIOUS
<1>1. CASE Tick
  <2>1. now' \in 0..MaxTime
    BY <1>1, EgressAssumption DEF Tick, TInv
  <2> QED BY <1>1, <2>1 DEF Tick, TInv
<1>2. ASSUME NEW new \in Pools, SwapPool(new) PROVE TInv'
  <2>1. DOMAIN prober' = Probers /\ \A q \in Probers : Placed(prober'[q])
    BY <1>2, GoPlaced DEF SwapPool, Probers
  <2> QED BY <1>2, <2>1 DEF SwapPool, TInv
<1>3. CASE ClearFailures
  <2>1. DOMAIN prober' = Probers /\ \A q \in Probers : Placed(prober'[q])
    BY <1>3, GoPlaced DEF ClearFailures, Probers
  <2> QED BY <1>3, <2>1 DEF ClearFailures, TInv
<1>4. CASE ClearGood
  <2>1. DOMAIN prober' = Probers /\ \A q \in Probers : Placed(prober'[q])
    BY <1>4, GoPlaced DEF ClearGood, Probers
  <2> QED BY <1>4, <2>1 DEF ClearGood, TInv
<1>5. CASE UNCHANGED vars
  BY <1>5 DEF vars, TInv
<1> QED BY <1>1, <1>2, <1>3, <1>4, <1>5, AttemptTInv DEF Next, Swap

LEMMA Invariance == Spec => []TInv
BY InitTInv, NextTInv, PTL DEF Spec

\* Marks, cursor and threads have their types, whoever harvests while the pool
\* changes: a thread that calls has a node, of the pool it saw, and no round makes
\* more attempts than its budget (next_egress, probe_job).
THEOREM TypeCorrect == Spec => []TypeOK
<1>1. TInv => TypeOK
  BY DEF TInv, TypeOK, Placed, Thread
<1> QED BY <1>1, Invariance, PTL

\* The node chosen is awake if any node of the pool the thread saw is, and proven
\* if a node is both, for any pool, cursor and marks (next_egress).
THEOREM BestIsChosen == Spec => ChoosesBest
<1>1. ASSUME TInv, [Next]_vars, NEW p \in Probers,
             prober[p].pc = "choosing", prober'[p].pc = "calling"
      PROVE  LET awake  == {i \in DOMAIN prober[p].seen : Available(prober[p].seen[i])}
                 proven == {i \in awake : Proven(prober[p].seen[i])}
                 chosen == prober'[p].node
             IN  /\ awake # {} => Available(chosen)
                 /\ proven # {} => Proven(chosen)
  <2>1. Choose(p)
    <3>1. CASE Tick \/ UNCHANGED vars
      BY <1>1, <3>1 DEF Tick, vars
    <3>2. ASSUME NEW q \in Probers, q # p, Attempt(q) PROVE FALSE
      <4>1. prober'[p] = prober[p]
        BY <1>1, <3>2, OthersStay
      <4> QED BY <1>1, <4>1
    <3>3. ASSUME Attempt(p) PROVE Choose(p)
      BY <1>1, <3>3 DEF TInv, Attempt, StartRound, CopyPool, EndsUnnoted, CallFails,
           Answers, IsDegraded, IsBlocked, IsUnverified, IsVerified, Stands
    <3>4. CASE Swap
      BY <1>1, <3>4 DEF TInv, Swap, SwapPool, ClearFailures, ClearGood, Stands, Go
    <3> QED BY <1>1, <3>1, <3>2, <3>3, <3>4 DEF Next
  <2>2. prober[p].seen \in Seq(Nodes) /\ prober[p].seen # <<>> /\ prober[p].start \in Nat
    BY <1>1, ChoiceIsTyped DEF TInv
  <2>3. prober'[p].node = NextNode(prober[p].seen, prober[p].start)
    BY <1>1, <2>1 DEF TInv, Choose, Placed, Thread
  <2> QED BY <2>2, <2>3, NextNodeIsBest
<1>2. TInv /\ [Next]_vars =>
        [ \A p \in Probers :
            (prober[p].pc = "choosing" /\ prober'[p].pc = "calling") =>
              LET awake  == {i \in DOMAIN prober[p].seen : Available(prober[p].seen[i])}
                  proven == {i \in awake : Proven(prober[p].seen[i])}
                  chosen == prober'[p].node
              IN  /\ awake # {} => Available(chosen)
                  /\ proven # {} => Proven(chosen) ]_vars
  BY <1>1
<1> QED BY <1>2, Invariance, PTL DEF Spec, ChoosesBest
=============================================================================
