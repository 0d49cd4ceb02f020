------------------------------- MODULE EgressPool -------------------------------
(***************************************************************************)
(* The egress pool of cpa-plugin/src/runtime.rs: harvest calls take turns  *)
(* over its nodes; a node that failed or was degraded rests for a while,   *)
(* one that brought a verified state is preferred.                         *)
(*                                                                         *)
(* The worker and the operators' management threads harvest at the same    *)
(* time.  Cursor, marks and pool have locks of their own, so the choice of *)
(* a node, the notes on its answer and the change of the pool interleave   *)
(* lock by lock.  The worker itself changes the pool, between its rounds.  *)
(***************************************************************************)
EXTENDS Integers, Sequences, FiniteSets

CONSTANTS
  None,
  Urls, Labels,       \* an EgressNode is a url with a label
  Pools,              \* contents pool.json may have
  Worker, Operators,
  Attempts,           \* the budget of a round
  FailCooldown,       \* EGRESS_FAIL_COOLDOWN_SECONDS
  DegradedCooldown,   \* EGRESS_DEGRADED_COOLDOWN_SECONDS
  GoodTTL,            \* EGRESS_GOOD_TTL_SECONDS
  MarkLimit,          \* the 512 entries above which old marks are dropped
  CursorPeriod,       \* bound: the cursor is kept modulo this
  MaxTime             \* bound: the last instant of the clock

Nodes == [url : Urls, label : Labels]
Probers == {Worker} \cup Operators

ASSUME EgressAssumption ==
  /\ None \notin Int
  /\ Pools \subseteq Seq(Nodes)
  /\ Attempts \in Nat \ {0} /\ MarkLimit \in Nat /\ MaxTime \in Nat
  /\ DegradedCooldown \in Nat /\ FailCooldown \in Nat /\ GoodTTL \in Nat
  /\ DegradedCooldown <= FailCooldown
  \* Every length a pool or a choice of its nodes can have divides the period.
  /\ CursorPeriod \in Nat \ {0}
  /\ \A pool \in Pools : \A n \in 1..Len(pool) : CursorPeriod % n = 0

VARIABLES
  now,
  pool,        \* egress_pool
  cursor,      \* egress_cursor
  failures,    \* egress_failures: until when a url rests, or None
  good,        \* egress_good: when a url last brought a verified state, or None
  prober       \* where each harvesting thread stands

VARIABLE       \* history, read by properties only
  owed         \* the rest each url owes for its failures since it last answered

vars == <<now, pool, cursor, failures, good, prober, owed>>

Idle == [pc |-> "idle", attempt |-> 0, seen |-> <<>>, start |-> 0, node |-> None]

Init ==
  /\ now = 0
  /\ pool \in Pools
  /\ cursor = 0
  /\ failures = [u \in Urls |-> None]
  /\ good = [u \in Urls |-> None]
  /\ prober = [p \in Probers |-> Idle]
  /\ owed = [u \in Urls |-> 0]

Tick ==
  /\ now < MaxTime
  /\ now' = now + 1
  /\ UNCHANGED <<pool, cursor, failures, good, prober, owed>>

-----------------------------------------------------------------------------
(* next_egress(): the choice among the nodes of a pool.                    *)

Available(node) == failures[node.url] = None \/ failures[node.url] <= now
Proven(node) == good[node.url] # None /\ now - good[node.url] < GoodTTL

\* A node that once worked is taken even while it rests.
FreshStale(nodes) == {i \in DOMAIN nodes : Proven(nodes[i])}

\* The places of the nodes that brought a verified state lately and do not rest.
Fresh(nodes) == {i \in DOMAIN nodes : Proven(nodes[i]) /\ Available(nodes[i])}

\* The place with so many of the places before it.
Ranked(places, rank) == CHOOSE i \in places : Cardinality({j \in places : j < i}) = rank

InTurn(nodes, i) == nodes[(i % Len(nodes)) + 1]

\* Proven nodes take turns first; then the first available one from the cursor
\* on; when all rest, one of them all the same.
NextNode(nodes, start) ==
  LET fresh   == Fresh(nodes)
      offsets == {i \in 0..(Len(nodes) - 1) : Available(InTurn(nodes, start + i))}
  IN  IF fresh # {} THEN nodes[Ranked(fresh, start % Cardinality(fresh))]
      ELSE IF offsets # {}
           THEN InTurn(nodes, start + CHOOSE i \in offsets : \A j \in offsets : i <= j)
      ELSE InTurn(nodes, start)

-----------------------------------------------------------------------------
(* The marks.                                                              *)

Crowded(marks) == Cardinality({u \in Urls : marks[u] # None}) > MarkLimit

\* Above the limit the marks that say nothing any more are dropped.
PrunedFailures(marks) ==
  IF Crowded(marks)
  THEN [u \in Urls |-> IF marks[u] # None /\ marks[u] > now THEN marks[u] ELSE None]
  ELSE marks

PrunedGood(marks) ==
  IF Crowded(marks)
  THEN [u \in Urls |-> IF marks[u] # None /\ now - marks[u] < GoodTTL THEN marks[u] ELSE None]
  ELSE marks

\* note_egress(ok = true), note_egress(ok = false)
Answering(url) == PrunedFailures([failures EXCEPT ![url] = None])
Failing(url) == PrunedFailures([failures EXCEPT ![url] = now + FailCooldown])

\* The short rest takes the place of a longer one.
RestingShort(url) == PrunedFailures([failures EXCEPT ![url] = now + DegradedCooldown])

\* note_egress_degraded(): a short rest, unless a longer one is on.
Resting(url) ==
  LET until == now + DegradedCooldown IN
  PrunedFailures([failures EXCEPT ![url] = IF @ # None /\ @ >= until THEN @ ELSE until])

\* note_egress_good()
Praised(url) == PrunedGood([good EXCEPT ![url] = now])

-----------------------------------------------------------------------------
(* A harvesting thread.                                                    *)

Stands(p, pc) == prober[p].pc = pc
Go(p, pc) == prober' = [prober EXCEPT ![p].pc = pc]

\* probe_job() starts its round anywhere in the pool.
StartRound(p) ==
  /\ Stands(p, "idle")
  /\ \E offset \in 0..(IF Len(pool) > 1 THEN Len(pool) - 1 ELSE 0) :
       cursor' = (cursor + offset) % CursorPeriod
  /\ prober' = [prober EXCEPT ![p] = [Idle EXCEPT !.pc = "attempt", !.attempt = 1]]
  /\ UNCHANGED <<now, pool, failures, good, owed>>

\* next_egress() copies the pool; an empty one means the host's own egress,
\* which leaves no marks.  Otherwise it takes its turn at the cursor ...
CopyPool(p) ==
  /\ Stands(p, "attempt")
  /\ IF pool = <<>>
     THEN Go(p, "unmarked") /\ UNCHANGED cursor
     ELSE /\ prober' = [prober EXCEPT ![p].pc = "choosing", ![p].seen = pool,
                                      ![p].start = cursor]
          /\ cursor' = (cursor + 1) % CursorPeriod
  /\ UNCHANGED <<now, pool, failures, good, owed>>

\* ... and chooses among the nodes copied, with both kinds of marks locked.
Choose(p) ==
  /\ Stands(p, "choosing")
  /\ prober' = [prober EXCEPT ![p].pc = "calling",
                              ![p].node = NextNode(prober[p].seen, prober[p].start)]
  /\ UNCHANGED <<now, pool, cursor, failures, good, owed>>

Over(p) == prober' = [prober EXCEPT ![p] = Idle]

Another(p) == prober' = [prober EXCEPT ![p] = [Idle EXCEPT !.pc = "attempt",
                                                 !.attempt = prober[p].attempt + 1]]

\* One attempt too many.
AgainOnce(p) == Over(p) \/ (prober[p].attempt <= Attempts /\ Another(p))

\* After an attempt in vain another one follows while the budget lasts.  Any
\* attempt may be the last: gentle mode has a budget of one, and a rejection,
\* here or on another thread, or a stop ends the round.
Again(p) == Over(p) \/ (prober[p].attempt < Attempts /\ Another(p))

\* Nothing is noted: no auth id or no credential is found, the node is the
\* host's own, or the status is neither 2xx nor a failed call.
EndsUnnoted(p) ==
  /\ prober[p].pc \in {"attempt", "calling", "unmarked"}
  /\ Again(p)
  /\ UNCHANGED <<now, pool, cursor, failures, good, owed>>

\* The call itself fails.
CallFails(p) ==
  LET url == prober[p].node.url IN
  /\ Stands(p, "calling")
  /\ failures' = Failing(url)
  /\ owed' = [owed EXCEPT ![url] = now + FailCooldown]
  /\ Again(p)
  /\ UNCHANGED <<now, pool, cursor, good>>

\* A 2xx answer: the node works, whatever the answer is worth.
Answers(p) ==
  LET url == prober[p].node.url IN
  /\ Stands(p, "calling")
  /\ failures' = Answering(url)
  /\ owed' = [owed EXCEPT ![url] = 0]
  /\ Go(p, "answered")
  /\ UNCHANGED <<now, pool, cursor, good>>

\* 200 without a state, 312 bytes, or another model.
IsDegraded(p) ==
  /\ Stands(p, "answered")
  /\ failures' = Resting(prober[p].node.url)
  /\ Again(p)
  /\ UNCHANGED <<now, pool, cursor, good, owed>>

\* Another 2xx status without a state: the node is blocked.
IsBlocked(p) ==
  LET url == prober[p].node.url IN
  /\ Stands(p, "answered")
  /\ failures' = Failing(url)
  /\ owed' = [owed EXCEPT ![url] = now + FailCooldown]
  /\ Again(p)
  /\ UNCHANGED <<now, pool, cursor, good>>

\* The state does not parse, or its replay goes wrong.
IsUnverified(p) ==
  /\ Stands(p, "answered")
  /\ Again(p)
  /\ UNCHANGED <<now, pool, cursor, failures, good, owed>>

IsVerified(p) ==
  /\ Stands(p, "answered")
  /\ good' = Praised(prober[p].node.url)
  /\ Over(p)
  /\ UNCHANGED <<now, pool, cursor, failures, owed>>

-----------------------------------------------------------------------------
(* apply_egress_pool(): another pool first, then the old marks are cleared. *)

SwapPool(new) ==
  /\ Stands(Worker, "idle")
  /\ new # pool
  /\ pool' = new
  /\ Go(Worker, "clear failures")
  /\ UNCHANGED <<now, cursor, failures, good, owed>>

ClearFailures ==
  /\ Stands(Worker, "clear failures")
  /\ failures' = [u \in Urls |-> None]
  /\ owed' = [u \in Urls |-> 0]
  /\ Go(Worker, "clear good")
  /\ UNCHANGED <<now, pool, cursor, good>>

ClearGood ==
  /\ Stands(Worker, "clear good")
  /\ good' = [u \in Urls |-> None]
  /\ Go(Worker, "idle")
  /\ UNCHANGED <<now, pool, cursor, failures, owed>>

-----------------------------------------------------------------------------
Attempt(p) ==
  \/ StartRound(p)
  \/ CopyPool(p)
  \/ Choose(p)
  \/ EndsUnnoted(p)
  \/ CallFails(p)
  \/ Answers(p)
  \/ IsDegraded(p)
  \/ IsBlocked(p)
  \/ IsUnverified(p)
  \/ IsVerified(p)

Swap ==
  \/ \E new \in Pools : SwapPool(new)
  \/ ClearFailures
  \/ ClearGood

Next ==
  \/ Tick
  \/ \E p \in Probers : Attempt(p)
  \/ Swap

Spec == Init /\ [][Next]_vars

-----------------------------------------------------------------------------
(* Properties.                                                             *)

\* The marks, the cursor and the threads have the types of the Rust fields, a
\* thread that calls has a node, and no round makes more attempts than its
\* budget allows (probe_job).
TypeOK ==
  /\ now \in 0..MaxTime /\ pool \in Pools /\ cursor \in 0..(CursorPeriod - 1)
  /\ failures \in [Urls -> Nat \cup {None}]
  /\ good \in [Urls -> Nat \cup {None}]
  /\ owed \in [Urls -> Nat]
  /\ \A p \in Probers :
       /\ prober[p].pc \in {"idle", "attempt", "unmarked", "choosing", "calling",
                           "answered", "clear failures", "clear good"}
       /\ prober[p].attempt \in 0..Attempts
       /\ prober[p].seen \in Pools \cup {<<>>}
       /\ prober[p].start \in 0..(CursorPeriod - 1)
       /\ prober[p].node \in Nodes \cup {None}
       /\ prober[p].pc \in {"calling", "answered"} => prober[p].node \in Nodes

\* A node that failed rests out its cooldown unless it answers in the meantime:
\* a degraded answer that another thread had from it before does not cut the
\* rest short, and making room among the marks does not end it
\* (note_egress, note_egress_degraded).
FailuresRest ==
  \A u \in Urls : owed[u] > now => failures[u] # None /\ failures[u] >= owed[u]

\* The node chosen does not rest while another one of the pool is awake, and
\* is a proven one if such a node is awake (next_egress).
ChoosesBest ==
  [][\A p \in Probers :
       (prober[p].pc = "choosing" /\ prober'[p].pc = "calling") =>
         LET awake  == {i \in DOMAIN prober[p].seen : Available(prober[p].seen[i])}
             proven == {i \in awake : Proven(prober[p].seen[i])}
             chosen == prober'[p].node
         IN  /\ awake # {} => Available(chosen)
             /\ proven # {} => Proven(chosen)]_vars
=============================================================================
