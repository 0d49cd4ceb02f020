--------------------------- MODULE Scheduler_proofs ---------------------------
(***************************************************************************)
(* The harvesters keep their cadence, for any credentials, models, times   *)
(* and operators, and however long a round lasts.                          *)
(***************************************************************************)
EXTENDS Scheduler, TLAPS

LEMMA LongerIsNat ==
  ASSUME NEW a \in Nat, NEW b \in Nat
  PROVE  Longer(a, b) \in Nat /\ Longer(a, b) >= a /\ Longer(a, b) >= b
BY DEF Longer

LEMMA LessIsNat ==
  ASSUME NEW n \in Nat
  PROVE  Less(n) \in Nat /\ Less(n) <= n /\ Less(0) = 0
BY DEF Less

\* What is left of a rest is a number, and no less than what is left of a
\* shorter one.
LEMMA LeftIsMonotone ==
  ASSUME NEW a \in Nat, NEW b \in Nat, a <= b, NEW spent \in Nat
  PROVE  Left(a, spent) \in Nat /\ Left(b, spent) \in Nat /\ Left(a, spent) <= Left(b, spent)
BY DEF Left

\* The gap is no longer than any of the rests that probe_job() writes, and these
\* no longer than the longest.
LEMMA GapIsLeast ==
  /\ Gap \in Nat /\ LongestCooldown \in Nat
  /\ Gap <= ProbeCooldown /\ Gap <= RejectCooldown
  /\ \A outcome \in {"settled", "degraded", "failed"} :
       Cooldown(outcome) \in Nat /\ Gap <= Cooldown(outcome)
  /\ Gap <= LongestCooldown
<1>1. {ProbeCooldown, RejectCooldown, FailCooldown, DegradedCooldown} \subseteq Nat
  BY SchedulerAssumption
<1>2. /\ Gap \in Nat
      /\ Gap <= ProbeCooldown /\ Gap <= RejectCooldown
      /\ Gap <= FailCooldown /\ Gap <= DegradedCooldown
  BY <1>1 DEF Gap, Shorter
<1>3. LongestCooldown \in Nat /\ LongestCooldown >= ProbeCooldown
  BY <1>1 DEF LongestCooldown, Longer
<1>4. \A outcome \in {"settled", "degraded", "failed"} :
        Cooldown(outcome) \in {ProbeCooldown, FailCooldown, DegradedCooldown}
  BY DEF Cooldown
<1> QED BY <1>1, <1>2, <1>3, <1>4

\* Putting jobs off moves no rest but to a later time.
LEMMA PuttingOffPostpones ==
  ASSUME JobsOK, NEW passed, PutOff(passed)
  PROVE  /\ due' \in [Keys -> Nat]
         /\ \A k \in Keys : due'[k] >= due[k]
         /\ \A k \in Keys \ known : due'[k] = 0
BY SchedulerAssumption DEF JobsOK, PutOff, Reached

\* What a rejection leaves has its type.
LEMMA LimitKeepsType ==
  ASSUME JobsOK, NEW k \in known, NEW verdict \in BOOLEAN, NEW retryAfter \in RetryAfters,
         Limit(k, verdict, retryAfter)
  PROVE  /\ barred' \in [Keys -> Nat] /\ verdicts' \subseteq known
         /\ \A j \in Keys \ known : barred'[j] = 0
<1>1. k \in Keys /\ retryAfter \in Nat /\ RejectCooldown \in Nat /\ barred[k] \in Nat
  BY SchedulerAssumption DEF JobsOK
<1>2. Longer(barred[k], Longer(RejectCooldown, retryAfter)) \in Nat
  BY <1>1, LongerIsNat
<1>3. CASE verdict \/ k \in verdicts
  BY <1>1, <1>3 DEF Limit, JobsOK
<1>4. CASE ~(verdict \/ k \in verdicts)
  <2>1. barred' = [barred EXCEPT ![k] = Longer(barred[k], Longer(RejectCooldown, retryAfter))]
        /\ verdicts' = verdicts
    BY <1>4 DEF Limit
  <2> QED BY <1>1, <1>2, <2>1 DEF JobsOK
<1> QED BY <1>3, <1>4

-----------------------------------------------------------------------------
(* Every step keeps the types.                                             *)

\* h moves to a place that fits it, and no job is forgotten.
LEMMA MoveKeepsHands ==
  ASSUME TypeOK, known \subseteq known', known' \subseteq Keys,
         NEW h \in Harvesters, NEW r \in Hand, hand' = [hand EXCEPT ![h] = r],
         IF r.pc \in {"picked", "check", "round"} THEN r.key \in known' ELSE r.key = None,
         IF h = Worker THEN r.pc # "asked" ELSE r.pc \in {"asked", "round"},
         h = Worker /\ r.pc \in {"picked", "check", "round"} => r.after # "none",
         r.pc \notin {"round", "sleep"} => r.spent = 0
  PROVE  hand' \in [Harvesters -> Hand] /\ \A j \in Harvesters : HandOK(j)'
<1>1. hand \in [Harvesters -> Hand] /\ hand'[h] = r
  BY DEF TypeOK
<1>2. hand' \in [Harvesters -> Hand]
  BY <1>1
<1>3. HandOK(h)'
  BY <1>1 DEF HandOK, HasJob, At
<1>4. ASSUME NEW j \in Harvesters, j # h
      PROVE  HandOK(j)'
  <2>1. hand'[j] = hand[j] /\ HandOK(j)
    BY <1>1, <1>4 DEF TypeOK
  <2> QED BY <2>1 DEF HandOK, HasJob, At
<1> QED BY <1>2, <1>3, <1>4

\* The worker, or an operator after a round, goes where there is no job.
LEMMA GoingKeepsHands ==
  ASSUME TypeOK, known \subseteq known', known' \subseteq Keys,
         NEW h \in Harvesters, NEW pc, Goes(h, pc),
         IF h = Worker THEN pc \in {"top", "first", "second", "sleep"} ELSE pc = "asked"
  PROVE  hand' \in [Harvesters -> Hand] /\ \A j \in Harvesters : HandOK(j)'
<1>1. EmptyHand(pc) \in Hand /\ EmptyHand(pc).pc = pc /\ EmptyHand(pc).key = None
      /\ EmptyHand(pc).spent = 0
  BY DEF EmptyHand, Hand
<1>2. hand' = [hand EXCEPT ![h] = EmptyHand(pc)]
  BY DEF Goes
<1> HIDE DEF EmptyHand
<1> QED BY <1>1, <1>2, MoveKeepsHands

\* A call of probe_job() returns to a place without a job.
LEMMA BackIsWithoutJob ==
  ASSUME TypeOK, NEW h \in Harvesters, HasJob(h) \/ h # Worker
  PROVE  IF h = Worker THEN Back(h) \in {"top", "sleep"} ELSE Back(h) = "asked"
BY DEF TypeOK, HandOK, Hand, Back

LEMMA TickingOffKeepsTodo ==
  ASSUME TypeOK, NEW h, NEW k, TicksOff(h, k)
  PROVE  todo' \in [Operators -> SUBSET known]
BY DEF TypeOK, TicksOff

\* Who takes up a job is there for it.
LEMMA TakerHasJob ==
  ASSUME TypeOK, NEW h \in Harvesters, NEW k \in Keys, TakesItUp(h, k)
  PROVE  /\ k \in known /\ hand[h] \in Hand /\ ~At(h, "round")
         /\ HasJob(h) \/ h # Worker
         /\ hand[h].spent = 0
         /\ h = Worker => hand[h].pc \in {"picked", "check"} /\ hand[h].key = k
<1>1. hand[h] \in Hand /\ HandOK(h) /\ todo \in [Operators -> SUBSET known]
  BY DEF TypeOK
<1>2. CASE h = Worker
  BY <1>1, <1>2, SchedulerAssumption DEF TakesItUp, HandOK, HasJob, At
<1>3. CASE h # Worker
  BY <1>1, <1>3 DEF TakesItUp, HandOK, At
<1> QED BY <1>2, <1>3

LEMMA TakingUpKeepsTypeOK ==
  ASSUME TypeOK, NEW h \in Harvesters, NEW k \in Keys, RefuseRound(h, k) \/ BeginRound(h, k)
  PROVE  TypeOK'
<1>1. /\ TakesItUp(h, k) /\ TicksOff(h, k)
      /\ UNCHANGED <<known, store, barred, verdicts, pause, enabled, scanAge>>
  BY DEF RefuseRound, BeginRound
<1>2. /\ k \in known /\ hand[h] \in Hand /\ hand[h].spent = 0
      /\ HasJob(h) \/ h # Worker
      /\ h = Worker => hand[h].pc \in {"picked", "check"} /\ hand[h].key = k
  BY <1>1, TakerHasJob
<1>3. JobsOK /\ hand \in [Harvesters -> Hand] /\ known \subseteq Keys
  BY DEF TypeOK, JobsOK
<1>4. due' \in [Keys -> Nat] /\ \A j \in Keys \ known : due'[j] = 0
  BY <1>2, <1>3, SchedulerAssumption DEF RefuseRound, BeginRound, JobsOK
<1>5. JobsOK' /\ todo' \in [Operators -> SUBSET known']
  BY <1>1, <1>3, <1>4, TickingOffKeepsTodo DEF JobsOK
<1>6. hand' \in [Harvesters -> Hand] /\ \A j \in Harvesters : HandOK(j)'
  <2>1. CASE RefuseRound(h, k)
    <3>1. Goes(h, Back(h))
      BY <2>1 DEF RefuseRound
    <3>2. IF h = Worker THEN Back(h) \in {"top", "sleep"} ELSE Back(h) = "asked"
      BY <1>2, BackIsWithoutJob
    <3> QED BY <1>1, <1>3, <3>1, <3>2, GoingKeepsHands
  <2>2. CASE BeginRound(h, k)
    <3> DEFINE r == [hand[h] EXCEPT !.pc = "round", !.key = k]
    <3>1. hand' = [hand EXCEPT ![h] = r]
      BY <1>3, <2>2 DEF BeginRound
    <3>2. r \in Hand /\ r.pc = "round" /\ r.key = k /\ r.after = hand[h].after
      BY <1>2, <1>3 DEF Hand
    <3>3. h = Worker => r.after # "none"
      BY <1>2, <3>2 DEF TypeOK, HandOK, HasJob
    <3> HIDE DEF r
    <3> QED BY <1>1, <1>2, <1>3, <3>1, <3>2, <3>3, MoveKeepsHands
  <2> QED BY <2>1, <2>2
<1> QED BY <1>5, <1>6 DEF TypeOK

LEMMA LoopKeepsTypeOK ==
  ASSUME TypeOK, LoopStep
  PROVE  TypeOK'
<1> USE DEF Harvesters
<1>1. JobsOK /\ Worker \in Harvesters /\ todo \in [Operators -> SUBSET known]
  BY DEF TypeOK
<1>2. known \subseteq Keys /\ 0 \in 0..ScanEvery
  BY <1>1, SchedulerAssumption DEF JobsOK
<1>3. CASE SkipScan
  BY <1>1, <1>2, <1>3, GoingKeepsHands DEF SkipScan, jobVars, TypeOK, JobsOK
<1>4. CASE ScanWithoutPool
  BY <1>1, <1>2, <1>4, GoingKeepsHands DEF ScanWithoutPool, jobVars, TypeOK, JobsOK
<1>5. ASSUME NEW cooling, Scan(cooling)
      PROVE  TypeOK'
  <2>1. known \subseteq known' /\ known' \subseteq Keys
    BY <1>2, <1>5 DEF Scan
  <2>2. JobsOK' /\ todo' \in [Operators -> SUBSET known']
    BY <1>1, <1>2, <1>5, <2>1 DEF Scan, JobsOK
  <2>3. hand' \in [Harvesters -> Hand] /\ \A h \in Harvesters : HandOK(h)'
    BY <1>1, <1>5, <2>1, GoingKeepsHands DEF Scan
  <2> QED BY <2>2, <2>3 DEF TypeOK
<1>6. ASSUME NEW k \in Keys, PickDue(k)
      PROVE  TypeOK'
  <2>1. PICK passed \in SUBSET (Scope \ {k}) : PutOff(passed)
    BY <1>6 DEF PickDue
  <2>2. due' \in [Keys -> Nat] /\ \A j \in Keys \ known : due'[j] = 0
    BY <1>1, <2>1, PuttingOffPostpones
  <2>3. UNCHANGED <<known, store, barred, verdicts, pause, enabled, scanAge, todo>>
    BY <1>6 DEF PickDue
  <2>4. JobsOK'
    BY <1>1, <2>2, <2>3 DEF JobsOK
  <2>5. k \in known
    BY <1>6 DEF PickDue, Eligible, Due, Reached
  <2> DEFINE first == At(Worker, "first")
             r == [pc |-> IF first THEN "picked" ELSE "check", key |-> k, spent |-> 0,
                   after |-> IF first THEN "top" ELSE "sleep"]
  <2>6. hand' = [hand EXCEPT ![Worker] = r]
    BY <1>6 DEF PickDue
  <2>7. /\ r \in Hand /\ r.pc \in {"picked", "check"} /\ r.key \in known
        /\ r.after # "none" /\ r.spent = 0
    BY <2>5 DEF Hand
  <2> HIDE DEF r
  <2>8. hand' \in [Harvesters -> Hand] /\ \A h \in Harvesters : HandOK(h)'
    BY <1>1, <1>2, <2>3, <2>6, <2>7, MoveKeepsHands
  <2> QED BY <1>1, <2>3, <2>4, <2>8 DEF TypeOK
<1>7. CASE PickNone
  <2>1. due' \in [Keys -> Nat] /\ \A j \in Keys \ known : due'[j] = 0
    BY <1>1, <1>7, PuttingOffPostpones DEF PickNone, JobsOK
  <2>2. UNCHANGED <<known, store, barred, verdicts, pause, enabled, scanAge, todo>>
    BY <1>7 DEF PickNone
  <2>3. JobsOK'
    BY <1>1, <2>1, <2>2 DEF JobsOK
  <2>4. hand' \in [Harvesters -> Hand] /\ \A h \in Harvesters : HandOK(h)'
    BY <1>1, <1>2, <1>7, <2>2, GoingKeepsHands DEF PickNone
  <2> QED BY <1>1, <2>2, <2>3, <2>4 DEF TypeOK
<1>8. CASE SkipSatisfied
  BY <1>1, <1>2, <1>8, GoingKeepsHands DEF SkipSatisfied, jobVars, TypeOK, JobsOK
<1>9. CASE Wake
  BY <1>1, <1>2, <1>9, GoingKeepsHands DEF Wake, jobVars, TypeOK, JobsOK
<1>10. ASSUME NEW k \in Keys, RefuseRound(Worker, k) \/ BeginRound(Worker, k)
       PROVE  TypeOK'
  BY <1>1, <1>10, TakingUpKeepsTypeOK
<1> QED BY <1>3, <1>4, <1>5, <1>6, <1>7, <1>8, <1>9, <1>10 DEF LoopStep, SomeScan

LEMMA OperatorKeepsTypeOK ==
  ASSUME TypeOK, OperatorStep
  PROVE  TypeOK'
<1>1. PICK o \in Operators :
        \/ \E asked \in Askable : OperatorAsks(o, asked)
        \/ \E k \in Keys : RefuseRound(o, k) \/ BeginRound(o, k)
  BY DEF OperatorStep
<1>2. ASSUME NEW asked \in Askable, OperatorAsks(o, asked)
      PROVE  TypeOK'
  <2>1. asked \in SUBSET known
    BY DEF Askable
  <2>2. todo' \in [Operators -> SUBSET known]
    BY <1>2, <2>1 DEF OperatorAsks, TypeOK
  <2> QED BY <1>2, <2>2 DEF OperatorAsks, TypeOK, JobsOK, HandOK, HasJob, At, jobVars
<1>3. ASSUME NEW k \in Keys, RefuseRound(o, k) \/ BeginRound(o, k)
      PROVE  TypeOK'
  BY <1>3, TakingUpKeepsTypeOK DEF Harvesters
<1> QED BY <1>1, <1>2, <1>3

\* A round leaves its job at least what is left of the gap.
LEMMA RoundLeavesRest ==
  ASSUME TypeOK, NEW h \in Harvesters, NEW outcome \in {"settled", "degraded", "failed"},
         EndsWith(h, outcome)
  PROVE  /\ hand[h].key \in known /\ hand[h].key \in Keys /\ hand[h].spent \in Nat
         /\ due' = [due EXCEPT ![hand[h].key] = due'[hand[h].key]]
         /\ due'[hand[h].key] \in Nat
         /\ due'[hand[h].key] >= Left(Gap, hand[h].spent)
         /\ due' \in [Keys -> Nat]
         /\ \A k \in Keys \ known : due'[k] = 0
         /\ Goes(h, Back(h))
         /\ IF h = Worker THEN Back(h) \in {"top", "sleep"} ELSE Back(h) = "asked"
<1>1. /\ HasJob(h) /\ hand[h].key \in known /\ hand[h].key \in Keys /\ hand[h].spent \in Nat
      /\ due \in [Keys -> Nat] /\ \A k \in Keys \ known : due[k] = 0
  BY DEF EndsWith, TypeOK, JobsOK, HandOK, HasJob, At, Hand
<1> DEFINE left == Left(Cooldown(outcome), hand[h].spent)
<1>2. left \in Nat /\ left >= Left(Gap, hand[h].spent)
  BY <1>1, GapIsLeast, LeftIsMonotone
<1>3. due' = [due EXCEPT ![hand[h].key] = left] /\ Goes(h, Back(h))
  BY DEF EndsWith
<1>4. IF h = Worker THEN Back(h) \in {"top", "sleep"} ELSE Back(h) = "asked"
  BY <1>1, BackIsWithoutJob
<1> HIDE DEF left
<1>5. due'[hand[h].key] = left
  BY <1>1, <1>3
<1> QED BY <1>1, <1>2, <1>3, <1>4, <1>5

LEMMA RoundKeepsTypeOK ==
  ASSUME TypeOK, RoundEnds
  PROVE  TypeOK'
<1>1. PICK h \in Harvesters :
        RoundSettles(h) \/ \E o \in {"degraded", "failed"} : RoundFails(h, o)
  BY DEF RoundEnds
<1>2. PICK outcome \in {"settled", "degraded", "failed"} : EndsWith(h, outcome)
  BY <1>1 DEF RoundSettles, RoundFails
<1>3. /\ hand[h].key \in known /\ hand[h].key \in Keys
      /\ due' \in [Keys -> Nat] /\ \A k \in Keys \ known : due'[k] = 0
      /\ Goes(h, Back(h))
      /\ IF h = Worker THEN Back(h) \in {"top", "sleep"} ELSE Back(h) = "asked"
  BY <1>2, RoundLeavesRest
<1>4. UNCHANGED <<known, barred, verdicts, pause, enabled, scanAge, todo>>
  BY <1>1 DEF RoundSettles, RoundFails
<1>5. store' \in [Keys -> {"none", "old", "fresh"}] /\ \A k \in Keys \ known : store'[k] = "none"
  <2>1. store \in [Keys -> {"none", "old", "fresh"}] /\ \A k \in Keys \ known : store[k] = "none"
    BY DEF TypeOK, JobsOK
  <2>2. CASE RoundSettles(h)
    <3>1. PICK st \in {"fresh", store[hand[h].key]} : store' = [store EXCEPT ![hand[h].key] = st]
      BY <2>2 DEF RoundSettles
    <3>2. st \in {"none", "old", "fresh"}
      BY <1>3, <2>1
    <3> QED BY <1>3, <2>1, <3>1, <3>2
  <2>3. CASE \E o \in {"degraded", "failed"} : RoundFails(h, o)
    BY <2>1, <2>3 DEF RoundFails
  <2> QED BY <1>1, <2>2, <2>3
<1>6. JobsOK'
  BY <1>3, <1>4, <1>5 DEF TypeOK, JobsOK
<1>7. hand' \in [Harvesters -> Hand] /\ \A j \in Harvesters : HandOK(j)'
  BY <1>3, <1>4, GoingKeepsHands DEF TypeOK, JobsOK
<1> QED BY <1>4, <1>6, <1>7 DEF TypeOK

LEMMA UpstreamKeepsTypeOK ==
  ASSUME TypeOK, Upstream
  PROVE  TypeOK'
<1>1. CASE MeetOverload
  BY <1>1, SchedulerAssumption DEF MeetOverload, TypeOK, JobsOK, HandOK, HasJob, At, jobVars
<1>2. ASSUME NEW k \in Keys, RequestNeeds(k)
      PROVE  TypeOK'
  <2>1. known \subseteq known' /\ k \in Keys /\ known' = known \cup {k}
        /\ UNCHANGED <<due, store, barred, verdicts, pause, enabled, scanAge, hand, todo>>
    BY <1>2 DEF RequestNeeds
  <2>2. JobsOK'
    BY <2>1 DEF TypeOK, JobsOK
  <2>3. \A h \in Harvesters : HandOK(h)'
    BY <2>1 DEF TypeOK, HandOK, HasJob, At
  <2>4. hand' \in [Harvesters -> Hand] /\ todo' \in [Operators -> SUBSET known']
    BY <2>1 DEF TypeOK
  <2> QED BY <2>2, <2>3, <2>4 DEF TypeOK
<1>3. ASSUME NEW k \in Keys,
             \/ Withdraw(k)
             \/ \E verdict \in BOOLEAN, retryAfter \in RetryAfters : Rejection(k, verdict, retryAfter)
             \/ \E st \in {"none", "old", "fresh"} : StoreChanges(k, st)
      PROVE  TypeOK'
  <2>1. k \in known /\ UNCHANGED <<known, pause, enabled, scanAge, hand, todo>>
    BY <1>3 DEF Withdraw, Rejection, StoreChanges
  <2>2. JobsOK'
    <3>1. CASE Withdraw(k)
      BY <2>1, <3>1 DEF Withdraw, TypeOK, JobsOK
    <3>2. ASSUME NEW verdict \in BOOLEAN, NEW retryAfter \in RetryAfters,
                 Rejection(k, verdict, retryAfter)
          PROVE  JobsOK'
      <4>1. /\ barred' \in [Keys -> Nat] /\ verdicts' \subseteq known
            /\ \A j \in Keys \ known : barred'[j] = 0
        BY <2>1, <3>2, LimitKeepsType DEF Rejection, TypeOK
      <4>2. Longer(RejectCooldown, retryAfter) \in Nat
        BY LongerIsNat, SchedulerAssumption
      <4>3. due' = [due EXCEPT ![k] = Longer(RejectCooldown, retryAfter)] /\ UNCHANGED store
        BY <3>2 DEF Rejection
      <4> QED BY <2>1, <4>1, <4>2, <4>3 DEF TypeOK, JobsOK
    <3>3. ASSUME NEW st \in {"none", "old", "fresh"}, StoreChanges(k, st)
          PROVE  JobsOK'
      BY <2>1, <3>3 DEF StoreChanges, TypeOK, JobsOK
    <3> QED BY <1>3, <3>1, <3>2, <3>3
  <2> QED BY <2>1, <2>2 DEF TypeOK, HandOK, HasJob, At
<1> QED BY <1>1, <1>2, <1>3 DEF Upstream

LEMMA TickKeepsTypeOK ==
  ASSUME TypeOK, Tick
  PROVE  TypeOK'
<1>1. JobsOK /\ UNCHANGED <<known, store, verdicts, enabled, todo>>
  BY DEF TypeOK, Tick
<1>2. due' \in [Keys -> Nat] /\ barred' \in [Keys -> Nat]
  BY <1>1, LessIsNat DEF Tick, JobsOK
<1>3. \A k \in Keys \ known : due'[k] = 0 /\ barred'[k] = 0
  BY <1>1, LessIsNat DEF Tick, JobsOK
<1>4. pause' \in 0..OverloadPause /\ scanAge' \in 0..ScanEvery
  BY <1>1, SchedulerAssumption DEF Tick, JobsOK, Less
<1>5. JobsOK'
  BY <1>1, <1>2, <1>3, <1>4 DEF JobsOK
<1>6. ASSUME NEW h \in Harvesters
      PROVE  hand'[h] \in Hand /\ HandOK(h)'
  <2>1. hand[h] \in Hand /\ HandOK(h) /\ hand'[h] = [hand[h] EXCEPT !.spent = Spent(h)]
    BY DEF TypeOK, Tick
  <2>2. Spent(h) \in Nat
    BY <2>1 DEF Spent, Hand
  <2>3. hand[h].pc \notin {"round", "sleep"} => Spent(h) = hand[h].spent
    BY <2>1 DEF Spent, HandOK, At
  <2>4. /\ hand'[h] \in Hand /\ hand'[h].pc = hand[h].pc /\ hand'[h].key = hand[h].key
        /\ hand'[h].after = hand[h].after /\ hand'[h].spent = Spent(h)
    BY <2>1, <2>2 DEF Hand
  <2> QED BY <1>1, <2>1, <2>3, <2>4 DEF HandOK, HasJob, At
<1>7. hand' \in [Harvesters -> Hand]
  BY <1>6 DEF Tick
<1> QED BY <1>1, <1>5, <1>6, <1>7 DEF TypeOK

LEMMA InitTypeOK == Init => TypeOK
<1> SUFFICES ASSUME Init PROVE TypeOK
  OBVIOUS
<1>1. JobsOK
  BY SchedulerAssumption DEF Init, JobsOK
<1>2. /\ EmptyHand("top") \in Hand /\ EmptyHand("asked") \in Hand
      /\ \A pc \in {"top", "asked"} : EmptyHand(pc).pc = pc /\ EmptyHand(pc).key = None
                                      /\ EmptyHand(pc).spent = 0
  BY DEF EmptyHand, Hand
<1> HIDE DEF EmptyHand
<1>3. hand = [h \in Harvesters |-> EmptyHand(IF h = Worker THEN "top" ELSE "asked")]
  BY DEF Init
<1>4. hand \in [Harvesters -> Hand]
  BY <1>2, <1>3
<1>5. \A h \in Harvesters : HandOK(h)
  BY <1>2, <1>3 DEF HandOK, HasJob, At
<1> QED BY <1>1, <1>4, <1>5 DEF Init, TypeOK

LEMMA NextTypeOK == TypeOK /\ [Next]_vars => TypeOK'
<1> SUFFICES ASSUME TypeOK, [Next]_vars
             PROVE  TypeOK'
  OBVIOUS
<1>1. CASE UNCHANGED vars
  BY <1>1 DEF vars, jobVars, TypeOK, JobsOK, HandOK, HasJob, At
<1>2. CASE LoopStep
  BY <1>2, LoopKeepsTypeOK
<1>3. CASE OperatorStep
  BY <1>3, OperatorKeepsTypeOK
<1>4. CASE RoundEnds
  BY <1>4, RoundKeepsTypeOK
<1>5. CASE Upstream
  BY <1>5, UpstreamKeepsTypeOK
<1>6. CASE SetInjection
  BY <1>6 DEF SetInjection, jobVars, TypeOK, JobsOK, HandOK, HasJob, At
<1>7. CASE Tick
  BY <1>7, TickKeepsTypeOK
<1> QED BY <1>1, <1>2, <1>3, <1>4, <1>5, <1>6, <1>7 DEF Next

\* Every variable of the scheduler has its type; in particular each harvester has
\* a job of the plugin in hand exactly while it is at one, though operators come
\* with a list of jobs made earlier (worker_loop, harvest_diagnostics).
THEOREM TypeCorrect == Spec => []TypeOK
BY InitTypeOK, NextTypeOK, PTL DEF Spec

-----------------------------------------------------------------------------
(* The cadence the upstream sees.                                          *)

\* What the refinement mapping reads off a harvester.
Chosen == IF hand[Worker].pc \in {"picked", "check"} THEN hand[Worker].key ELSE None
Serving == [h \in Harvesters |-> IF At(h, "round") THEN hand[h].key ELSE None]
Owed == [h \in Harvesters |-> IF At(h, "round") THEN Left(Gap, hand[h].spent) ELSE 0]

LEMMA Mapping ==
  /\ Cadence!cadenceVars = <<Chosen, Serving, Owed, due>>
  /\ Cadence!AllHarvesters = Harvesters
BY DEF Cadence!cadenceVars, Cadence!AllHarvesters, Chosen, Serving, Owed, Harvesters

\* A step that touches neither the rests nor the harvesters.
LEMMA Stutters ==
  ASSUME UNCHANGED <<due, hand>>
  PROVE  UNCHANGED Cadence!cadenceVars
BY DEF Cadence!cadenceVars, At

\* When h moves, the hands of the others stay as they are.
LEMMA OthersStay ==
  ASSUME TypeOK, NEW h \in Harvesters, NEW r, hand' = [hand EXCEPT ![h] = r]
  PROVE  /\ hand'[h] = r
         /\ \A j \in Harvesters : j # h => hand'[j] = hand[j]
         /\ Serving' = [Serving EXCEPT ![h] = IF r.pc = "round" THEN r.key ELSE None]
         /\ Owed' = [Owed EXCEPT ![h] = IF r.pc = "round" THEN Left(Gap, r.spent) ELSE 0]
<1>1. hand'[h] = r /\ \A j \in Harvesters : j # h => hand'[j] = hand[j]
  BY DEF TypeOK
<1>2. ASSUME NEW j \in Harvesters
      PROVE  /\ Serving'[j] = IF j = h THEN (IF r.pc = "round" THEN r.key ELSE None) ELSE Serving[j]
             /\ Owed'[j] = IF j = h THEN (IF r.pc = "round" THEN Left(Gap, r.spent) ELSE 0)
                           ELSE Owed[j]
  BY <1>1 DEF Serving, Owed, At
<1>3. /\ Serving = [j \in Harvesters |-> Serving[j]] /\ Serving' = [j \in Harvesters |-> Serving'[j]]
      /\ Owed = [j \in Harvesters |-> Owed[j]] /\ Owed' = [j \in Harvesters |-> Owed'[j]]
  BY DEF Serving, Owed
<1>4. Serving' = [Serving EXCEPT ![h] = IF r.pc = "round" THEN r.key ELSE None]
  BY <1>2, <1>3
<1>5. Owed' = [Owed EXCEPT ![h] = IF r.pc = "round" THEN Left(Gap, r.spent) ELSE 0]
  BY <1>2, <1>3
<1> QED BY <1>1, <1>4, <1>5

\* A step of the worker outside its rounds leaves what others see of the rounds.
LEMMA QuietMove ==
  ASSUME TypeOK, NEW r, hand' = [hand EXCEPT ![Worker] = r],
         ~At(Worker, "round"), r.pc # "round"
  PROVE  Serving' = Serving /\ Owed' = Owed /\ hand'[Worker] = r /\ Serving[Worker] = None
<1>1. Worker \in Harvesters
  BY DEF Harvesters
<1>2. Serving[Worker] = None /\ Owed[Worker] = 0
  BY <1>1 DEF Serving, Owed
<1>3. Serving' = [Serving EXCEPT ![Worker] = None] /\ Owed' = [Owed EXCEPT ![Worker] = 0]
  BY <1>1, OthersStay
<1>4. /\ Serving = [j \in Harvesters |-> Serving[j]]
      /\ Owed = [j \in Harvesters |-> Owed[j]]
  BY DEF Serving, Owed
<1> HIDE DEF Serving, Owed
<1>5. Serving' = Serving /\ Owed' = Owed
  BY <1>1, <1>2, <1>3, <1>4
<1> QED BY <1>1, <1>2, <1>5, OthersStay

\* probe_job() is called: the worker has chosen the job, an operator has not, and
\* either leaves the job a whole gap.
LEMMA TakingUpRefines ==
  ASSUME TypeOK, NEW h \in Harvesters, NEW k \in Keys, RefuseRound(h, k) \/ BeginRound(h, k)
  PROVE  Cadence!TurnBack(h, k) \/ Cadence!Begin(h, k)
<1>1. /\ k \in known /\ hand[h] \in Hand /\ ~At(h, "round")
      /\ HasJob(h) \/ h # Worker
      /\ hand[h].spent = 0
      /\ h = Worker => hand[h].pc \in {"picked", "check"} /\ hand[h].key = k
  BY TakerHasJob DEF RefuseRound, BeginRound
<1>2. due \in [Keys -> Nat] /\ hand \in [Harvesters -> Hand]
  BY DEF TypeOK, JobsOK
<1>3. due' = [due EXCEPT ![k] = due'[k]] /\ due'[k] \in Nat /\ due'[k] >= Gap
  BY <1>2, GapIsLeast, SchedulerAssumption DEF RefuseRound, BeginRound
<1>4. PICK r : /\ hand' = [hand EXCEPT ![h] = r]
               /\ h = Worker => r.pc \notin {"picked", "check"}
               /\ \/ r.pc # "round"
                  \/ r.pc = "round" /\ r.key = k /\ r.spent = 0
  <2>1. CASE RefuseRound(h, k)
    <3>1. IF h = Worker THEN Back(h) \in {"top", "sleep"} ELSE Back(h) = "asked"
      BY <1>1, BackIsWithoutJob
    <3> WITNESS EmptyHand(Back(h))
    <3> QED BY <2>1, <3>1 DEF RefuseRound, Goes, EmptyHand
  <2>2. CASE BeginRound(h, k)
    <3> DEFINE r == [hand[h] EXCEPT !.pc = "round", !.key = k]
    <3>1. hand' = [hand EXCEPT ![h] = r]
      BY <1>2, <2>2 DEF BeginRound
    <3>2. r.pc = "round" /\ r.key = k /\ r.spent = 0
      BY <1>1 DEF Hand
    <3> HIDE DEF r
    <3> QED BY <3>1, <3>2
  <2> QED BY <2>1, <2>2
<1>5. /\ hand'[h] = r
      /\ \A j \in Harvesters : j # h => hand'[j] = hand[j]
      /\ Serving' = [Serving EXCEPT ![h] = IF r.pc = "round" THEN r.key ELSE None]
      /\ Owed' = [Owed EXCEPT ![h] = IF r.pc = "round" THEN Left(Gap, r.spent) ELSE 0]
  BY <1>4, OthersStay
<1>6. Serving[h] = None /\ Owed[h] = 0
  BY <1>1 DEF Serving, Owed
<1>7. IF h = Worker THEN Chosen = k /\ Chosen' = None ELSE UNCHANGED Chosen
  <2>1. CASE h = Worker
    BY <1>1, <1>4, <1>5, <2>1 DEF Chosen
  <2>2. CASE h # Worker
    <3>1. Worker \in Harvesters
      BY DEF Harvesters
    <3> QED BY <1>5, <2>2, <3>1 DEF Chosen
  <2> QED BY <2>1, <2>2
<1>8. Cadence!ComesTo(h, k)
  BY <1>3, <1>6, <1>7 DEF Cadence!ComesTo, Cadence!OnlyRests, Chosen, Serving
<1>9. CASE r.pc # "round"
  <2>1. Serving' = [Serving EXCEPT ![h] = None] /\ Owed' = [Owed EXCEPT ![h] = 0]
    BY <1>5, <1>9
  <2>2. Serving' = Serving /\ Owed' = Owed
    BY <1>6, <2>1 DEF Serving, Owed
  <2> QED BY <1>8, <2>2 DEF Cadence!TurnBack, Serving, Owed
<1>10. CASE r.pc = "round" /\ r.key = k /\ r.spent = 0
  <2>1. Left(Gap, 0) = Gap
    BY GapIsLeast DEF Left
  <2>2. Serving' = [Serving EXCEPT ![h] = k] /\ Owed' = [Owed EXCEPT ![h] = Gap]
    BY <1>5, <1>10, <2>1
  <2> QED BY <1>8, <2>2 DEF Cadence!Begin, Serving, Owed
<1> QED BY <1>4, <1>9, <1>10

LEMMA LoopRefines ==
  ASSUME TypeOK, LoopStep
  PROVE  [Cadence!Next]_(Cadence!cadenceVars)
<1>1. JobsOK /\ hand \in [Harvesters -> Hand] /\ Worker \in Harvesters /\ HandOK(Worker)
  BY DEF TypeOK, Harvesters
<1>2. CASE SkipScan \/ ScanWithoutPool \/ SomeScan \/ Wake
  <2>1. PICK pc \in {"top", "first"} : Goes(Worker, pc)
    BY <1>2 DEF SkipScan, ScanWithoutPool, SomeScan, Scan, Wake
  <2>2. hand[Worker].pc \in {"top", "sleep"} /\ due' = due
    BY <1>2 DEF SkipScan, ScanWithoutPool, SomeScan, Scan, Wake, At, jobVars
  <2>3. EmptyHand(pc).pc = pc
    BY DEF EmptyHand
  <2>4. Serving' = Serving /\ Owed' = Owed /\ hand'[Worker] = EmptyHand(pc)
    BY <2>1, <2>2, <2>3, QuietMove DEF Goes, At
  <2>5. Chosen' = Chosen
    BY <2>2, <2>3, <2>4 DEF Chosen
  <2> QED BY <2>2, <2>4, <2>5 DEF Cadence!cadenceVars, Chosen, Serving, Owed
<1>3. ASSUME NEW k \in Keys, PickDue(k)
      PROVE  Cadence!Choose(k)
  <2>1. PICK passed \in SUBSET (Scope \ {k}) : PutOff(passed)
    BY <1>3 DEF PickDue
  <2>2. due' \in [Keys -> Nat] /\ \A j \in Keys : due'[j] >= due[j]
    BY <1>1, <2>1, PuttingOffPostpones
  <2>3. due[k] = 0 /\ due'[k] = 0
    BY <1>3, <2>1 DEF PickDue, Eligible, Due, Reached, PutOff
  <2> DEFINE first == At(Worker, "first")
             r == [pc |-> IF first THEN "picked" ELSE "check", key |-> k, spent |-> 0,
                   after |-> IF first THEN "top" ELSE "sleep"]
  <2>4. hand' = [hand EXCEPT ![Worker] = r] /\ hand[Worker].pc \in {"first", "second"}
    BY <1>3 DEF PickDue, At
  <2>5. r.pc \in {"picked", "check"} /\ r.key = k
    OBVIOUS
  <2> HIDE DEF r
  <2>6. Serving' = Serving /\ Owed' = Owed /\ hand'[Worker] = r /\ Serving[Worker] = None
    BY <2>4, <2>5, QuietMove DEF At
  <2>7. Chosen = None /\ Chosen' = k
    BY <2>4, <2>5, <2>6 DEF Chosen
  <2> QED BY <2>2, <2>3, <2>6, <2>7
          DEF Cadence!Choose, Cadence!Postponed, Chosen, Serving, Owed
<1>4. CASE PickNone
  <2>1. PICK pc \in {"second", "sleep"} : Goes(Worker, pc)
    BY <1>4 DEF PickNone
  <2>2. hand[Worker].pc \in {"first", "second"}
    BY <1>4 DEF PickNone, At
  <2>3. EmptyHand(pc).pc = pc
    BY DEF EmptyHand
  <2>4. Serving' = Serving /\ Owed' = Owed /\ hand'[Worker] = EmptyHand(pc)
    BY <2>1, <2>2, <2>3, QuietMove DEF Goes, At
  <2>5. Chosen' = Chosen
    BY <2>2, <2>3, <2>4 DEF Chosen
  <2>6. due' \in [Keys -> Nat] /\ \A j \in Keys : due'[j] >= due[j]
    BY <1>1, <1>4, PuttingOffPostpones DEF PickNone, JobsOK
  <2>7. Cadence!Postpone
    BY <2>4, <2>5, <2>6 DEF Cadence!Postpone, Cadence!Postponed, Chosen, Serving, Owed
  <2> QED BY <2>7 DEF Cadence!Next
<1>5. CASE SkipSatisfied
  <2>1. hand[Worker].pc = "check" /\ Goes(Worker, "sleep") /\ due' = due
    BY <1>5 DEF SkipSatisfied, At, jobVars
  <2>2. EmptyHand("sleep").pc = "sleep"
    BY DEF EmptyHand
  <2>3. Serving' = Serving /\ Owed' = Owed /\ hand'[Worker] = EmptyHand("sleep")
    BY <2>1, <2>2, QuietMove DEF Goes, At
  <2>4. hand[Worker].key \in Keys
    BY <1>1, <2>1 DEF HandOK, HasJob, JobsOK
  <2>5. Chosen # None /\ Chosen' = None
    BY <2>1, <2>2, <2>3, <2>4, SchedulerAssumption DEF Chosen
  <2>6. Cadence!LetGo
    BY <2>1, <2>3, <2>5 DEF Cadence!LetGo, Chosen, Serving, Owed
  <2> QED BY <2>6 DEF Cadence!Next
<1>6. ASSUME NEW k \in Keys, RefuseRound(Worker, k) \/ BeginRound(Worker, k)
      PROVE  Cadence!TurnBack(Worker, k) \/ Cadence!Begin(Worker, k)
  BY <1>1, <1>6, TakingUpRefines
<1>7. Worker \in Cadence!AllHarvesters
  BY <1>1, Mapping
<1> QED BY <1>2, <1>3, <1>4, <1>5, <1>6, <1>7 DEF LoopStep, Cadence!Next

LEMMA OperatorRefines ==
  ASSUME TypeOK, OperatorStep
  PROVE  [Cadence!Next]_(Cadence!cadenceVars)
<1>1. PICK o \in Operators :
        \/ \E asked \in Askable : OperatorAsks(o, asked)
        \/ \E k \in Keys : RefuseRound(o, k) \/ BeginRound(o, k)
  BY DEF OperatorStep
<1>2. ASSUME NEW asked \in Askable, OperatorAsks(o, asked)
      PROVE  UNCHANGED Cadence!cadenceVars
  BY <1>2, Stutters DEF OperatorAsks, jobVars
<1>3. ASSUME NEW k \in Keys, RefuseRound(o, k) \/ BeginRound(o, k)
      PROVE  Cadence!TurnBack(o, k) \/ Cadence!Begin(o, k)
  BY <1>3, TakingUpRefines DEF Harvesters
<1>4. o \in Cadence!AllHarvesters
  BY Mapping DEF Harvesters
<1> QED BY <1>1, <1>2, <1>3, <1>4 DEF Cadence!Next

LEMMA RoundRefines ==
  ASSUME TypeOK, RoundEnds
  PROVE  [Cadence!Next]_(Cadence!cadenceVars)
<1>1. PICK h \in Harvesters, outcome \in {"settled", "degraded", "failed"} : EndsWith(h, outcome)
  BY DEF RoundEnds, RoundSettles, RoundFails
<1>k. PICK k \in Keys : k = hand[h].key
  BY <1>1, RoundLeavesRest
<1>2. /\ hand[h].spent \in Nat
      /\ due' = [due EXCEPT ![k] = due'[k]]
      /\ due'[k] \in Nat /\ due'[k] >= Left(Gap, hand[h].spent)
      /\ Goes(h, Back(h))
      /\ IF h = Worker THEN Back(h) \in {"top", "sleep"} ELSE Back(h) = "asked"
  BY <1>1, <1>k, RoundLeavesRest
<1>3. EmptyHand(Back(h)).pc = Back(h) /\ hand[h].pc = "round"
  BY <1>1 DEF EmptyHand, EndsWith, At
<1>4. /\ hand'[h] = EmptyHand(Back(h))
      /\ \A j \in Harvesters : j # h => hand'[j] = hand[j]
      /\ Serving' = [Serving EXCEPT ![h] = None]
      /\ Owed' = [Owed EXCEPT ![h] = 0]
  BY <1>2, <1>3, OthersStay DEF Goes
<1>5. Serving[h] = k /\ Owed[h] = Left(Gap, hand[h].spent)
  BY <1>3, <1>k DEF Serving, Owed, At
<1>6. Chosen' = Chosen
  <2>1. Worker \in Harvesters
    BY DEF Harvesters
  <2> QED BY <1>2, <1>3, <1>4, <2>1 DEF Chosen
<1>7. Cadence!End(h, k)
  BY <1>2, <1>4, <1>5, <1>6 DEF Cadence!End, Cadence!OnlyRests, Chosen, Serving, Owed
<1>8. h \in Cadence!AllHarvesters
  BY Mapping
<1> QED BY <1>7, <1>8 DEF Cadence!Next

LEMMA UpstreamRefines ==
  ASSUME TypeOK, Upstream
  PROVE  [Cadence!Next]_(Cadence!cadenceVars)
<1>1. due \in [Keys -> Nat] /\ RejectCooldown \in Nat /\ RetryAfters \subseteq Nat
  BY SchedulerAssumption DEF TypeOK, JobsOK
<1>2. CASE MeetOverload
  BY <1>2, Stutters DEF MeetOverload, jobVars
<1>3. ASSUME NEW k \in Keys, RequestNeeds(k)
      PROVE  UNCHANGED Cadence!cadenceVars
  BY <1>3, Stutters DEF RequestNeeds
<1>4. ASSUME NEW k \in Keys, NEW n \in Nat, due' = [due EXCEPT ![k] = n], UNCHANGED hand
      PROVE  Cadence!Heard(k)
  <2>1. due' = [due EXCEPT ![k] = due'[k]] /\ due'[k] \in Nat
    BY <1>1, <1>4
  <2>2. Chosen' = Chosen /\ Serving' = Serving /\ Owed' = Owed
    BY <1>4 DEF Chosen, Serving, Owed, At
  <2> QED BY <2>1, <2>2 DEF Cadence!Heard, Cadence!OnlyRests, Chosen, Serving, Owed
<1>5. ASSUME NEW k \in Keys, Withdraw(k)
      PROVE  Cadence!Heard(k)
  BY <1>4, <1>5 DEF Withdraw
<1>6. ASSUME NEW k \in Keys, NEW verdict \in BOOLEAN, NEW retryAfter \in RetryAfters,
             Rejection(k, verdict, retryAfter)
      PROVE  Cadence!Heard(k)
  <2>1. Longer(RejectCooldown, retryAfter) \in Nat
    BY <1>1, LongerIsNat
  <2> QED BY <1>4, <1>6, <2>1 DEF Rejection
<1>7. ASSUME NEW k \in Keys, NEW st, StoreChanges(k, st)
      PROVE  UNCHANGED Cadence!cadenceVars
  BY <1>7, Stutters DEF StoreChanges
<1> QED BY <1>2, <1>3, <1>5, <1>6, <1>7 DEF Upstream, Cadence!Next

\* The time spent is counted far enough for the gap to run out.
LEMMA TimeRefines ==
  ASSUME TypeOK, Tick
  PROVE  Cadence!TimePasses
<1>1. ASSUME NEW h \in Harvesters
      PROVE  /\ hand'[h].pc = hand[h].pc /\ hand'[h].key = hand[h].key
             /\ hand'[h].spent = Spent(h) /\ hand[h].spent \in Nat
  BY DEF TypeOK, Tick, Hand
<1>2. ASSUME NEW h \in Harvesters, At(h, "round")
      PROVE  Left(Gap, Spent(h)) = Less(Left(Gap, hand[h].spent))
  <2>1. Spent(h) = IF hand[h].spent < LongestCooldown THEN hand[h].spent + 1 ELSE hand[h].spent
    BY <1>2 DEF Spent, At
  <2> QED BY <1>1, <2>1, GapIsLeast DEF Left, Less
<1>3. Owed' = [h \in Harvesters |-> Less(Owed[h])]
  <2>1. ASSUME NEW h \in Harvesters
        PROVE  (IF At(h, "round") THEN Left(Gap, hand[h].spent) ELSE 0)'
                 = Less(IF At(h, "round") THEN Left(Gap, hand[h].spent) ELSE 0)
    <3>1. CASE At(h, "round")
      BY <1>1, <1>2, <3>1, GapIsLeast DEF At
    <3>2. CASE ~At(h, "round")
      BY <1>1, <3>2 DEF At, Less
    <3> QED BY <3>1, <3>2
  <2> QED BY <2>1 DEF Owed
<1>4. Serving' = Serving /\ Chosen' = Chosen
  BY <1>1 DEF Serving, Chosen, At, Harvesters
<1>5. due' = [k \in Keys |-> Less(due[k])]
  BY DEF Tick
<1>6. \A n : Cadence!Worn(n) = Less(n)
  BY DEF Cadence!Worn, Less
<1>7. Owed' = [h \in Cadence!AllHarvesters |-> Cadence!Worn(Owed[h])]
  BY <1>3, <1>6, Mapping
<1> QED BY <1>4, <1>5, <1>6, <1>7 DEF Cadence!TimePasses, Serving, Chosen, Owed

\* The cadence, for any number of jobs and operators and rounds of any length:
\* the worker takes up what has rested, every round leaves the rest counted from
\* its beginning, and only time and the upstream's own word shorten a rest.
THEOREM HarvestersKeepCadence == Spec => KeepsCadence
<1>1. Init => Cadence!Init
  <2> SUFFICES ASSUME Init PROVE Cadence!Init
    OBVIOUS
  <2>1. hand = [h \in Harvesters |-> EmptyHand(IF h = Worker THEN "top" ELSE "asked")]
        /\ due = [k \in Keys |-> 0]
    BY DEF Init
  <2>2. \A h \in Harvesters : hand[h].pc \in {"top", "asked"}
    BY <2>1 DEF EmptyHand
  <2>3. Chosen = None /\ Serving = [h \in Harvesters |-> None] /\ Owed = [h \in Harvesters |-> 0]
    BY <2>2 DEF Chosen, Serving, Owed, At, Harvesters
  <2> QED BY <2>1, <2>3, Mapping DEF Cadence!Init, Chosen, Serving, Owed
<1>2. TypeOK /\ [Next]_vars => [Cadence!Next]_(Cadence!cadenceVars)
  <2> SUFFICES ASSUME TypeOK, [Next]_vars
               PROVE  [Cadence!Next]_(Cadence!cadenceVars)
    OBVIOUS
  <2>1. CASE UNCHANGED vars
    BY <2>1, Stutters DEF vars, jobVars
  <2>2. CASE LoopStep
    BY <2>2, LoopRefines
  <2>3. CASE OperatorStep
    BY <2>3, OperatorRefines
  <2>4. CASE RoundEnds
    BY <2>4, RoundRefines
  <2>5. CASE Upstream
    BY <2>5, UpstreamRefines
  <2>6. CASE SetInjection
    BY <2>6, Stutters DEF SetInjection, jobVars
  <2>7. CASE Tick
    BY <2>7, TimeRefines DEF Cadence!Next
  <2> QED BY <2>1, <2>2, <2>3, <2>4, <2>5, <2>6, <2>7 DEF Next
<1> QED BY <1>1, <1>2, TypeCorrect, PTL DEF Spec, KeepsCadence, Cadence!Spec
=============================================================================
