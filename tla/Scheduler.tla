------------------------------- MODULE Scheduler -------------------------------
(***************************************************************************)
(* Who starts rounds of harvesting: the worker thread of the plugin, with  *)
(* its scans for accounts, its choice among the jobs and its rests         *)
(* (runtime.rs:735-745), and the operator, whose management threads take   *)
(* up jobs whether these rest or not (harvest_diagnostics).  Beside them   *)
(* go the requests of the host and the switches that change what there is  *)
(* to choose from.  Runtime has the attempts of a round and the states     *)
(* themselves; here a store is what the scheduler asks of it: has it a     *)
(* state, does it need another one.                                        *)
(*                                                                         *)
(* Timers are relative: what the code compares with now_seconds() is kept  *)
(* as the ticks left.  Time passes at any moment, and a round lasts as     *)
(* long as the host likes, for ever if it never answers.                   *)
(***************************************************************************)
EXTENDS Naturals, FiniteSets

CONSTANTS
  None,
  Auths, Models,       \* enabled codex credentials of the host, model names
  DefaultModel,        \* default_harvest_model()
  ProbeCooldown,       \* PROBE_COOLDOWN_SECONDS
  FailCooldown,        \* HARVEST_FAIL_COOLDOWN_SECONDS
  DegradedCooldown,    \* DEGRADED_HARVEST_COOLDOWN_SECONDS
  OverloadPause,       \* OVERLOAD_PAUSE_SECONDS
  RejectCooldown,      \* REJECT_COOLDOWN_SECONDS
  RetryAfters,         \* Retry-After values the upstream may send
  ScanEvery,           \* AUTO_HARVEST_SCAN_SECONDS
  YieldTime,           \* PROBE_YIELD
  Worker,              \* the worker thread
  Operators            \* the management threads that harvest on demand

Keys == Auths \X Models
Harvesters == {Worker} \cup Operators

ASSUME SchedulerAssumption ==
  /\ DefaultModel \in Models
  /\ None \notin Keys
  /\ Worker \notin Operators
  /\ {ProbeCooldown, FailCooldown, DegradedCooldown, OverloadPause,
      RejectCooldown, YieldTime} \subseteq Nat \ {0}
  /\ ScanEvery \in Nat
  /\ RetryAfters \subseteq Nat

VARIABLES
  known,     \* the keys that have a job
  due,       \* next_probe of each job: ticks to go
  store,     \* "none": no usable state; "old": one that is to be renewed; "fresh"
  barred,    \* ticks left of a 429
  verdicts,  \* jobs whose credential was answered with 401 or 403: barred for good
  pause,     \* ticks left of harvest_pause_until
  enabled,   \* injection_enabled
  scanAge,   \* ticks since last_auto_scan, up to ScanEvery
  hand,      \* where each harvester stands: step, job, ticks in it, where it goes on
  todo       \* the jobs each operator has asked for and not come to yet

jobVars == <<known, due, store, barred, verdicts>>
vars == <<jobVars, pause, enabled, scanAge, hand, todo>>

-----------------------------------------------------------------------------
Longer(a, b) == IF a > b THEN a ELSE b

Less(n) == IF n > 0 THEN n - 1 ELSE 0
Left(n, spent) == IF n > spent THEN n - spent ELSE 0

Rejected(k) == k \in verdicts \/ barred[k] > 0
Paused == pause > 0

\* due_job() stops at a job whose time has come, that is not rejected and
\* needs a state; one that needs none is put off.
Reached(k) == k \in known /\ due[k] = 0 /\ ~Rejected(k)
Due(k) == Reached(k) /\ store[k] # "fresh"

DefaultJobs == {k \in known : k[2] = DefaultModel}
PreferDefault == \E k \in DefaultJobs : store[k] = "none"
DefaultDue == \E k \in DefaultJobs : Due(k)

\* Mutant: while the default model has no state, nothing else is harvested.
ScopeOfDefault == IF PreferDefault THEN DefaultJobs ELSE known

\* Mutant: the models are harvested as they come.
ScopeUnordered == known

\* The default model goes first while a job of it has no state.
Scope == IF PreferDefault /\ DefaultDue THEN DefaultJobs ELSE known
Eligible == {k \in Scope : Due(k)}

PutOff(passed) ==
  due' = [k \in Keys |-> IF k \in passed /\ Reached(k) /\ ~Due(k)
                         THEN ProbeCooldown ELSE due[k]]

At(h, pc) == hand[h].pc = pc
EmptyHand(pc) == [pc |-> pc, key |-> None, spent |-> 0, after |-> "none"]
Goes(h, pc) == hand' = [hand EXCEPT ![h] = EmptyHand(pc)]

Init ==
  /\ known = {}
  /\ due = [k \in Keys |-> 0]
  /\ store = [k \in Keys |-> "none"]
  /\ barred = [k \in Keys |-> 0]
  /\ verdicts = {}
  /\ pause = 0
  /\ enabled = TRUE
  /\ scanAge = ScanEvery
  /\ hand = [h \in Harvesters |-> EmptyHand(IF h = Worker THEN "top" ELSE "asked")]
  /\ todo = [o \in Operators |-> {}]

-----------------------------------------------------------------------------
(* A turn of worker_loop().                                                *)

\* maybe_auto_harvest(): it is not time yet, or injection is off.
SkipScan ==
  /\ At(Worker, "top")
  /\ ~enabled \/ scanAge < ScanEvery
  /\ Goes(Worker, "first")
  /\ UNCHANGED <<jobVars, pause, enabled, scanAge, todo>>

\* The pool is read again; without a node in it nothing else is done.
ScanWithoutPool ==
  /\ At(Worker, "top")
  /\ enabled /\ scanAge >= ScanEvery
  /\ scanAge' = 0
  /\ Goes(Worker, "first")
  /\ UNCHANGED <<jobVars, pause, enabled, todo>>

\* host.auth.list answers with what it cools down: whole credentials (those it
\* does not list, or has disabled, among them), or one model of one.
CoolingDown(k, cooling) == k[1] \in cooling \/ k \in cooling

\* Each credential gets a job for the default model and keeps those for models
\* seen before, unless it is cooling down.  A new job is due at once; one
\* already there stays as it is.
Scan(cooling) ==
  /\ At(Worker, "top")
  /\ enabled /\ scanAge >= ScanEvery
  /\ known' = known \cup {k \in Keys : k[2] = DefaultModel /\ ~CoolingDown(k, cooling)}
  /\ scanAge' = 0
  /\ Goes(Worker, "first")
  /\ UNCHANGED <<due, store, barred, verdicts, pause, enabled, todo>>

\* next_due_job() finds k: called by the loop itself, or once more by
\* run_probe_round() when the loop found none.
PickDue(k) ==
  /\ At(Worker, "first") \/ At(Worker, "second")
  /\ enabled /\ ~Paused
  /\ k \in Eligible
  /\ \E passed \in SUBSET (Scope \ {k}) :
       /\ (PreferDefault /\ ~DefaultDue) => DefaultJobs \subseteq passed
       /\ PutOff(passed)
  /\ LET first == At(Worker, "first")
     IN  hand' = [hand EXCEPT ![Worker] =
           [pc |-> IF first THEN "picked" ELSE "check", key |-> k, spent |-> 0,
            after |-> IF first THEN "top" ELSE "sleep"]]
  /\ UNCHANGED <<known, store, barred, verdicts, pause, enabled, scanAge, todo>>

\* It finds none, after a look at all of them, or without one.
PickNone ==
  /\ At(Worker, "first") \/ At(Worker, "second")
  /\ IF enabled /\ ~Paused
     THEN Eligible = {} /\ PutOff(known)
     ELSE UNCHANGED due
  /\ Goes(Worker, IF At(Worker, "first") THEN "second" ELSE "sleep")
  /\ UNCHANGED <<known, store, barred, verdicts, pause, enabled, scanAge, todo>>

\* run_probe_round() lets go of a job that has a state.
SkipSatisfied ==
  /\ At(Worker, "check")
  /\ store[hand[Worker].key] # "none"
  /\ Goes(Worker, "sleep")
  /\ UNCHANGED <<jobVars, pause, enabled, scanAge, todo>>

\* The interruptible sleep at the end of a turn without a round of its own.
Wake ==
  /\ At(Worker, "sleep")
  /\ hand[Worker].spent = YieldTime
  /\ Goes(Worker, "top")
  /\ UNCHANGED <<jobVars, pause, enabled, scanAge, todo>>

-----------------------------------------------------------------------------
(* The operator, in a thread of its own (harvest_diagnostics with run).    *)

\* The jobs there are now, of a credential, of a model, of both, or all of them.
Askable ==
  {{k \in known : auth \in {None, k[1]} /\ model \in {None, k[2]}} :
     auth \in Auths \cup {None}, model \in Models \cup {None}} \ {{}}

\* Neither their rests nor the pause nor the switch is looked at.
OperatorAsks(o, asked) ==
  /\ At(o, "asked")
  /\ todo[o] = {}
  /\ todo' = [todo EXCEPT ![o] = asked]
  /\ UNCHANGED <<jobVars, pause, enabled, scanAge, hand>>

-----------------------------------------------------------------------------
(* probe_job(): what a round means to the schedule.                        *)

\* The worker comes with the job it chose, an operator with one it asked for.
TakesItUp(h, k) ==
  \/ /\ h = Worker /\ hand[h].key = k
     /\ At(h, "picked") \/ (At(h, "check") /\ store[k] = "none")
  \/ h \in Operators /\ At(h, "asked") /\ k \in todo[h]

TicksOff(h, k) ==
  todo' = [o \in Operators |-> IF o = h THEN todo[o] \ {k} ELSE todo[o]]

\* Where the call of probe_job() returns to.
Back(h) == IF h = Worker THEN hand[h].after ELSE "asked"

\* The credential was rejected between the choice and the round.
RefuseRound(h, k) ==
  /\ TakesItUp(h, k)
  /\ Rejected(k)
  /\ due' = [due EXCEPT ![k] = RejectCooldown]
  /\ Goes(h, Back(h))
  /\ TicksOff(h, k)
  /\ UNCHANGED <<known, store, barred, verdicts, pause, enabled, scanAge>>

BeginRound(h, k) ==
  /\ TakesItUp(h, k)
  /\ ~Rejected(k)
  /\ due' = [due EXCEPT ![k] = ProbeCooldown]
  /\ hand' = [hand EXCEPT ![h].pc = "round", ![h].key = k]
  /\ TicksOff(h, k)
  /\ UNCHANGED <<known, store, barred, verdicts, pause, enabled, scanAge>>

\* pause_harvest(): an attempt is answered with 5xx.  The round goes on.
MeetOverload ==
  /\ \E h \in Harvesters : At(h, "round")
  /\ pause # Longer(pause, OverloadPause)
  /\ pause' = OverloadPause
  /\ UNCHANGED <<jobVars, enabled, scanAge, hand, todo>>

\* Mutant: a round that settled is not followed by a rest.
CooldownAfterFailure(outcome) ==
  CASE outcome = "settled"  -> 0
    [] outcome = "degraded" -> DegradedCooldown
    [] outcome = "failed"   -> FailCooldown

\* harvest_cooldown()
Cooldown(outcome) ==
  CASE outcome = "settled"  -> ProbeCooldown
    [] outcome = "degraded" -> DegradedCooldown
    [] outcome = "failed"   -> FailCooldown

LongestCooldown == Longer(ProbeCooldown, Longer(FailCooldown, DegradedCooldown))

\* The rest is counted from the start of the round, however long ago that was,
\* and replaces whatever was written to next_probe during it.
EndsWith(h, outcome) ==
  /\ At(h, "round")
  /\ due' = [due EXCEPT ![hand[h].key] = Left(Cooldown(outcome), hand[h].spent)]
  /\ Goes(h, Back(h))

\* A state came and passed its replay; the store takes it or does not.
RoundSettles(h) ==
  /\ EndsWith(h, "settled")
  /\ \E st \in {"fresh", store[hand[h].key]} :
       store' = [store EXCEPT ![hand[h].key] = st]
  /\ UNCHANGED <<known, barred, verdicts, pause, enabled, scanAge, todo>>

\* None came: for lack of attempts or of a credential, or for a rejection of it;
\* which of the two rests follows depends on the observation before.
RoundFails(h, outcome) ==
  /\ outcome \in {"degraded", "failed"}
  /\ EndsWith(h, outcome)
  /\ UNCHANGED <<known, store, barred, verdicts, pause, enabled, scanAge, todo>>

-----------------------------------------------------------------------------
(* What goes on beside the harvesters.                                     *)

\* ensure_job() for a request of the host.
RequestNeeds(k) ==
  /\ k \notin known
  /\ known' = known \cup {k}
  /\ UNCHANGED <<due, store, barred, verdicts, pause, enabled, scanAge, hand, todo>>

\* A response is the degradation signal: its state is dropped, a queued one may
\* take over, and the job is to be harvested at once.
Withdraw(k) ==
  /\ k \in known
  /\ \E left \in {"none", "old", "fresh"} : store' = [store EXCEPT ![k] = left]
  /\ due' = [due EXCEPT ![k] = 0]
  /\ UNCHANGED <<known, barred, verdicts, pause, enabled, scanAge, hand, todo>>

\* What a 401 or 403, and a 429, leave behind (CredentialLimit); a deadline no
\* longer matters once there is a verdict.
Limit(k, verdict, retryAfter) ==
  IF verdict \/ k \in verdicts
  THEN /\ verdicts' = verdicts \cup {k}
       /\ barred' = [barred EXCEPT ![k] = 0]
  ELSE /\ barred' = [barred EXCEPT ![k] = Longer(@, Longer(RejectCooldown, retryAfter))]
       /\ UNCHANGED verdicts

\* A 401, 403 or 429, in answer to a request (record_rejection) or to an attempt
\* of a round, which then fails.
Rejection(k, verdict, retryAfter) ==
  /\ k \in known
  /\ Limit(k, verdict, retryAfter)
  /\ due' = [due EXCEPT ![k] = Longer(RejectCooldown, retryAfter)]
  /\ UNCHANGED <<known, store, pause, enabled, scanAge, hand, todo>>

\* A state comes with a response, ages, is given up for its strikes, or a
\* queued one is promoted (StateStore).
StoreChanges(k, st) ==
  /\ k \in known
  /\ st # store[k]
  /\ store' = [store EXCEPT ![k] = st]
  /\ UNCHANGED <<known, due, barred, verdicts, pause, enabled, scanAge, hand, todo>>

\* The operator turns injection on or off.
SetInjection ==
  /\ enabled' = ~enabled
  /\ UNCHANGED <<jobVars, pause, scanAge, hand, todo>>

\* The time a harvester has spent at its step is counted as far as it matters.
Spent(h) ==
  LET at == hand[h]
      most == CASE at.pc = "round" -> LongestCooldown
                [] at.pc = "sleep" -> YieldTime
                [] OTHER -> 0
  IN  IF at.spent < most THEN at.spent + 1 ELSE at.spent

Tick ==
  /\ hand' = [h \in Harvesters |-> [hand[h] EXCEPT !.spent = Spent(h)]]
  /\ due' = [k \in Keys |-> Less(due[k])]
  /\ barred' = [k \in Keys |-> Less(barred[k])]
  /\ pause' = Less(pause)
  /\ scanAge' = IF scanAge < ScanEvery THEN scanAge + 1 ELSE scanAge
  /\ UNCHANGED <<known, store, verdicts, enabled, todo>>

-----------------------------------------------------------------------------
SomeScan == \E cooling \in SUBSET (Auths \cup Keys) : Scan(cooling)

LoopStep ==
  \/ SkipScan \/ ScanWithoutPool \/ SomeScan
  \/ \E k \in Keys : PickDue(k)
  \/ PickNone
  \/ SkipSatisfied
  \/ \E k \in Keys : RefuseRound(Worker, k) \/ BeginRound(Worker, k)
  \/ Wake

OperatorStep ==
  \E o \in Operators :
    \/ \E asked \in Askable : OperatorAsks(o, asked)
    \/ \E k \in Keys : RefuseRound(o, k) \/ BeginRound(o, k)

RoundEnds ==
  \E h \in Harvesters :
    RoundSettles(h) \/ \E o \in {"degraded", "failed"} : RoundFails(h, o)

Upstream ==
  \/ \E k \in Keys :
       \/ RequestNeeds(k)
       \/ Withdraw(k)
       \/ \E verdict \in BOOLEAN, retryAfter \in RetryAfters : Rejection(k, verdict, retryAfter)
       \/ \E st \in {"none", "old", "fresh"} : StoreChanges(k, st)
  \/ MeetOverload

Next == LoopStep \/ OperatorStep \/ RoundEnds \/ Upstream \/ SetInjection \/ Tick

\* The worker is scheduled and time passes.  A round need not end (the host's
\* calls have no timeout), and nobody need send requests, ask for a harvest,
\* change a switch or the pool, or cool anything down.
Fairness == WF_vars(LoopStep) /\ WF_vars(Tick)

Spec == Init /\ [][Next]_vars /\ Fairness

-----------------------------------------------------------------------------
(* What holds.                                                             *)

Hand ==
  [pc : {"top", "first", "second", "picked", "check", "round", "sleep", "asked"},
   key : Keys \cup {None}, spent : Nat, after : {"none", "top", "sleep"}]

HasJob(h) == hand[h].pc \in {"picked", "check", "round"}

\* The jobs, the switches and the timers.
JobsOK ==
  /\ known \subseteq Keys /\ verdicts \subseteq known
  /\ due \in [Keys -> Nat] /\ barred \in [Keys -> Nat]
  /\ store \in [Keys -> {"none", "old", "fresh"}]
  /\ \A k \in Keys \ known : due[k] = 0 /\ barred[k] = 0 /\ store[k] = "none"
  /\ pause \in 0..OverloadPause
  /\ enabled \in BOOLEAN
  /\ scanAge \in 0..ScanEvery

HandOK(h) ==
  /\ IF HasJob(h) THEN hand[h].key \in known ELSE hand[h].key = None
  /\ IF h = Worker THEN ~At(h, "asked") ELSE At(h, "asked") \/ At(h, "round")
  /\ h = Worker /\ HasJob(h) => hand[h].after # "none"
  /\ ~(At(h, "round") \/ At(h, "sleep")) => hand[h].spent = 0

\* Every variable has its type; a key without a job is blank, a harvester has a
\* job in hand exactly while it is at one, and an operator is at nothing but
\* rounds (Job, ProbeJob).
TypeOK ==
  /\ JobsOK
  /\ hand \in [Harvesters -> Hand]
  /\ \A h \in Harvesters : HandOK(h)
  /\ todo \in [Operators -> SUBSET known]

\* The least rest that follows anything probe_job() does.
Shorter(a, b) == IF a < b THEN a ELSE b
Gap == Shorter(Shorter(ProbeCooldown, RejectCooldown), Shorter(FailCooldown, DegradedCooldown))

\* The upstream sees a cadence: the worker takes up no job that has not rested
\* when it is chosen, a round leaves its job the rest that is counted from its
\* beginning, and nothing shortens a rest but that, time, and the upstream's own
\* word on the job; the operator's rounds wait for no rest and leave one all the
\* same (probe_job's next_probe, due_job; runtime.rs:45-58).
Cadence ==
  INSTANCE HarvestCadence WITH
    chosen  <- IF hand[Worker].pc \in {"picked", "check"} THEN hand[Worker].key ELSE None,
    serving <- [h \in Harvesters |-> IF At(h, "round") THEN hand[h].key ELSE None],
    owed    <- [h \in Harvesters |-> IF At(h, "round") THEN Left(Gap, hand[h].spent) ELSE 0],
    rest    <- due

KeepsCadence == Cadence!Spec

\* A job that wants a state, may be harvested, and is not being harvested.
Wanting(k) ==
  /\ enabled
  /\ k \in known /\ ~Rejected(k) /\ store[k] # "fresh"
  /\ \A h \in Harvesters : ~(At(h, "round") /\ hand[h].key = k)

\* However the map orders the jobs, and though those of the default model go
\* first, a job that wants a state gets its round, as long as the worker comes to
\* its sleep now and then and overloads do not recur for ever (next_due_job,
\* worker_loop).
NobodyStarves ==
  \A k \in Keys : <>[]Wanting(k) => []<>Paused \/ <>[]~At(Worker, "sleep")

\* A job of the default model without a state, and free to be harvested.
DefaultWants(k) ==
  enabled /\ k \in known /\ ~Rejected(k) /\ store[k] = "none"

\* The default model does not stay without a harvest, whatever other jobs come
\* up, be there a sleep between their rounds or not (maybe_auto_harvest's "or
\* astra is never harvested", next_due_job; runtime.rs:831, 1113): only overloads
\* or a round that never ends keep it waiting.
DefaultIsServed ==
  \A k \in Auths \X {DefaultModel} :
    /\ <>[]DefaultWants(k)
    /\ \A h \in Harvesters : []<>~At(h, "round")
    => []<>Paused \/ []<>(\E h \in Harvesters : HasJob(h) /\ hand[h].key \in DefaultJobs)
=============================================================================
