-------------------------------- MODULE Runtime --------------------------------
(***************************************************************************)
(* The turn-state service of the plugin (cpa-plugin/src/runtime.rs): jobs  *)
(* keyed by account and model, the request path that injects their states, *)
(* the harvest rounds that refill them, and the file they are kept in.     *)
(*                                                                         *)
(* Actors.  The host calls the plugin back for each request, one callback  *)
(* at a time (runtime.rs:1879).  A worker thread and, while an operator    *)
(* asks for it, a management thread harvest.  A callback that takes locks  *)
(* one after the other without waiting in between is one action; a step    *)
(* ends where another thread can change what the next step reads: between  *)
(* the look-up of a job and its use, and around every upstream call.       *)
(*                                                                         *)
(* Left out: statistics and texts for the status page, the choice of the   *)
(* egress node, and starting and stopping the threads.                     *)
(***************************************************************************)
EXTENDS StoreOps, LimitOps, Sequences, FiniteSets

CONSTANTS
  Auths, Models,       \* credentials of the host, model names
  DefaultModel,        \* default_harvest_model()
  AccountOf,           \* the account kind the host knows for a credential
  Requests,            \* ids of the host's requests
  Worker,              \* the background thread
  Operators,           \* management calls that harvest at once (run=1)
  PoolSize,            \* egress nodes in the pool
  HarvestAttempts,     \* HARVEST_ATTEMPTS
  ProbeCooldown,       \* PROBE_COOLDOWN_SECONDS
  FailCooldown,        \* HARVEST_FAIL_COOLDOWN_SECONDS
  DegradedCooldown,    \* DEGRADED_HARVEST_COOLDOWN_SECONDS
  OverloadPause,       \* OVERLOAD_PAUSE_SECONDS
  ObservedLimit,       \* the 4096 of observe_response_with()
  RetryAfters,         \* Retry-After values the upstream may send
  ProbeReplies,        \* what may come of a harvest call
  Statuses,            \* statuses of upstream answers
  Switches,            \* operator switches used: "injection", "fallback"
  MaxTime,             \* bound: the last instant of the clock
  MaxRestarts          \* bound: restarts of the plugin

Keys == Auths \X Models
Probers == {Worker} \cup Operators

ASSUME RuntimeAssumption ==
  /\ DefaultModel \in Models
  /\ AccountOf \in [Auths -> {"personal", "team"}]
  /\ PoolSize \in Nat /\ HarvestAttempts \in Nat \ {0} /\ ObservedLimit \in Nat
  /\ {ProbeCooldown, FailCooldown, DegradedCooldown, OverloadPause} \subseteq Nat
  /\ RetryAfters \subseteq Nat /\ Statuses \subseteq {200} \cup RejectedStatus
  /\ MaxTime \in Nat /\ MaxRestarts \in Nat
  /\ Worker \notin Operators

VARIABLES
  now,          \* now_seconds()
  jobs,         \* the job of each key, or None
  stores,       \* the StateStores made for each key; the last one is the job's
  enabled,      \* injection_enabled
  fallback,     \* StateFallback
  pauseUntil,   \* harvest_pause_until
  gentle,       \* gentle_harvest
  prober,       \* where each harvesting thread stands
  req,          \* where each request stands
  inflight,     \* the snapshot injected into each request, or None
  modes,        \* how each request was handled, or None
  observed,     \* requests whose response was observed
  disk,         \* turn-state.json: the saved state of each key, or None
  restarts      \* restarts so far

VARIABLES       \* history, read by properties only
  issued,       \* tokens the upstream gave to calls made for a key
  verified,     \* tokens whose replay was answered by the requested model
  withdrawn,    \* tokens answered with the degradation signal while active
  late          \* calls in a row a prober made on a rejected credential

runtimeVars == <<jobs, stores, enabled, fallback, pauseUntil, gentle>>
requestVars == <<req, inflight, modes, observed>>
history == <<issued, verified, withdrawn, late>>
vars == <<now, runtimeVars, prober, requestVars, disk, restarts, history>>

-----------------------------------------------------------------------------
(* Jobs.                                                                   *)

Blocks(account) == IF account = "team" THEN 12 ELSE 10

Known == {k \in Keys : jobs[k] # None}

StoreOf(k) == stores[k][Len(stores[k])]
UpdateStore(sts, k, g, st) == [sts EXCEPT ![k][g] = st]

\* The stores are told apart by account only.
UpdateCurrentShared(sts, k, st) ==
  [j \in Keys |-> IF j[1] = k[1] /\ sts[j] # <<>>
                  THEN [sts[j] EXCEPT ![Len(sts[j])] = st] ELSE sts[j]]

UpdateCurrent(sts, k, st) == UpdateStore(sts, k, Len(sts[k]), st)

Rejected(k) == k \in Known /\ Rejecting(jobs[k].limit, now)

\* The host may name the account kind, or fail to; then it counts as personal.
Resolutions(k) == {"personal", AccountOf[k[1]]}

\* ensure_job(): a job already there keeps its store and gets the account.
JobsWith(k, account) ==
  [jobs EXCEPT ![k] =
     IF @ = None
     THEN [account |-> account, next |-> 0, limit |-> NewLimit, seen |-> "none"]
     ELSE [@ EXCEPT !.account = account]]
StoresWith(k, account) ==
  IF jobs[k] = None THEN [stores EXCEPT ![k] = <<NewStore(Blocks(account))>>] ELSE stores

EnsureJob(k, account) ==
  /\ jobs' = JobsWith(k, account)
  /\ stores' = StoresWith(k, account)

\* save_states(): every job's usable state, promoting on the way.
Swept(sts) ==
  [k \in Keys |-> IF k \in Known
                  THEN UpdateCurrent(sts, k, Promote(sts[k][Len(sts[k])], now))[k]
                  ELSE sts[k]]

\* Mutant: by the store the job was made with, which it may have got rid of.
SavedFirst(sts) ==
  [k \in Keys |->
     IF k \in Known /\ AcquireResult(sts[k][1], now) # None
     THEN [token |-> AcquireResult(sts[k][1], now).token, account |-> jobs[k].account]
     ELSE None]

Saved(sts) ==
  [k \in Keys |->
     IF k \in Known /\ AcquireResult(sts[k][Len(sts[k])], now) # None
     THEN [token   |-> AcquireResult(sts[k][Len(sts[k])], now).token,
           account |-> jobs[k].account]
     ELSE None]

\* record_observation() on the stores as the caller leaves them.
Record(k, sts, seen) ==
  /\ jobs' = [jobs EXCEPT ![k].seen = seen]
  /\ stores' = Swept(sts)
  /\ disk' = Saved(sts)

-----------------------------------------------------------------------------
IdleProber ==
  [pc |-> "idle", key |-> None, store |-> 0, start |-> 0, budget |-> 0,
   attempt |-> 0, result |-> "none", degraded |-> FALSE, token |-> None]

NewRequest == [pc |-> "new", key |-> None, store |-> 0, limit |-> NewLimit]

Init ==
  /\ now = 0
  /\ jobs = [k \in Keys |-> None]
  /\ stores = [k \in Keys |-> <<>>]
  /\ enabled = TRUE
  /\ fallback = "passthrough"
  /\ pauseUntil = 0
  /\ gentle = FALSE
  /\ prober = [p \in Probers |-> IdleProber]
  /\ req = [r \in Requests |-> NewRequest]
  /\ inflight = [r \in Requests |-> None]
  /\ modes = [r \in Requests |-> None]
  /\ observed = {}
  /\ disk = [k \in Keys |-> None]
  /\ restarts = 0
  /\ issued = [k \in Keys |-> {}]
  /\ verified = [k \in Keys |-> {}]
  /\ withdrawn = [k \in Keys |-> {}]
  /\ late = [p \in Probers |-> 0]

Tick ==
  /\ now < MaxTime
  /\ now' = now + 1
  /\ UNCHANGED <<runtimeVars, prober, requestVars, disk, restarts, history>>

\* The upstream never issues a value twice, nor one from the future.
Issuable(t) == t.issued <= now /\ \A k \in Keys : t \notin issued[k]

Issue(k, t) == issued' = [issued EXCEPT ![k] = @ \cup {t}]

-----------------------------------------------------------------------------
(* The worker chooses a job.                                               *)

Paused == now < pauseUntil

\* Reached by the scan of due_job(): its time has come and it is not rejected.
Reached(k) == k \in Known /\ jobs[k].next <= now /\ ~Rejected(k)
Due(k) == Reached(k) /\ NeedsRefreshResult(StoreOf(k), now)

\* While a job of the default model has no state, its jobs go first.
PreferDefault ==
  \E k \in Known : k[2] = DefaultModel /\ AcquireResult(StoreOf(k), now) = None

DefaultJobs == {k \in Known : k[2] = DefaultModel}

\* The jobs the last scan goes over, and those it may stop at.
DefaultDue == \E k \in DefaultJobs : Due(k)
Scope == IF PreferDefault /\ DefaultDue THEN DefaultJobs ELSE Known
Eligible == {k \in Scope : Due(k)}

\* The scans go over the jobs in the order of the hash map: `asked` are the
\* jobs whose store was asked for a state (which promotes), `passed` those the
\* choice went past, which are put off if they need nothing.
Scanned(asked, passed) ==
  /\ stores' = [k \in Keys |-> IF k \in asked \cup {j \in passed : Reached(j)}
                               THEN UpdateCurrent(stores, k, Promote(StoreOf(k), now))[k]
                               ELSE stores[k]]
  /\ jobs' = [k \in Keys |-> IF k \in passed /\ Reached(k) /\ ~Due(k)
                             THEN [jobs[k] EXCEPT !.next = now + ProbeCooldown]
                             ELSE jobs[k]]

\* maybe_auto_harvest(): the worker makes jobs for the accounts of the host
\* that are not cooling down, for the models seen and the default model.
AutoHarvest(k, account) ==
  /\ prober[Worker].pc = "idle"
  /\ enabled /\ PoolSize > 0
  /\ k \in Known \/ k[2] = DefaultModel
  /\ account \in Resolutions(k)
  /\ EnsureJob(k, account)
  /\ UNCHANGED <<now, enabled, fallback, pauseUntil, gentle, prober, requestVars,
                 disk, restarts, history>>

\* A thread takes up a job: it keeps a handle on the store of that moment.
TakeUp(p, k) ==
  prober' = [prober EXCEPT ![p] = [IdleProber EXCEPT !.pc = "picked", !.key = k,
                                                      !.store = Len(stores[k])]]

\* next_due_job() finds a job.
PickDue(k) ==
  /\ prober[Worker].pc = "idle"
  /\ enabled /\ ~Paused
  /\ k \in Eligible
  /\ \E passed \in SUBSET (Scope \ {k}), asked \in SUBSET DefaultJobs :
       /\ (PreferDefault /\ ~DefaultDue) => DefaultJobs \subseteq passed
       /\ Scanned(asked \cup {k}, passed)
  /\ TakeUp(Worker, k)
  /\ UNCHANGED <<now, enabled, fallback, pauseUntil, gentle, requestVars,
                 disk, restarts, history>>

\* next_due_job() finds none: every job was looked at.
PickNone ==
  /\ prober[Worker].pc = "idle"
  /\ enabled /\ ~Paused
  /\ Eligible = {}
  /\ \E asked \in SUBSET DefaultJobs : Scanned(asked, Known)
  /\ UNCHANGED <<now, enabled, fallback, pauseUntil, gentle, prober, requestVars,
                 disk, restarts, history>>

\* harvest_diagnostics(run): an operator harvests a job at once.
HarvestNow(p, k) ==
  /\ prober[p].pc = "idle"
  /\ k \in Known
  /\ TakeUp(p, k)
  /\ UNCHANGED <<now, runtimeVars, requestVars, disk, restarts, history>>

-----------------------------------------------------------------------------
(* probe_job(): a round of attempts.                                       *)

\* The store a prober holds on to, which may not be the job's any more.
Held(p) == stores[prober[p].key][prober[p].store]

\* round_attempts() without a state at hand.
FreshBudget ==
  IF gentle THEN 1
  ELSE IF PoolSize < 1 THEN 1
  ELSE IF PoolSize > HarvestAttempts THEN HarvestAttempts
  ELSE PoolSize

\* A rejection came between the choice of the job and its round.
RefuseRound(p) ==
  LET k == prober[p].key IN
  /\ prober[p].pc = "picked"
  /\ Rejected(k)
  /\ jobs' = [jobs EXCEPT ![k].next = now + RejectCooldown]
  /\ prober' = [prober EXCEPT ![p] = IdleProber]
  /\ UNCHANGED <<now, stores, enabled, fallback, pauseUntil, gentle, requestVars,
                 disk, restarts, history>>

\* run_probe_round() lets go of a job that has a state by now.
SkipSatisfied(k) ==
  /\ prober[Worker].pc = "picked" /\ prober[Worker].key = k
  /\ AcquireResult(StoreOf(k), now) # None
  /\ stores' = UpdateCurrent(stores, k, Acquire(StoreOf(k), now))
  /\ prober' = [prober EXCEPT ![Worker] = IdleProber]
  /\ UNCHANGED <<now, jobs, enabled, fallback, pauseUntil, gentle, requestVars,
                 disk, restarts, history>>

BeginRound(p) ==
  LET k == prober[p].key IN
  /\ prober[p].pc = "picked"
  /\ ~Rejected(k)
  /\ jobs' = [jobs EXCEPT ![k].next = now + ProbeCooldown]
  /\ stores' = UpdateStore(stores, k, prober[p].store, Acquire(Held(p), now))
  /\ prober' = [prober EXCEPT
       ![p].pc = "attempt",
       ![p].start = now,
       ![p].attempt = 1,
       ![p].budget = IF AcquireResult(Held(p), now) # None
                     THEN HarvestAttempts ELSE FreshBudget]
  /\ late' = [late EXCEPT ![p] = 0]
  /\ UNCHANGED <<now, enabled, fallback, pauseUntil, gentle, requestVars,
                 disk, restarts, issued, verified, withdrawn>>

\* A rejection heard of is not looked at.
GoesOnBlindly(p) ==
  /\ prober[p].result # "settled"
  /\ prober[p].result # "unavailable"
  /\ prober[p].attempt < prober[p].budget

\* One attempt too many.
GoesOnOnce(p) ==
  /\ prober[p].result # "settled"
  /\ prober[p].result # "unavailable"
  /\ ~Rejected(prober[p].key)
  /\ prober[p].attempt <= prober[p].budget

\* After an attempt: the round goes on, or stops.  Only a success, a missing
\* credential, a rejection or the last attempt stop it.
GoesOn(p) ==
  /\ prober[p].result # "settled"
  /\ prober[p].result # "unavailable"
  /\ ~Rejected(prober[p].key)
  /\ prober[p].attempt < prober[p].budget

\* last_probe_degraded() is read anew after every attempt.
Degraded(p) ==
  prober[p].result # "settled" /\ jobs[prober[p].key].seen = "degraded"

Judge(p) ==
  /\ prober[p].pc = "judge"
  /\ prober' = [prober EXCEPT
       ![p].pc = IF GoesOn(p) THEN "attempt" ELSE "end",
       ![p].attempt = IF GoesOn(p) THEN @ + 1 ELSE @,
       ![p].degraded = Degraded(p)]
  /\ late' = IF Rejected(prober[p].key) THEN late ELSE [late EXCEPT ![p] = 0]
  /\ UNCHANGED <<now, runtimeVars, requestVars, disk, restarts, issued, verified, withdrawn>>

\* harvest_cooldown()
RoundCooldown(p) ==
  IF prober[p].result = "settled" THEN ProbeCooldown
  ELSE IF prober[p].degraded THEN DegradedCooldown
  ELSE FailCooldown

EndRound(p) ==
  /\ prober[p].pc = "end"
  /\ jobs' = [jobs EXCEPT ![prober[p].key].next = prober[p].start + RoundCooldown(p)]
  /\ prober' = [prober EXCEPT ![p] = IdleProber]
  /\ UNCHANGED <<now, stores, enabled, fallback, pauseUntil, gentle, requestVars,
                 disk, restarts, history>>

-----------------------------------------------------------------------------
(* probe_once() and replay_with_state(): one upstream call and what is done *)
(* with its answer.                                                        *)

Called(p) ==
  late' = IF Rejected(prober[p].key) THEN [late EXCEPT ![p] = @ + 1] ELSE late

Finish(p, result) ==
  prober' = [prober EXCEPT ![p].pc = "judge", ![p].result = result, ![p].token = None]

\* The call fails, the status is some other error, or the answer has no state.
ProbeFails(p, result) ==
  /\ prober[p].pc = "attempt"
  /\ result \in {"failed", "unavailable"} \cap ProbeReplies
  /\ Record(prober[p].key, stores, "failed")
  /\ Finish(p, result)
  /\ Called(p)
  /\ UNCHANGED <<now, enabled, fallback, pauseUntil, gentle, requestVars,
                 restarts, issued, verified, withdrawn>>

\* The credential cannot be resolved, which may be for want of one, or the
\* value of the state does not parse: the error is passed up, unrecorded.
ProbeUnrecorded(p, result) ==
  /\ prober[p].pc = "attempt"
  /\ "unrecorded" \in ProbeReplies
  /\ result \in {"unrecorded", "unavailable"} \cap ProbeReplies
  /\ Finish(p, result)
  /\ Called(p)
  /\ UNCHANGED <<now, runtimeVars, requestVars, disk, restarts, issued, verified, withdrawn>>

\* 401, 403 or 429.
ProbeRejected(p, status, retryAfter) ==
  LET k == prober[p].key IN
  /\ prober[p].pc = "attempt"
  /\ "rejected" \in ProbeReplies
  /\ jobs' = [jobs EXCEPT ![k].limit = Limited(@, status, retryAfter, now),
                          ![k].next = now + Longer(RejectCooldown, retryAfter)]
  /\ Finish(p, "rejected")
  /\ Called(p)
  /\ UNCHANGED <<now, stores, enabled, fallback, pauseUntil, gentle, requestVars,
                 disk, restarts, issued, verified, withdrawn>>

\* 5xx: pause_harvest() stops the choice of further jobs for a while.
ProbeOverloaded(p) ==
  /\ prober[p].pc = "attempt"
  /\ "overloaded" \in ProbeReplies
  /\ gentle' = TRUE
  /\ pauseUntil' = Longer(pauseUntil, now + OverloadPause)
  /\ Record(prober[p].key, stores, "failed")
  /\ Finish(p, "overloaded")
  /\ Called(p)
  /\ UNCHANGED <<now, enabled, fallback, requestVars, restarts, issued, verified, withdrawn>>

\* 312 bytes, or an answer of another model.
ProbeDegraded(p) ==
  /\ prober[p].pc = "attempt"
  /\ "degraded" \in ProbeReplies
  /\ Record(prober[p].key, stores, "degraded")
  /\ Finish(p, "degraded")
  /\ Called(p)
  /\ UNCHANGED <<now, enabled, fallback, pauseUntil, gentle, requestVars,
                 restarts, issued, verified, withdrawn>>

\* A candidate state from the requested model: it is to be replayed.
ProbeIssues(p, t) ==
  /\ prober[p].pc = "attempt"
  /\ "issued" \in ProbeReplies
  /\ Issuable(t)
  /\ Issue(prober[p].key, t)
  /\ prober' = [prober EXCEPT ![p].pc = "replay", ![p].token = t]
  /\ Called(p)
  /\ UNCHANGED <<now, runtimeVars, requestVars, disk, restarts, verified, withdrawn>>

\* The replay fails, for want of a credential perhaps, or has a status other
\* than 2xx: nothing is recorded, not even that it was a rejection.
ReplayUnrecorded(p, result) ==
  /\ prober[p].pc = "replay"
  /\ result \in {"unrecorded", "unavailable", "rejected"} \cap ProbeReplies
  /\ Finish(p, result)
  /\ Called(p)
  /\ UNCHANGED <<now, runtimeVars, requestVars, disk, restarts, issued, verified, withdrawn>>

\* The replay is answered with 312 bytes or by another model.
ReplayFails(p) ==
  /\ prober[p].pc = "replay"
  /\ "failed" \in ProbeReplies
  /\ Record(prober[p].key, stores, "failed")
  /\ Finish(p, "failed")
  /\ Called(p)
  /\ UNCHANGED <<now, enabled, fallback, pauseUntil, gentle, requestVars,
                 restarts, issued, verified, withdrawn>>

\* The replay is answered by the requested model: the state is offered to the
\* store the prober holds, under the lock of that store alone ...
ReplayPasses(p) ==
  LET k == prober[p].key
      t == prober[p].token
  IN
  /\ prober[p].pc = "replay"
  /\ stores' = UpdateStore(stores, k, prober[p].store, Offer(Held(p), t, now))
  /\ gentle' = (gentle /\ ~OfferResult(Held(p), t, now))
  /\ verified' = [verified EXCEPT ![k] = @ \cup {t}]
  /\ prober' = [prober EXCEPT ![p].pc = "passed", ![p].token = None]
  /\ Called(p)
  /\ UNCHANGED <<now, jobs, enabled, fallback, pauseUntil, requestVars, disk, restarts,
                 issued, withdrawn>>

\* ... and later, under the lock of the jobs, it is recorded and saved.
RecordPassed(p) ==
  /\ prober[p].pc = "passed"
  /\ Record(prober[p].key, stores, "verified")
  /\ Finish(p, "settled")
  /\ UNCHANGED <<now, enabled, fallback, pauseUntil, gentle, requestVars, restarts,
                 history>>

-----------------------------------------------------------------------------
(* The request path: intercept_before, intercept_after_auth, the response  *)
(* hooks and the completion of a request.                                  *)

\* The host runs one callback at a time; the one that looks a job up and then
\* uses it is the only one that takes two steps.
HostFree == \A r \in Requests : req[r].pc # "looked"

Strict == enabled /\ fallback = "strict"

\* intercept_before() lets a generation request through: the check is off, the
\* lock on the jobs is taken by another thread, the key it names (none, when
\* the host has not chosen a credential yet) is rejected, or it has a state.
Admit(r, k) ==
  /\ HostFree
  /\ req[r].pc = "new"
  /\ \/ UNCHANGED stores
     \/ /\ Strict /\ k \in Known /\ ~Rejected(k)
        /\ AcquireResult(StoreOf(k), now) # None
        /\ stores' = UpdateCurrent(stores, k, Acquire(StoreOf(k), now))
  /\ req' = [req EXCEPT ![r].pc = "admitted"]
  /\ UNCHANGED <<now, jobs, enabled, fallback, pauseUntil, gentle, prober,
                 inflight, modes, observed, disk, restarts, history>>

\* It answers 503 in the upstream's place.
Refuse(r, k) ==
  /\ HostFree
  /\ req[r].pc = "new"
  /\ Strict
  /\ \/ k \notin Known /\ UNCHANGED stores
     \/ /\ k \in Known /\ ~Rejected(k)
        /\ AcquireResult(StoreOf(k), now) = None
        /\ stores' = UpdateCurrent(stores, k, Acquire(StoreOf(k), now))
  /\ req' = [req EXCEPT ![r].pc = "refused"]
  /\ UNCHANGED <<now, jobs, enabled, fallback, pauseUntil, gentle, prober,
                 inflight, modes, observed, disk, restarts, history>>

\* intercept_after_auth() with injection off.
ForwardPlain(r, k) ==
  /\ HostFree
  /\ req[r].pc = "admitted"
  /\ ~enabled
  /\ req' = [req EXCEPT ![r].pc = "sent", ![r].key = k]
  /\ UNCHANGED <<now, runtimeVars, prober, inflight, modes, observed, disk, restarts, history>>

\* intercept_after_auth() finds the job of the credential the host has chosen
\* and keeps its store and a copy of its limit ...
LookUp(r, k, account) ==
  /\ HostFree
  /\ req[r].pc = "admitted"
  /\ enabled
  /\ account \in Resolutions(k)
  /\ EnsureJob(k, account)
  /\ req' = [req EXCEPT ![r] =
       [pc |-> "looked", key |-> k,
        store |-> Len(StoresWith(k, account)[k]),
        limit |-> JobsWith(k, account)[k].limit]]
  /\ UNCHANGED <<now, enabled, fallback, pauseUntil, gentle, prober, inflight, modes,
                 observed, disk, restarts, history>>

\* ... and injects the state of that store, unless that copy forbids it.
Inject(r) ==
  LET k == req[r].key
      st == stores[k][req[r].store]
      mode == IF Rejecting(req[r].limit, now) THEN "upstream-rejected"
              ELSE IF AcquireResult(st, now) # None THEN "injected"
              ELSE "fallback-passthrough"
  IN
  /\ req[r].pc = "looked"
  /\ stores' = IF mode = "upstream-rejected" THEN stores
               ELSE UpdateStore(stores, k, req[r].store, Acquire(st, now))
  /\ inflight' = IF mode = "injected"
                 THEN [inflight EXCEPT ![r] =
                        [key |-> k, snapshot |-> AcquireResult(st, now)]]
                 ELSE inflight
  /\ modes' = [modes EXCEPT ![r] = mode]
  /\ req' = [req EXCEPT ![r] = [NewRequest EXCEPT !.pc = "sent", !.key = k]]
  /\ UNCHANGED <<now, jobs, enabled, fallback, pauseUntil, gentle, prober, observed,
                 disk, restarts, history>>

\* Every chunk of a response is observed.
MarkObservedAlways(r) == observed' = observed \cup {r}

\* The first response of a request is observed; the set of those seen is
\* emptied when it has grown too large.
MarkObserved(r) ==
  LET kept == IF Cardinality(observed) > ObservedLimit THEN {} ELSE observed
  IN  /\ r \notin kept
      /\ observed' = kept \cup {r}

\* record_rejection() on the job of a response.
LimitAfter(job, status, retryAfter) ==
  IF status \in RejectedStatus
  THEN [job EXCEPT !.limit = Limited(@, status, retryAfter, now),
                   !.next = now + Longer(RejectCooldown, retryAfter)]
  ELSE job

Answerable(r) == HostFree /\ req[r].pc \in {"sent", "answered"}

\* What every observed response does, whatever state it carries.
Answered(r) ==
  /\ Answerable(r)
  /\ MarkObserved(r)
  /\ req' = [req EXCEPT ![r].pc = "answered"]
  /\ modes' = [modes EXCEPT ![r] = None]
  /\ UNCHANGED <<now, enabled, fallback, pauseUntil, gentle, prober, inflight,
                 disk, restarts, verified, late>>

\* The response has no state, or one that cannot be read while none was injected.
RespondPlain(r, status, retryAfter) ==
  LET k == req[r].key IN
  /\ Answered(r)
  /\ jobs' = IF k \in Known
             THEN [jobs EXCEPT ![k] = LimitAfter(@, status, retryAfter)] ELSE jobs
  /\ UNCHANGED <<stores, issued, withdrawn>>

\* The response carries the degradation signal to a request with a state: that
\* state is withdrawn.
RespondWithdraws(r, status, retryAfter) ==
  LET k == req[r].key
      used == inflight[r].snapshot
  IN
  /\ inflight[r] # None
  /\ Answered(r)
  /\ IF k \in Known
     THEN /\ jobs' = [jobs EXCEPT ![k] =
                       [LimitAfter(@, status, retryAfter) EXCEPT !.next = now, !.seen = "revoked"]]
          /\ stores' = UpdateCurrent(stores, k, RejectAndPromote(StoreOf(k), used, now))
          /\ withdrawn' = IF IsCurrent(StoreOf(k), used)
                          THEN [withdrawn EXCEPT ![k] = @ \cup {used.token}] ELSE withdrawn
     ELSE UNCHANGED <<jobs, stores, withdrawn>>
  /\ UNCHANGED issued

\* The degradation signal answers a request without a state: the job gets a
\* new, empty store.
RespondReplaces(r, status, retryAfter) ==
  LET k == req[r].key IN
  /\ inflight[r] = None
  /\ Answered(r)
  /\ IF k \in Known
     THEN /\ jobs' = [jobs EXCEPT ![k] =
                       [LimitAfter(@, status, retryAfter) EXCEPT !.next = now, !.seen = "revoked"]]
          /\ stores' = [stores EXCEPT ![k] = Append(@, NewStore(StoreOf(k).blocks))]
     ELSE UNCHANGED <<jobs, stores>>
  /\ UNCHANGED <<issued, withdrawn>>

\* The response carries another value (the one sent, perhaps): it is held
\* against the state injected, or, when none was, offered to the store.
RespondState(r, status, retryAfter, t) ==
  LET k == req[r].key IN
  /\ Answered(r)
  /\ Issuable(t) \/ (inflight[r] # None /\ t = inflight[r].snapshot.token)
  /\ Issue(k, t)
  /\ IF k \in Known
     THEN /\ jobs' = [jobs EXCEPT ![k] = LimitAfter(@, status, retryAfter)]
          /\ stores' = UpdateCurrent(stores, k,
               IF inflight[r] # None
               THEN Observe(StoreOf(k), ~Accept(StoreOf(k).blocks, t, now), inflight[r].snapshot)
               ELSE Offer(StoreOf(k), t, now))
     ELSE UNCHANGED <<jobs, stores>>
  /\ UNCHANGED withdrawn

\* A value that does not parse counts against the state injected.
RespondGarbled(r, status, retryAfter) ==
  LET k == req[r].key IN
  /\ inflight[r] # None
  /\ Answered(r)
  /\ IF k \in Known
     THEN /\ jobs' = [jobs EXCEPT ![k] = LimitAfter(@, status, retryAfter)]
          /\ stores' = UpdateCurrent(stores, k,
                         Observe(StoreOf(k), TRUE, inflight[r].snapshot))
     ELSE UNCHANGED <<jobs, stores>>
  /\ UNCHANGED <<issued, withdrawn>>

\* complete_request(), with or without a response before it.
Complete(r) ==
  /\ HostFree
  /\ req[r].pc \in {"admitted", "refused", "sent", "answered"}
  /\ req' = [req EXCEPT ![r] = [NewRequest EXCEPT !.pc = "done"]]
  /\ inflight' = [inflight EXCEPT ![r] = None]
  /\ observed' = observed \ {r}
  /\ UNCHANGED <<now, runtimeVars, prober, modes, disk, restarts, history>>

-----------------------------------------------------------------------------
(* The operator's switches and the restart of the plugin.                  *)

SetInjection(on) ==
  /\ "injection" \in Switches
  /\ HostFree
  /\ enabled' = on
  /\ UNCHANGED <<now, jobs, stores, fallback, pauseUntil, gentle, prober, requestVars,
                 disk, restarts, history>>

SetFallback(choice) ==
  /\ "fallback" \in Switches
  /\ HostFree
  /\ fallback' = choice
  /\ UNCHANGED <<now, jobs, stores, enabled, pauseUntil, gentle, prober, requestVars,
                 disk, restarts, history>>

\* A state due for renewal is not restored.
RestoredFresh(k) ==
  /\ disk[k] # None
  /\ Accept(Blocks(disk[k].account), disk[k].token, now)
  /\ now + RefreshBefore <= disk[k].token.issued + TTL

\* restore_jobs(): a job for every saved state that is still acceptable.
Restored(k) ==
  disk[k] # None /\ Accept(Blocks(disk[k].account), disk[k].token, now)

\* Everything but the file starts anew; requests under way in the host go on.
Restart ==
  /\ restarts < MaxRestarts
  /\ restarts' = restarts + 1
  /\ HostFree
  /\ jobs' = [k \in Keys |->
       IF Restored(k)
       THEN [account |-> disk[k].account, next |-> 0, limit |-> NewLimit, seen |-> "none"]
       ELSE None]
  /\ stores' = [k \in Keys |->
       IF Restored(k)
       THEN <<Offer(NewStore(Blocks(disk[k].account)), disk[k].token, now)>>
       ELSE <<>>]
  /\ enabled' = TRUE
  /\ fallback' = "passthrough"
  /\ pauseUntil' = 0
  /\ gentle' = FALSE
  /\ prober' = [p \in Probers |-> IdleProber]
  /\ inflight' = [r \in Requests |-> None]
  /\ modes' = [r \in Requests |-> None]
  /\ observed' = {}
  /\ late' = [p \in Probers |-> 0]
  /\ UNCHANGED <<now, req, disk, issued, verified, withdrawn>>

-----------------------------------------------------------------------------
Choose ==
  \/ \E k \in Keys, account \in {"personal", "team"} : AutoHarvest(k, account)
  \/ \E k \in Keys : PickDue(k)
  \/ PickNone
  \/ \E p \in Operators, k \in Keys : HarvestNow(p, k)

Round(p) ==
  \/ RefuseRound(p)
  \/ p = Worker /\ \E k \in Known : SkipSatisfied(k)
  \/ BeginRound(p)
  \/ Judge(p)
  \/ EndRound(p)

Probe(p) ==
  \/ \E result \in ProbeReplies : ProbeFails(p, result)
  \/ \E result \in ProbeReplies : ProbeUnrecorded(p, result) \/ ReplayUnrecorded(p, result)
  \/ \E status \in RejectedStatus \cap Statuses, retryAfter \in RetryAfters :
       ProbeRejected(p, status, retryAfter)
  \/ ProbeOverloaded(p)
  \/ ProbeDegraded(p)
  \/ \E t \in Tokens : ProbeIssues(p, t)
  \/ ReplayFails(p)
  \/ ReplayPasses(p)
  \/ RecordPassed(p)

Send(r) ==
  \/ \E k \in Keys \cup {None} : Admit(r, k) \/ Refuse(r, k)
  \/ \E k \in Keys : ForwardPlain(r, k)
  \/ \E k \in Keys, account \in {"personal", "team"} : LookUp(r, k, account)
  \/ Inject(r)

Respond(r) ==
  \E status \in Statuses, retryAfter \in RetryAfters :
    \/ RespondPlain(r, status, retryAfter)
    \/ RespondWithdraws(r, status, retryAfter)
    \/ RespondReplaces(r, status, retryAfter)
    \/ \E t \in Tokens : RespondState(r, status, retryAfter, t)
    \/ RespondGarbled(r, status, retryAfter)

Operate ==
  \/ \E on \in BOOLEAN : SetInjection(on)
  \/ \E choice \in {"strict", "passthrough"} : SetFallback(choice)

Next ==
  \/ Tick
  \/ Choose
  \/ \E p \in Probers : Round(p) \/ Probe(p)
  \/ \E r \in Requests : Send(r) \/ Respond(r) \/ Complete(r)
  \/ Operate
  \/ Restart

Spec == Init /\ [][Next]_vars
=============================================================================
