# A verification project for FixGPT

FixGPT is a plugin for a request gateway (the *host*).  The upstream hands out
*turn-states*: opaque values that decide which model serves a conversation.  The
plugin harvests good turn-states in the background, injects them into requests,
watches the responses for the signal that one has gone bad, and keeps one store
of them for each account and model.  It is written in Rust: `fixgpt-core` (store, policy,
credential limit, token format), `cpa-plugin` (the service, some 3000 lines and its
tests) and `modeltrace-core` (statistics of a model test).

This directory holds TLA+ models of the parts whose correctness depends on the
order in which threads, requests and upstream answers meet, the TLC
configurations that check them, and TLAPS proofs.  Line numbers refer to
`crates/cpa-plugin/src/runtime.rs` unless another file is named.

Run a check with `tlc -config X.cfg M`, a proof with `tlapm M_proofs.tla`; the
pairs of module and configuration are listed under *Runs*.

## 1. The system

### Actors

| actor | what it does | guarded by |
|---|---|---|
| host callbacks | `intercept_before`, `intercept_after_auth`, `intercept_response`, `intercept_stream_chunk`, `complete_request` | the host makes one at a time (1879) |
| worker thread | `worker_loop`: scan accounts, choose a due job, run a round of harvest attempts | locks on `jobs`, on each store, on each mark map |
| management threads | `handle_management`: harvest at once, switch injection or the fallback, start a model test, render pages | the same locks |
| model test threads | `start_modeltrace_task`, one thread per task and one per call with a timeout | locks on tasks and results |
| upstream | answers with a state, without one, with the 312-byte signal, another model, 401/403/429, 5xx, or not at all | nothing |

### Components

| component | state | operations | hard behaviour | what makes it correct |
|---|---|---|---|---|
| **StateStore** (`store.rs`, `policy.rs`) | active snapshot, queued renewal, version counter, strikes | `acquire`, `offer`, `observe`, `needs_refresh`, `reject_and_promote` | late feedback about a snapshot that has been replaced; a clock that jumps; a renewal queued behind itself | a version names one token; a withdrawn version never comes back; a healthy snapshot is not replaced; a usable renewal never waits behind an empty slot |
| **CredentialLimit** (`credential.rs`) | blocked, status, until | `reject`, `rejection` | 401 and 429 in any order with any Retry-After | no deadline is shortened, no verdict is forgotten, nothing is withheld without a reason |
| **Jobs and harvest rounds** (1094-1735) | job per key: store, account, limit, next_probe, last observation; pause, gentle mode | `ensure_job`, `due_job`, `probe_job`, `probe_once`, `replay_with_state` | two threads harvest one job; a rejection arrives in the middle of a round; the job gets another store while a round holds the old one | a rejected credential is not hammered; a verified state is served; limits never loosen |
| **Request path** (1795-2005, 2767-2917) | inflight, modes, observed | the five callbacks | responses in any order and in chunks; a harvest in between; the signal to a request without a state | a response costs only the state its request carried; a withdrawn state is not injected; a response counts once |
| **State file** (170-251) | `turn-state.json` | `save_states`, `restore_jobs` | a restart at any point | a saved state that is still acceptable is restored, for its own account and model |
| **Egress pool** (950-1092, 1384-1395) | pool, cursor, failure marks, quality marks | `next_egress`, `note_egress`, `note_egress_good`, `note_egress_degraded`, `apply_egress_pool` | notes of several threads on one node; the pool changes under way; the marks are pruned | a failed node rests out its cooldown; a proven node that is awake is preferred |
| **Operator switches** (2686-2696) | injection_enabled, fallback policy | `set_injection`, `set_fallback` | a switch between two callbacks of one request | part of the request path |
| **Worker scheduling** (136-168, 735-842, 1103-1146, 1297-1340) | next_probe of every job, the pause, the age of the last scan | `worker_loop`, `next_due_job`, `run_probe_round`, `maybe_auto_harvest`, `harvest_diagnostics` | the first due job in hash-map order is taken each time; a round lasts as long as the host's calls; the operator harvests jobs that rest; requests change next_probe during a round | a round leaves its job a rest unless the upstream spoke about it; the default model is harvested whatever else is due; a job that wants a state gets its turn |
| **Start, stop, quiesce** (369-390, 683-733) | running flag, thread handles | `start_worker`, `stop_worker`, `quiesce` | threads that outlive the bounded wait; tests started during it | nothing runs in unmapped code; a new start finds a clean state |
| **Model test** (`modeltrace.rs`, 2425-2584) | tasks, results, result file | start, update, finish, fail | timeouts that leave a thread behind, retries, two tasks for one account | a task ends; late answers change nothing |
| **Data files** (89-134, 170-196, 253-307, 2503-2541) | three files and their temporary ones, in the first directory that can be written | the saves of states, counts and test results; the loads of a start | a crash in the middle of a write, a directory that comes and goes, two threads that save the same file | a file is whole and of its kind; no older snapshot replaces a newer one |
| **Names of credentials** (214-248, 746-879, 2707-2737, 2988-2999) | none | `request_key`, the names of a list entry, `resolve_auth_id_values`, the key a saved state comes back under | the host may leave out the id, the index or both | a job belongs to one credential |
| **Token format** (`token.rs`) | none | `TurnState::parse` | integer division of lengths, padding, blanks | 292 bytes are 10 blocks, 332 bytes 12, and 312 bytes no state |
| **Host calls** (`host.rs`, 392-412) | none | `request`, `request_json`, `credential_unavailable` | an error has a code and a message, either of which may be missing | a credential that is gone ends the round and no node is blamed for it |
| **Scoring** (`modeltrace-core`) | none | numbers in a text, minima, blocks and bins; floating-point statistics | two formulas for how many numbers are enough | an answer the runner counts is one the scorer can use |
| **Pages, ABI dispatch, scripts** | counters for display | rendering, JSON, C buffers | - | - |

### Interaction

A request passes `intercept_before` (strict policy: refuse if there is no state),
`intercept_after_auth` (make or find the job, copy its limit, release the lock,
inject the store's state), then its response reaches `observe_response_with` once
per chunk, and `complete_request` removes its traces.  The response changes the
*store of the job*, which harvest rounds hold by reference from the moment they
took the job up.  The limit is written by rounds and by responses and read by
both.  The file is written only by `record_observation`, at the end of an attempt,
for all jobs, and read only at start.  The worker chooses among the jobs by their
`next_probe`, which a round writes when it begins and when it ends, and a response
writes at any time in between; the rounds an operator orders from a management thread write
it as the worker's do, and look at no rest before they begin.

## 2. Modules

| module | models | lines of code it stands for |
|---|---|---|
| `StoreOps` | the methods of `StateStore` and `StatePolicy::accept` as functions of a store value | `store.rs`, `policy.rs` |
| `StateStore` | one store over its life: every sequence of calls, holders of old snapshots, a clock that jumps | `store.rs` |
| `SnapshotSlot` | the abstract specification: a slot that holds one numbered token | - |
| `StateStore_proofs` | theorems about `StateStore` | - |
| `LimitOps`, `CredentialLimit`, `CredentialLimit_proofs` | the credential limit: functions, life, theorems | `credential.rs` |
| `Runtime` | jobs, rounds, request path, switches, file and restart; composes `StoreOps` and `LimitOps` | `runtime.rs` |
| `RuntimeSafety` | the properties of `Runtime` that hold | - |
| `RuntimeClaims` | sentences of the documents that the code contradicts | - |
| `Runtime_proofs` | theorems about `Runtime` and `RuntimeSafety` | - |
| `Scheduler`, `Scheduler_proofs` | the turns of the worker among several jobs and the rounds of operators beside it, with relative timers; theorems | `runtime.rs` 45-87, 136-168, 735-842, 1103-1146, 1297-1340, 1369-1454 |
| `HarvestCadence` | the abstract specification of `Scheduler`: who may begin a round, and the rest it leaves | - |
| `EgressPool`, `EgressPool_proofs` | the egress pool, lock by lock; theorems | `runtime.rs` 950-1092, 1384-1642 |
| `ModelTrace`, `ModelTrace_proofs` | start and stop of the threads, the test tasks with their challenges, retries and timeouts; theorems | `runtime.rs` 683-745, 2425-2551, `modeltrace.rs` 180-432 |
| `DataFiles`, `DataFiles_proofs` | saves, failures, crashes and starts, one step per system call; theorems | `runtime.rs` 89-134, 170-196, 253-307, 2503-2541 and the callers of the saves |
| `Answers` | a piece of input is read, after another one, in any order | - |
| `TurnState` | the envelope of a header line and what its length tells | `token.rs`, `runtime.rs` 2811-2819 |
| `Scoring` | numbers of an answer, minima, blocks and bins | `modeltrace-core` |
| `HostAnswers` | what a call to the host comes to | `host.rs` 34-98, `runtime.rs` 392-412, 1418-1430, 1493-1507 |
| `Identity` | names of credentials and the keys made of them | `runtime.rs` 214-248, 746-879, 2707-2737, 2988-2999 |
| `Answers_proofs` | theorems about the four modules that extend `Answers` | - |
| `MCStateStore`, `MCRuntime`, `MCEgressPool`, `MCDataFiles`, `MCAnswers` | small instances; `MCAnswers` composes `CredentialLimit` with the four modules that extend `Answers` | - |

The methods of the store hold the store's mutex for their whole body, so each is
one function; the operator with the method's name is the store it leaves behind,
`...Result` is what it returns.  `StateStore` keeps every snapshot ever handed out
(`held`) so that late feedback may name any of them.

`Runtime` takes one step per stretch of code that cannot be told apart from an
atomic one by other threads.  `intercept_after_auth` is two steps (`LookUp`,
`Inject`), because the lock on the jobs is released in between; a harvest attempt
is a step per upstream call (`ProbeIssues`, then `ReplayPasses`, which offers the state under the lock of
its store), then `RecordPassed`, which records and saves under the lock on the jobs, then `Judge`, which
reads the shared job anew, then `EndRound`, which takes the lock again.  Stores that
were replaced stay in `stores[k]` (a sequence, the last one is the job's), because a
round or a request may still hold them.  Three history variables
(`issued`, `verified`, `withdrawn`) and a counter (`late`) are read by properties only.

`Scheduler` takes the other view of the same rounds: several jobs, every path through a
turn of `worker_loop`, the operators whose `harvest_diagnostics` runs `probe_job` for the jobs they
listed (`Askable`, `todo`), and of a store only whether it is empty, to be renewed or fresh.  `hand` says
where each harvester stands: the worker in its loop, an operator at a round or not, with the ticks it has
spent there.  A round is a step that begins it, any number of ticks, and a step that ends it, if it ever
does; its attempts are those of `Runtime`.  All timers are relative, so there is no last instant.  In the
abstract specification `HarvestCadence` the worker chooses a job that has rested, operators choose any, and
a round leaves its job what is left of a `Gap` that began with it.  The refinement maps `chosen` to the job
the worker has picked, `serving` to the rounds under way, `owed` to the part of the least cooldown
that a round has not used up, and `rest` to `next_probe`.

`DataFiles` abstracts a file to the kind and the version of what is in it, and whether it
is whole.  A save is the steps the code makes of it: choose a directory, open (which
empties) the temporary file, fill it, rename it; each may fail, and the process may die
between any two.  The lock of the kind is held throughout, since the code saves
under the lock of what it saves.

The modules that extend `Answers` are functions of one input, with no memory; their
properties compare what two parts of the code make of the same input (parser and store,
runner and scorer, request and scan).

`EgressPool` models what `Runtime` leaves out of an attempt: the node.  It has one
step per lock taken, since cursor, pool, failure marks and quality marks are locked
separately.  A note takes the clock at the moment of the lock.

`ModelTrace` holds every thread that outlives a callback.  `loop` is where a worker
stands, `thread` where a test stands: `begin` (spawned), `next` (at the head of the loop of
`probe_with_progress`, where the flag is read), `call` (a challenge is put, or the sleep
before a retry), `waiting` (in `recv_timeout`).  `stop` is the body of `stop_worker`:
the handles it waits for and whether the grace is over.  Management threads
start tests at any moment, also while a stop waits; `seen` keeps which threads a stop ran out of time on
(`outlived`) and which were started during one (`intruded`).  Time is relative: `waited` counts
the ticks of a call and `idle` those since a task's last update, each up to the
constant it is compared with, so no clock runs out.  The thread of a call that ran into its timeout is
left out: it only sends into a closed channel.  So is the pause of a turn of the worker, and what
the turn does (that is `Runtime`): a worker can leave when the flag is down, and one that
has not done so when the flag goes up again goes on.

### Assumptions on the outside

- The upstream issues no value twice and none from the future (`Issuable`); a
  response may echo the value its request carried.
- The host makes one callback at a time; the management threads and the worker
  run beside them.  It sends nothing about a request after its completion.
- Every request of the model is a Codex generation request of a GPT model, so that
  `is_generation_request` and `request_key` are true of it.  The host
  resolves the account kind or fails to (`Resolutions`).
- A fingerprint identifies a token (SHA-256).
- `try_lock` may always fail: the strict check may always be skipped.
- In `Runtime` the file is written whole or not at all; `DataFiles` shows that it is, for crashes of
  the process.  A rename is atomic and what was written stays; a crash of the machine may undo
  either, and `fs::write` does not sync.  The directory is chosen in one step.
- A restart is modelled at any point.  Requests that the host has under way go on
  after it and reach a plugin that does not know them.

## 3. Runs

Passing runs:

| run | configuration | question | bounds |
|---|---|---|---|
| `store` | `StateStore.cfg`, `MCStateStore` | does a store keep its promises under every sequence of calls? | tokens of several ages and both shapes, instants before, inside and after each margin; `MaxVersion = 3` allows a state, its successor and the return of the first; `MaxBlame = 2` reaches the strike limit |
| `limit` | `Answers.cfg`, `MCAnswers` | deadlines, verdicts and reasons of a limit; how every kind of input is read | Retry-After absent, shorter and longer than the cooldown, four instants; header lines of 286 to 337 characters, around every length the code names, with up to three padding characters; texts of up to four groups of digits; tallies about every minimum; all answers of the host; two credentials with id, index, both or neither |
| `harvest` | `RuntimeHarvest.cfg`, `MCRuntime` | may the worker and an operator harvest one job at once? | two attempts per round (enough to go on or stop once), rejections, overloads, degraded answers, one state, three instants |
| `requests` | `RuntimeRequests.cfg`, `MCRuntime` | what do overlapping requests and a harvest do to the store, and is what was verified served and saved? | two requests, two states, all switches, one instant: here the order matters and not the time |
| `restart` | `RuntimeRestart.cfg`, `MCRuntime` | do states stay with their key and survive a restart? | two models of a team account, a worker, a request, one restart, rate limits of two lengths |
| `egress` | `EgressPool.cfg`, `MCEgressPool` | do marks keep their meaning when threads interleave with each other and with a change of the pool? | two urls, one of which gets another node; the pool may vanish; pruning starts above one mark instead of 512, two attempts per round |
| `modeltrace` | `ModelTrace.cfg` | does every test end, is it shown until then, and what is left of threads after a stop? | two tests of two challenges, started at any moment, two usable answers wanted, two calls per challenge, a timeout of one tick; a finished task is kept for one tick, so that a challenge may outlast it, as 3 x 240 s outlast 600 s; one stop, two starts |
| `scheduler` | `Scheduler.cfg` | what rest does the upstream get, and who gets a turn, when rounds last as long as they like? | two jobs of one credential, one of the default model, the worker and an operator; all cooldowns, the pause and the sleep are one tick, so that a round, or the other job's, outlasts them or does not, and a late end cuts the rest that the other harvester's round has left; a scan at each turn |
| `datafiles` | `DataFiles.cfg`, `MCDataFiles` | what may a crash, a full disk or a slow thread do to the files? | two directories that come and go, two threads, two changes of the states and one of the other kinds, any number of crashes |

What they show:

- `store`: `VersionNamesToken`, `ReadyDiffers`, `StrikesEarned`, `RevokedStaysOut`
  (a late answer can never hurt a successor, and a given-up snapshot does not come
  back under its number), `HealthyStays` (a renewal takes over only when due, or the
  active one is unusable or struck out), `NothingIdle` (no gap while a usable renewal is
  queued), `IsSlot` (the store implements `SnapshotSlot`).
- `limit`: `DeadlinesHonoured`, `WithheldForAReason`, `StatusIsTheVerdict`;
  `LengthTellsBlocks` and `SignalIsNoState` - the length of a value that parses stands for one number
  of blocks, and no state has the 312 bytes of the signal; `ParseFindsLongestRun`, against a
  definition without a loop; `ScorerUsesWhatRunnerCounts` - an answer that the runner counts as
  usable is long enough for the scorer, for every length a challenge asks for, and no
  slice runs past its end; `GoneCredentialIsSeen`; `KeysTellCredentialsApart` - two requests or list entries share
  a job only if they are the same credential's.
- `harvest`: `NoHammering` - after a rejection, whoever heard it, a thread makes at
  most the call under way and its replay.
- `requests`: `AnswerCostsOnlyUsed`, `StrikesNeedRequests`, `WithdrawnNotInjected`, `VerifiedServes`.
  The first needs the comparison of fingerprints in `reject_and_promote`: with versions
  alone it fails once a store has been replaced.  The last: a state that passed its replay serves as soon as it is
  offered to the store the job still has; between the offer and the record, and after it, nothing
  but a response, time or a restart costs a job what it serves; and after the record the file holds
  what each job serves at that moment.  Responses do come between the offer and the record here,
  and take a job's state or its store away.  With two harvesters it is proved, below.
- `restart`: `StatesStayHome`, `LimitNeverLoosens` (within one life of the plugin; a
  restart forgets limits, since they are not in the file), `RestartKeepsStates`.
- `egress`: `FailuresRest`, `ChoosesBest`.
- `modeltrace`: `ShownWhileAtWork` - no task is dropped from the page while its
  thread runs, however old its last update; `NoNewChallenge` - a stop leaves a test at most the
  calls of one challenge; `ReportsRestOnEnough` - a test completed on too few answers has
  put all its challenges or was met by a stop; `NoThreadForgotten` - a thread without a
  handle is one that a stop ran out of time on or that was started while one waited; `TestEnds` and `StopReturns` - the
  host need not answer for a test to end or a stop to return.
- `scheduler`: `KeepsCadence` - worker and operators implement `HarvestCadence`: the worker takes up no
  job that has not rested, a round leaves its job the rest that is counted from its beginning, and a rest is
  shortened by time, by an answer about that job, or by another harvester's round of it
  only.  That last case is the code's: the worker's 1800 s become what is left of an operator's 180 or 600.
  `NobodyStarves` - a job that for good wants a state and may be harvested gets a round, as
  long as the worker comes to its sleep now and then and overloads do not recur for ever.  `DefaultIsServed` -
  while a job of the default model stays without a state and may be harvested, one of that model is taken up again
  and again, sleep or no sleep, unless overloads recur or a round never ends.  The code promises neither that rounds
  end nor that the worker sleeps.  The calls to the host have no timeout, and with several jobs whose rounds together
  outlast their cooldowns the worker goes from round to round (740) and never reaches its sleep; then a
  job at the end of the hash map's order starves.
- `datafiles`: `NothingTorn`, `SavesLandInOrder`, `RestartLoadsLatest`.

The actors and values of a run are chosen so that each of its properties is refuted
by a plausible change of the code; the operators for those changes stand before the
definitions they vary, with a comment that says what is changed.

The type invariants of `StateStore`, `ModelTrace`, `Scheduler` and `DataFiles` are proved and not
among the properties of the runs.

Fairness is stated by two modules.  In `Scheduler` it is weak fairness of the worker's own steps
(`LoopStep`: an operating system thread that takes no lock for long, and a scan that the host answers) and of
time.  A round need not end, for anyone, so the properties that hold only if rounds do say so.
There is no fairness for requests, for the answers to them, or for the operator.  In
`ModelTrace` fairness serves `TestEnds` and `StopReturns`: the clock advances, the loop of `stop_worker` sees it, and a test thread takes its next step
when it can (it is an operating system thread that waits for nothing but
`recv_timeout` and a bounded sleep).  There is no fairness for `Answer`, `StartTask`, `Start`,
`StopBegins` and `WorkerLeaves`: the host may keep a call for ever, and nobody need start or stop anything.
All other properties are safety properties.

`RuntimeHarvest.cfg`, `RuntimeRequests.cfg` and `RuntimeRestart.cfg` stop at
`MaxTime`, but other steps stay possible, so deadlock is checked in every run but
those of `ModelTrace`: once all tests have ended and both starts are used, its system rests.

Refuting runs, each a disagreement between code and documents:

| run | what the documents say | what TLC finds |
|---|---|---|
| `refusal_ends_round` | 401/403/429 end the round (README.md:21, 1397), and a 5xx as they do (59-60) | a 5xx is an error like any other to the round, which goes on; a rejection of the *replay* is not even recorded |
| `only_used_is_dropped` | only the state really used is dropped (2825-2826) | the signal to a request without a state replaces the whole store |
| `running_handles_kept` | handles of threads still running are kept (722; "all must be joined before the unload", 628) | `retain(is_finished)` keeps the finished ones and drops the others: the stop at `plugin.quiesce` waits a second for a busy worker, the one at the shutdown for nobody |

TLC refuted the following as well, in variants of these runs.  They are kept here
for the reader, without a run of their own:

- A team account takes 12-block states (README.md:19): after one failed resolution its store takes
  10-block states for good (2396).
- The file is the one truth about states (209): a withdrawal is not saved, and a restart injects the
  state again (2829).
- A target that the host cools down is passed over (README.md:22): one that has a job is still taken up
  by the loop (793-794, 882-883).
- Injected states were replayed (README.md:12, 153): the state of a response to a
  plain request is stored and injected as it is (2861).
- `degraded_round` is the last attempt's alone, against "every egress" of 52 and 1400.
- In gentle mode a job that still has a state gets the full budget (985), against 650-651.
- An operator's harvest ignores the injection switch (1327), against 630.
- The limit is kept per account and model, not per credential (1513), against 2877-2878.
- A verified state is lost when a response replaced the store during the round (1632).
- The end of a round overwrites the `next_probe = now` of a withdrawal (1452), against 2811.
- Under contention the strict policy lets requests through (1880), against `policy.rs:72`.
- A replaced store starts its versions at one, against README.md:182.
- With more than 4096 requests open, a stream is counted more than once (2789), against 620-621.
- A test makes up to 18 calls (six challenges, three tries each), against the "at most 6" of README.md:144.
- After a stop and a new start two workers may harvest: the flag is up again before the
  first, stuck in a host call, has seen it down (`start_worker`, 691).  `NoThreadForgotten` admits it
  as one that outlived a stop.
- A stop in the middle of a test may leave a report of one or two answers, shown and kept as
  completed, and tests can be started after a stop; they fail without a call.
- A job that is due starves when rounds last as long as the cooldown, which is counted from the
  start of the round: the first job of the hash map is then due again when its round ends.  With more jobs short
  rounds do as well: what counts is whether the rounds of the others together outlast their cooldowns (`NobodyStarves`
  without its premise on the sleep).
- A model test started while `stop_worker` waits (it holds no lock then) pushes its handle, and the assignment at the
  end of the stop overwrites it (724-727), against the "all must be joined" of 628.  `NoThreadForgotten` without
  `seen.intruded` fails on this; with it, it says that no other thread is lost.
- A round of the worker is not followed by its sleep when it was the loop itself that found the job (740), against
  the "after each probe" of 26 and the "in between" of 1130-1131.
- When no job of the default model is due the worker harvests another model, although the default one has no state
  (`next_due_job` falls through, 1122-1124), against the "only" of 1113.
- A start that chooses another directory than the last save loads an older file, against 209 and 2525.
- `reject()` returns true for a 429 that changes nothing, against `credential.rs:49`; no
  caller reads the result.

Not refuted but read in the code:

- The sleep before a retry is not cut short by a stop, against 34-35, and the threads of calls
  that timed out have no handle at all.
- An attempt budget of eight calls in one round stands against "one probe at a time" of 1128-1130.
- A 312-byte answer to a plain request, or a 429, shortens what is left of a degraded job's wait:
  `record_rejection` sets `next_probe` without taking the maximum.
- The pause after a 5xx (900 s) is longer than the cooldown of a failed job (600 s), so a persistent 5xx
  of one credential keeps all of them from being harvested.
- `record_rejection` looks the job up by the key of the request with the model of the response.
- With only `selected_auth_index` the job's id is empty and a restart restores its state under a
  key that no request uses; an empty `selected_auth_id` hides the index; without either the
  key is the request's own id.
- An entry of `modes` stays when the response never comes.  A poisoned lock on the jobs makes
  `try_lock` (1880) fail for ever, which turns the strict policy off.  A save that fails is not noticed.

## 4. Proofs

TLAPS checks the following for all values of the constants that meet the named
assumptions.

`StateStore_proofs` (assumptions: `TokenAssumption`, `NoneAssumption`,
`TimeAssumption`, and those on the clock in `StateStore`).  The invariant
`IInv` joins the type invariant and the state invariants of the run `store` with two facts that
make them inductive: the counter stays within its bound, and no version above the counter
was ever withdrawn.  `VersionNamesToken` is part of it for the sake of the others: it bounds the
versions handed out, so that an installation always uses a new one.  Lemmas describe
once what `Promote`, `Offer` and `RejectAndPromote` may do to a store: leave the
slot alone, install a token under the next version, or empty it; every theorem then
argues by these three cases.

- `TypeCorrect`, `VersionIdentity`, `QueueDiffers`, `StrikesAreEarned`,
  `RevocationIsFinal`: the invariants of the run `store`.
- `HealthyIsKept`: the action property `HealthyStays`.
- `NothingStaysIdle`: the action property `NothingIdle`.  Whatever the clock did since the last call, a
  call that looks at the queue ends with a usable slot or without a usable renewal.
- `ImplementsSlot`: `Spec => IsSlot`, step simulation of `SnapshotSlot`.

`CredentialLimit_proofs` (`CooldownAssumption`, `RetryAssumption`).  The invariant
`Summary` says that the limit is an exact summary of the answers: blocked if and
only if there was a verdict, `until` the latest deadline, the status one received.

- `DeadlinesAreHonoured`, `WithheldOnlyForAReason`, `StatusIsHonest`.

`EgressPool_proofs` (`EgressAssumption`) has two invariants.  `IInv` is `FailuresRest` with the types of clock
and marks; there the threads' places do not matter, because each note is a single step.  The lemmas say
that pruning keeps every mark that still counts and that each of the three kinds of notes covers what is owed.
`TInv` adds the types and `Placed`: what each thread has in hand fits where it stands.  `NextNodeIsBest` joins
`RankedPlace` (the node of a rank exists) and `TurnReaches` (the turn of the cursor names a
rank within the best nodes): what `next_egress` returns is a node that nothing usable beats.

- `FailedNodesRest`, `TypeCorrect`: the invariants of the run `egress`.
- `BestIsChosen`: its action property `ChoosesBest`.

`ModelTrace_proofs` (`ModelTraceAssumption`).  The invariant `IInv` adds five facts to
the type invariant, `ShownWhileAtWork` and `NoThreadForgotten`.  `Needed` (a
challenge is put only while there is need for one) bounds the counters of a
thread.  `PendingIsAwaited` (a stop holds handles only while it waits, and then all
there are) is why no handle is lost between its two halves.  `CallsAreTries` ties the
calls counted since a stop to the tries of the one challenge that may be under way,
and `AskersWereStopped` says that after a stop only tests that it met at work ask or
have answers; both need `Fresh`, that a thread that has not asked counts nothing.  There is
one lemma per action.

- `TypeCorrect`, `TasksAreShown`, `StopBoundsCalls`: the invariants of the run `modeltrace`.
- `ThreadsAreKnown`: every live thread has a handle that somebody holds, except those that a stop ran out of
  time on and those started while one waited.  The second exception is a fault of the code (the overwritten handle, above),
  and the theorem says that it is the only other one.
- `ShortReportsHaveAReason`: its action property.

`Runtime_proofs` (`TokenAssumption`, `NoneAssumption`, `CooldownAssumption`, `RuntimeAssumption`, and
`NoneApart` of `RuntimeSafety`: `None` is no job, token or saved state), for any number of credentials, models,
threads, requests and instants.  The invariant `IInv` has a part for each kind of state:
`Clock`; `Shared` (`JobsOK`; `StoresOK`, that every store ever made for a key holds only tokens issued for
it; `DiskOK`, the same of the file); `ProbersOK` (a thread at work has a job, a store made for it, and a
token to replay exactly when it is about to); `RequestsOK`; `ModesOK`; and `LateOK`, which bounds
the calls on a rejected credential by the stage of the attempt, since the bound of
`NoHammering` alone is not inductive.  Stores only become more (`Grows`), which keeps every handle good; each
action has a lemma, and what several actions do to stores and jobs has one of its own.

- `TypeCorrect`, `StatesAreHome`, `RoundsStop`: read off the invariant.
- `LimitsHold`: every step leaves every job's limit at least as strict (`Firm`).
- `AnswersCostOnlyUsed`: what `RejectAndPromote` and `Observe` leave in a store, and that a response
  to `r` is the only step that answers `r`.
- `RestartsKeep`: what is acceptable is served by a store that has been offered nothing else.
- `VerifiedServe`: in three parts, as the property.  That the offer serves is what `Offer` does (`ServiceLasts` has
  the rest): every step but time, a response and a restart is `Lasting` - no store that has a state to serve
  ceases to, and no job gets another store.  `RecordSaves` says what the record leaves in the file.
  `CallersMove`, `PassedByReplay` and `JudgedAfterRecord` tie the places of a thread to the steps that lead there.
- `StrikesCountRequests`: with finitely many requests, no more than `ObservedLimit`.  Its invariant `Tally` says
  that no store, current or replaced, has more strikes than requests were answered, and that an answered request
  with a state is among those observed.  Without the bound it is false: the code empties the set.
- `WithdrawnStaysOut`: `MaxRestarts = 0` implies `Spec => WithdrawnNotInjected`.  Its invariant `Once` says that a
  token of a key is in one place at most: active or queued in one store, current or replaced, or in the hands of one
  replaying thread, or withdrawn.  That a slot emptied by an answer is not filled again from elsewhere needs
  all of it: no second copy may be queued, in a replaced store that a request still holds, or about to be
  installed.  It is inductive because the upstream issues no value twice and a value that comes with an answer enters a store only
  when it is new.  The hypothesis is the code's: a withdrawal is not saved, and a start reads
  the withdrawn state back from the file.

`Scheduler_proofs` (`SchedulerAssumption`; nothing is assumed of the length of a round, the number of jobs,
or what operators do).  The invariant is `TypeOK`, whose part `HandOK` ties a harvester's job to its place.

- `TypeCorrect`.
- `HarvestersKeepCadence`: `Spec => KeepsCadence`, step simulation of `HarvestCadence`, with a lemma for the steps of the
  loop, of operators, of rounds, of the upstream and of time.  `GapIsLeast` and `LeftIsMonotone` give the rest
  that the end of a round leaves, however late it comes.

`DataFiles_proofs` (`BoundsAssumption`).  The invariant adds to the types and `NothingTorn`: `Exclusive` (two
threads do not save the same kind), `Filled` (a temporary file about to be renamed is whole and holds
the version of its thread: nobody else has written it, since the lock of the kind makes it the thread's own),
`SaversUp`, `HomeHolds` (the file where the last save went holds it) and `Newest`.

- `TypeCorrect`, `FilesAreWhole`, `SavesInOrder`, `StartsFromTheLastSave`.

`Answers_proofs` (`LinesAssumption`, `ScoringAssumption`, `HostAssumption`, `NamesAssumption`) proves what the
run `limit` says of the readers, for header lines of any length, answers of any text and hosts with any names.
The recursive functions of `Scoring` are to the prover whatever satisfies their equation; `LoopComputes`
shows that there is such a function and that it unfolds.  The induction is made over a set of
numbers (`Induction`, from `LeastNumber`), since an induction theorem that takes an operator cannot be used.

- `LengthsTell`, `SignalsHideNoState`: arithmetic on the length of a header line.
- `ScorerAgrees`: blocks follow each other without gap or overlap and their sizes add up to the total, so what the
  runner counts is what the scorer cuts up.
- `LongestRunFound`: `SoFar` is the invariant of the parser's loop.  The run in progress is the longest stretch that
  ends here, every run recorded is a stretch of the text, and no stretch up to here is longer than each of them.
- `GoneIsSeen`: cases on what the host answers.
- `NamesKeepApart`: a name belongs to one credential, and two keys that are equal were made of one name.

Model-checked only: liveness under fairness (`NobodyStarves`, `DefaultIsServed`, `TestEnds`, `StopReturns`), which
is out of the prover's reach, and nothing of `WithdrawnNotInjected` with restarts, where it is false.  Every
other property of a passing run is stated by a theorem.

## 5. Not modelled

- The floating-point part of the scoring: likelihoods over a fixed bank of answers and the thresholds of
  the verdict.  TLC has no such numbers; what decides whether an answer counts, and how it is cut up, is in `Scoring`.
- The dispatch of `abi.rs` (method names to operations, JSON around them) and the copying of the host's
  buffers: code without state of its own.
- Pages, JSON, counters for display, texts of errors; expansion of placeholders in egress urls (442-480).
- `retry_after_seconds`: it reads one number from a header; the modules take any number of a small set.
- The build and smoke scripts and the chained proxy for local tests.
- A crash of the machine, as opposed to the process.

## 6. Plan

Done: `StoreOps`/`StateStore`/`SnapshotSlot`, `LimitOps`/`CredentialLimit`, `Runtime`, `EgressPool`, `ModelTrace`,
`Scheduler`/`HarvestCadence`, `DataFiles`, the readers of `Answers`, and the proofs above.  Left:

1. Every store of `Runtime`, current or replaced, changes only as `SnapshotSlot` allows.  One lemma for each
   group of actions should say that a store after a step comes from the store before by the methods of
   `StoreOps`; what `Tally` and `Once` say of stores would then follow from it.
2. `ModelTrace` with two stops, and the threads of its timed-out calls as part of what outlives a stop.
3. `Scheduler` with two credentials, and its stores replaced by those of `Runtime`, to see whether a withdrawn
   state is always followed by a round.
