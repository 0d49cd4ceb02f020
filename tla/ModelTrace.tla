------------------------------- MODULE ModelTrace -------------------------------
(***************************************************************************)
(* The threads of the plugin and what they leave behind when it stops: the *)
(* worker (start_worker, stop_worker) and one thread per model test, which *)
(* puts up to MAX_ATTEMPTS challenges to a model until TARGET_VALID of the *)
(* answers are usable (runtime.rs:683-745, 2425-2551; modeltrace.rs).      *)
(*                                                                         *)
(* The host loads and unloads the plugin one call at a time, so that start *)
(* and stop do not overlap; a test is started from a management thread,    *)
(* which runs beside a stop that waits.  The plugin cannot interrupt a     *)
(* call to the host.  A test waits REQUEST_TIMEOUT for it and              *)
(* leaves the thread that makes it behind: that thread touches no state.   *)
(* All tests of the model are of one account and model.  What the worker   *)
(* does in its rounds is in Runtime.                                       *)
(***************************************************************************)
EXTENDS Naturals, FiniteSets

CONSTANTS
  None,             \* no handle, no task
  Tasks,            \* ids of the tests
  Workers,          \* the worker threads that may be spawned, one per start
  MaxAttempts,      \* MAX_ATTEMPTS: challenges of a test
  TargetValid,      \* TARGET_VALID: usable answers a report needs
  RequestAttempts,  \* REQUEST_ATTEMPTS: calls per challenge
  RequestTimeout,   \* REQUEST_TIMEOUT, in ticks
  KeepFor,          \* the 600 s a finished test stays on the page, in ticks
  MaxStops          \* bound: calls of stop_worker()

ASSUME ModelTraceAssumption ==
  /\ {MaxAttempts, TargetValid, RequestAttempts, RequestTimeout} \subseteq Nat \ {0}
  /\ KeepFor \in Nat /\ MaxStops \in Nat
  /\ Tasks \cap Workers = {} /\ None \notin Tasks \cup Workers
  /\ None \notin {"running", "completed", "failed"}

VARIABLES
  running,   \* the flag every loop looks at
  worker,    \* the handle of the worker, or None
  handles,   \* detect_threads: the handles kept of test threads
  stop,      \* stop_worker(): where it stands, the handles it waits for
  loop,      \* where each worker thread stands
  tasks,     \* modeltrace_tasks: the status of each test on the page, or None
  idle,      \* ticks since the task's updated_at, up to KeepFor
  thread,    \* where the thread of each test stands
  waited,    \* ticks the thread has waited for its call
  results,   \* the result file holds a report
  seen       \* history of live threads: stopped, calls since, outlived a stop,
             \* started while a stop was waiting

lifecycle == <<running, worker, handles, stop, loop>>
vars == <<lifecycle, tasks, idle, thread, waited, results, seen>>

-----------------------------------------------------------------------------
NewThread == [pc |-> "none", attempt |-> 0, valid |-> 0, try |-> 1]
AtWork(t) == thread[t].pc \in {"begin", "next", "call", "waiting"}
Alive(x)  == IF x \in Workers THEN loop[x] = "busy" ELSE AtWork(x)

\* What is remembered of a live thread is forgotten with it.
Forget(xs) == [seen EXCEPT !.stopped = @ \ xs, !.outlived = @ \ xs, !.intruded = @ \ xs,
                           !.calls = [t \in Tasks |-> IF t \in xs THEN 0 ELSE @[t]]]

\* Runtime::new(): the running flag is up before there is a worker.
Init ==
  /\ running = TRUE
  /\ worker = None
  /\ handles = {}
  /\ stop = [pc |-> "idle", pending |-> {}, over |-> FALSE, count |-> 0]
  /\ loop = [w \in Workers |-> "none"]
  /\ tasks = [t \in Tasks |-> None]
  /\ idle = [t \in Tasks |-> 0]
  /\ thread = [t \in Tasks |-> NewThread]
  /\ waited = [t \in Tasks |-> 0]
  /\ results = FALSE
  /\ seen = [stopped |-> {}, calls |-> [t \in Tasks |-> 0], outlived |-> {}, intruded |-> {}]

-----------------------------------------------------------------------------
(* Start and stop.                                                         *)

HostFree == stop.pc = "idle"

\* Mutant: a second start makes a second worker.
NeedsWorkerAlways == TRUE

NeedsWorker == worker = None

\* start_worker(), when the host loads the plugin, for the first time or again.
Start(w) ==
  /\ HostFree
  /\ NeedsWorker
  /\ loop[w] = "none"
  /\ running' = TRUE
  /\ worker' = w
  /\ loop' = [loop EXCEPT ![w] = "busy"]
  /\ seen' = [seen EXCEPT !.calls = [t \in Tasks |-> 0]]
  /\ UNCHANGED <<handles, stop, tasks, idle, thread, waited, results>>

\* stop_worker() (plugin.quiesce, plugin.shutdown, the end of the plugin): it
\* lowers the flag, takes every handle there is and waits.
StopBegins ==
  /\ HostFree
  /\ stop.count < MaxStops
  /\ running' = FALSE
  /\ worker' = None
  /\ handles' = {}
  /\ stop' = [pc |-> "waiting", pending |-> handles \cup ({worker} \ {None}),
              over |-> FALSE, count |-> stop.count + 1]
  /\ seen' = [seen EXCEPT !.stopped = @ \cup {t \in Tasks : AtWork(t)},
                          !.calls = [t \in Tasks |-> 0]]
  /\ UNCHANGED <<loop, tasks, idle, thread, waited, results>>

\* SHUTDOWN_GRACE has passed.
GraceOver ==
  /\ stop.pc = "waiting" /\ ~stop.over
  /\ stop' = [stop EXCEPT !.over = TRUE]
  /\ UNCHANGED <<running, worker, handles, loop, tasks, idle, thread, waited, results, seen>>

\* Mutant: the stop joins every thread.
WaitIsOverWhenDone == \A h \in stop.pending : ~Alive(h)

WaitIsOver == stop.over \/ \A h \in stop.pending : ~Alive(h)

\* stop_worker() puts the handles of the threads that have finished in the place
\* of those kept by now, and drops the handles of those that have not.
StopEnds ==
  /\ stop.pc = "waiting"
  /\ WaitIsOver
  /\ handles' = {h \in stop.pending : ~Alive(h)}
  /\ stop' = [stop EXCEPT !.pc = "idle", !.pending = {}, !.over = FALSE]
  /\ seen' = [seen EXCEPT !.outlived = @ \cup {h \in stop.pending : Alive(h)}]
  /\ UNCHANGED <<running, worker, loop, tasks, idle, thread, waited, results>>

\* worker_loop(): a turn, with its host calls and its sleep, is over and the
\* flag is found down.  A worker that has not left yet when the flag goes up
\* again goes on with another turn.
WorkerLeaves(w) ==
  /\ loop[w] = "busy"
  /\ ~running
  /\ loop' = [loop EXCEPT ![w] = "done"]
  /\ seen' = Forget({w})
  /\ UNCHANGED <<running, worker, handles, stop, tasks, idle, thread, waited, results>>

-----------------------------------------------------------------------------
(* Model tests.                                                            *)

\* Mutant: also while it runs.
KeptByAge(t) == idle[t] < KeepFor

\* A task leaves the page KeepFor after its last update, never while it runs.
Kept(t) == tasks[t] = "running" \/ idle[t] < KeepFor

\* start_modeltrace_task(): no look at the running flag, and no wait for a stop,
\* which holds no lock while it waits.
StartTask(t) ==
  /\ thread[t].pc = "none"
  /\ LET gone == {u \in Tasks : tasks[u] # None /\ ~Kept(u)}
     IN  /\ tasks' = [u \in Tasks |->
                        IF u = t THEN "running" ELSE IF u \in gone THEN None ELSE tasks[u]]
         /\ idle' = [u \in Tasks |-> IF u \in gone THEN 0 ELSE idle[u]]
  /\ handles' = {h \in handles : Alive(h)} \cup {t}
  /\ thread' = [thread EXCEPT ![t].pc = "begin"]
  /\ seen' = IF HostFree THEN seen ELSE [seen EXCEPT !.intruded = @ \cup {t}]
  /\ UNCHANGED <<running, worker, stop, loop, waited, results>>

\* finish_modeltrace_task(), fail_modeltrace_task(): the thread ends, with a
\* report that is saved or without.
Finish(t, report) ==
  /\ IF tasks[t] = None THEN UNCHANGED <<tasks, results>>
     ELSE /\ tasks' = [tasks EXCEPT ![t] = IF report THEN "completed" ELSE "failed"]
          /\ results' = IF report THEN TRUE ELSE results
  /\ idle' = [idle EXCEPT ![t] = 0]
  /\ thread' = [thread EXCEPT ![t] = [NewThread EXCEPT !.pc = "done"]]
  /\ seen' = Forget({t})
  /\ UNCHANGED <<lifecycle, waited>>

\* The test names no credential.
FailTask(t) == thread[t].pc = "begin" /\ Finish(t, FALSE)

\* The credential is known, the verified state read, the challenges generated.
BeginTask(t) ==
  /\ thread[t].pc = "begin"
  /\ thread' = [thread EXCEPT ![t].pc = "next"]
  /\ UNCHANGED <<lifecycle, tasks, idle, waited, results, seen>>

\* Mutants: the loop does not look at the flag; it ends with the first answer.
GoesOnDeaf(t) == thread[t].attempt < MaxAttempts /\ thread[t].valid < TargetValid
GoesOnUntilOne(t) ==
  /\ thread[t].attempt < MaxAttempts
  /\ thread[t].valid = 0
  /\ running

\* The loop of probe_with_progress() goes on to another challenge.
GoesOn(t) ==
  /\ thread[t].attempt < MaxAttempts
  /\ thread[t].valid < TargetValid
  /\ running

NextChallenge(t) ==
  /\ thread[t].pc = "next"
  /\ GoesOn(t)
  /\ thread' = [thread EXCEPT ![t].pc = "call"]
  /\ idle' = [idle EXCEPT ![t] = 0]
  /\ UNCHANGED <<lifecycle, tasks, waited, results, seen>>

\* The loop ends: whatever usable answers there are make the report.
EndTest(t) ==
  /\ thread[t].pc = "next"
  /\ ~GoesOn(t)
  /\ Finish(t, thread[t].valid # 0)

\* call_model_with_timeout() hands the call to a thread of its own, at once or
\* after the sleep before a retry, which nothing cuts short.
Call(t) ==
  /\ thread[t].pc = "call"
  /\ thread' = [thread EXCEPT ![t].pc = "waiting"]
  /\ waited' = [waited EXCEPT ![t] = 0]
  /\ seen' = IF running THEN seen ELSE [seen EXCEPT !.calls[t] = @ + 1]
  /\ UNCHANGED <<lifecycle, tasks, idle, results>>

\* The challenge is done with; progress is reported.
EndChallenge(t, valid) ==
  /\ thread' = [thread EXCEPT ![t].pc = "next", ![t].try = 1,
                              ![t].attempt = @ + 1, ![t].valid = valid]
  /\ idle' = [idle EXCEPT ![t] = 0]

LastTry(t) == thread[t].try = RequestAttempts

\* call_model_with_retry(): an error to retry, or the last one.
TryAgain(t) ==
  IF LastTry(t) THEN EndChallenge(t, thread[t].valid)
  ELSE /\ thread' = [thread EXCEPT ![t].pc = "call", ![t].try = @ + 1]
       /\ UNCHANGED idle

\* The host answers: enough numbers, too few or an error that is not retried,
\* or an error that is (408, 429, 5xx, or one without a status).
Answer(t, outcome) ==
  /\ thread[t].pc = "waiting"
  /\ \/ outcome = "enough" /\ EndChallenge(t, thread[t].valid + 1)
     \/ outcome = "unusable" /\ EndChallenge(t, thread[t].valid)
     \/ outcome = "retryable" /\ TryAgain(t)
  /\ waited' = [waited EXCEPT ![t] = 0]
  /\ UNCHANGED <<lifecycle, tasks, results, seen>>

\* Mutant: the call is waited for without a limit.
TimeoutNever(t) == FALSE

\* The host has not answered in time: an error without a status.
Timeout(t) ==
  /\ thread[t].pc = "waiting"
  /\ waited[t] = RequestTimeout
  /\ TryAgain(t)
  /\ waited' = [waited EXCEPT ![t] = 0]
  /\ UNCHANGED <<lifecycle, tasks, results, seen>>

\* Time passes for the waiting calls and the tasks of the page.
Tick ==
  LET Later(n, most) == IF n < most THEN n + 1 ELSE n
  IN  /\ waited' = [t \in Tasks |-> IF thread[t].pc = "waiting"
                                    THEN Later(waited[t], RequestTimeout) ELSE waited[t]]
      /\ idle' = [t \in Tasks |-> IF tasks[t] # None THEN Later(idle[t], KeepFor) ELSE 0]
      /\ <<waited, idle>>' # <<waited, idle>>
      /\ UNCHANGED <<lifecycle, tasks, thread, results, seen>>

-----------------------------------------------------------------------------
\* What a test thread does without the host's help.
TestStep(t) ==
  \/ FailTask(t) \/ BeginTask(t)
  \/ NextChallenge(t) \/ Call(t) \/ Timeout(t)
  \/ EndTest(t)

Next ==
  \/ \E w \in Workers : Start(w) \/ WorkerLeaves(w)
  \/ StopBegins \/ GraceOver \/ StopEnds
  \/ \E t \in Tasks : StartTask(t) \/ TestStep(t)
  \/ \E t \in Tasks, o \in {"enough", "unusable", "retryable"} : Answer(t, o)
  \/ Tick

\* Threads are scheduled and clocks advance; the host need never answer, load
\* the plugin or stop it.
Fairness ==
  /\ WF_vars(Tick)
  /\ WF_vars(GraceOver \/ StopEnds)
  /\ \A t \in Tasks : WF_vars(TestStep(t))

Spec == Init /\ [][Next]_vars /\ Fairness

-----------------------------------------------------------------------------
TypeOK ==
  /\ running \in BOOLEAN
  /\ worker \in Workers \cup {None}
  /\ handles \subseteq Tasks \cup Workers
  /\ stop \in [pc : {"idle", "waiting"}, pending : SUBSET (Tasks \cup Workers),
               over : BOOLEAN, count : 0..MaxStops]
  /\ loop \in [Workers -> {"none", "busy", "done"}]
  /\ tasks \in [Tasks -> {None, "running", "completed", "failed"}]
  /\ idle \in [Tasks -> 0..KeepFor]
  /\ thread \in [Tasks -> [pc : {"none", "begin", "next", "call", "waiting", "done"},
                           attempt : 0..MaxAttempts, valid : 0..TargetValid,
                           try : 1..RequestAttempts]]
  /\ waited \in [Tasks -> 0..RequestTimeout]
  /\ results \in BOOLEAN
  /\ seen \in [stopped : SUBSET Tasks, calls : [Tasks -> Nat],
               outlived : SUBSET (Tasks \cup Workers), intruded : SUBSET Tasks]

\* The page can follow a test for as long as its thread is at work, however
\* long a challenge takes, and shows an end once it has ended
\* (start_modeltrace_task's retain, finish_modeltrace_task).
ShownWhileAtWork ==
  \A t \in Tasks : AtWork(t) <=> tasks[t] = "running"

\* The stop flag is only looked at between challenges, yet a stop bounds what
\* is left of a test: the calls of the challenge it is at.
NoNewChallenge ==
  \A t \in Tasks : ~running => seen.calls[t] <= RequestAttempts

\* A report that rests on fewer than TARGET_VALID answers comes only of a test
\* that has put all its challenges, or that a stop met at work.
ReportsRestOnEnough ==
  [][\A t \in Tasks :
       tasks[t] = "running" /\ tasks'[t] = "completed" /\ thread[t].valid < TargetValid
         => thread[t].attempt = MaxAttempts \/ t \in seen.stopped]_vars

Held == {worker} \cup handles \cup stop.pending

\* Somebody holds the handle of each live thread, the worker's, a test's or one
\* of an earlier start, unless a stop ran out of time on it or was waiting when
\* it started (stop_worker).
NoThreadForgotten ==
  \A x \in Tasks \cup Workers : Alive(x) => x \in Held \cup seen.outlived \cup seen.intruded

\* A test ends though the host never answers a call.
TestEnds == \A t \in Tasks : AtWork(t) ~> ~AtWork(t)

\* stop_worker() returns though threads are stuck in calls to the host.
StopReturns == stop.pc = "waiting" ~> stop.pc = "idle"

-----------------------------------------------------------------------------
\* The handles of threads still running are kept (the comment at
\* runtime.rs:722).  The retain keeps the others.
RunningHandlesKept ==
  [][StopEnds => \A h \in stop.pending : Alive(h) => h \in handles']_vars

=============================================================================
