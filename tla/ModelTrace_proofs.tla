---------------------------- MODULE ModelTrace_proofs ----------------------------
(***************************************************************************)
(* Theorems about the threads of the plugin, for any tests, workers, bounds *)
(* and timeouts.                                                           *)
(***************************************************************************)
EXTENDS ModelTrace, TLAPS

-----------------------------------------------------------------------------
(* The inductive invariant.                                                *)

\* A thread that has not asked yet, or no longer does, counts nothing.
Fresh == \A t \in Tasks : thread[t].pc \in {"none", "begin", "done"} =>
           thread[t].valid = 0 /\ thread[t].try = 1 /\ seen.calls[t] = 0

\* A challenge is put only while there is need for one.
Needed == \A t \in Tasks : thread[t].pc \in {"call", "waiting"} =>
            thread[t].attempt < MaxAttempts /\ thread[t].valid < TargetValid

\* A stop holds handles only while it waits, and then all there are, but for the
\* tests started since.
PendingIsAwaited ==
  IF stop.pc = "idle" THEN stop.pending = {}
  ELSE \A h \in handles : h \in seen.intruded \/ ~Alive(h)

\* After a stop the calls of a challenge are those of its tries.
CallsAreTries == ~running => \A t \in Tasks :
  /\ thread[t].pc = "call" => seen.calls[t] < thread[t].try
  /\ thread[t].pc = "waiting" => seen.calls[t] <= thread[t].try
  /\ seen.calls[t] <= RequestAttempts

\* After a stop only the tests it met at work have asked or been answered.
AskersWereStopped == ~running => \A t \in Tasks :
  thread[t].pc \in {"call", "waiting"} \/ thread[t].valid # 0 => t \in seen.stopped

IInv ==
  /\ TypeOK
  /\ ShownWhileAtWork
  /\ Fresh
  /\ Needed
  /\ PendingIsAwaited
  /\ NoThreadForgotten
  /\ CallsAreTries
  /\ AskersWereStopped

\* A start.
LEMMA StartKeeps ==
  ASSUME IInv, NEW w \in Workers, Start(w) PROVE IInv'
<1> USE DEF IInv, Start, NeedsWorker, HostFree
<1>1. TypeOK'
  BY DEF TypeOK
<1>2. Fresh'
  BY DEF Fresh
<1>3. NoThreadForgotten'
  BY ModelTraceAssumption DEF NoThreadForgotten, Held, Alive, AtWork
<1>4. CallsAreTries'
  BY DEF CallsAreTries
<1>5. AskersWereStopped'
  BY DEF AskersWereStopped
<1>6. ShownWhileAtWork' /\ Needed' /\ PendingIsAwaited'
  BY DEF ShownWhileAtWork, AtWork, Needed, PendingIsAwaited
<1>7. QED BY <1>1, <1>2, <1>3, <1>4, <1>5, <1>6

\* A worker leaves its loop.
LEMMA LeaveKeeps ==
  ASSUME IInv, NEW w \in Workers, WorkerLeaves(w) PROVE IInv'
<1> USE DEF IInv, WorkerLeaves, Forget
<1>1. TypeOK'
  BY DEF TypeOK
<1>2. Fresh'
  BY DEF Fresh
<1>3. NoThreadForgotten'
  BY DEF TypeOK, NoThreadForgotten, Held, Alive, AtWork
<1>4. CallsAreTries'
  BY ModelTraceAssumption DEF CallsAreTries
<1>5. AskersWereStopped'
  BY ModelTraceAssumption DEF AskersWereStopped
<1>6. ShownWhileAtWork' /\ Needed'
  BY DEF ShownWhileAtWork, AtWork, Needed
<1>8. PendingIsAwaited'
  BY ModelTraceAssumption DEF TypeOK, PendingIsAwaited, Alive, AtWork
<1>9. QED BY <1>1, <1>2, <1>3, <1>4, <1>5, <1>6, <1>8

\* A stop begins: it has not counted a call yet.
LEMMA StopKeeps ==
  ASSUME IInv, StopBegins PROVE IInv'
<1> USE DEF IInv, StopBegins, HostFree
<1>1. TypeOK'
  <2>1. stop' \in [pc : {"idle", "waiting"}, pending : SUBSET (Tasks \cup Workers),
                   over : BOOLEAN, count : 0..MaxStops]
    <3>1. handles \cup ({worker} \ {None}) \subseteq Tasks \cup Workers
      BY DEF TypeOK
    <3>2. stop.count + 1 \in 0..MaxStops
      BY ModelTraceAssumption DEF TypeOK
    <3>3. QED BY <3>1, <3>2
  <2>2. seen' \in [stopped : SUBSET Tasks, calls : [Tasks -> Nat],
                   outlived : SUBSET (Tasks \cup Workers), intruded : SUBSET Tasks]
    BY DEF TypeOK
  <2>3. QED BY <2>1, <2>2 DEF TypeOK
<1>2. Fresh'
  BY DEF Fresh
<1>3. PendingIsAwaited'
  BY DEF TypeOK, PendingIsAwaited, Alive, AtWork
<1>4. NoThreadForgotten'
  BY DEF PendingIsAwaited, NoThreadForgotten, Held, Alive, AtWork
<1>5. CallsAreTries'
  BY ModelTraceAssumption DEF TypeOK, CallsAreTries
<1>6. AskersWereStopped'
  BY DEF TypeOK, AskersWereStopped, AtWork, Fresh
<1>7. ShownWhileAtWork' /\ Needed'
  BY DEF ShownWhileAtWork, AtWork, Needed
<1>8. QED BY <1>1, <1>2, <1>3, <1>4, <1>5, <1>6, <1>7

\* The grace is over.
LEMMA GraceKeeps ==
  ASSUME IInv, GraceOver PROVE IInv'
<1> USE DEF IInv, GraceOver
<1>1. TypeOK'
  BY DEF TypeOK
<1>2. PendingIsAwaited'
  BY DEF TypeOK, PendingIsAwaited, Alive, AtWork
<1>3. NoThreadForgotten'
  BY DEF NoThreadForgotten, Held, Alive, AtWork
<1>4. ShownWhileAtWork' /\ Fresh' /\ Needed' /\ CallsAreTries' /\ AskersWereStopped'
  BY DEF ShownWhileAtWork, AtWork, Fresh, Needed, CallsAreTries, AskersWereStopped
<1>5. QED BY <1>1, <1>2, <1>3, <1>4

\* A stop ends: what it drops has outlived it.
LEMMA EndKeeps ==
  ASSUME IInv, StopEnds PROVE IInv'
<1> USE DEF IInv, StopEnds
<1>1. TypeOK'
  BY DEF TypeOK
<1>2. Fresh'
  BY DEF Fresh
<1>3. PendingIsAwaited'
  BY DEF TypeOK, PendingIsAwaited, Alive, AtWork
<1>4. NoThreadForgotten'
  <2> SUFFICES ASSUME NEW x \in Tasks \cup Workers, Alive(x)'
               PROVE  x \in {worker} \cup seen'.outlived \cup seen'.intruded
    BY DEF NoThreadForgotten, Held
  <2>1. Alive(x) BY DEF Alive, AtWork
  <2>2. CASE x \in stop.pending
    BY <2>1, <2>2 DEF TypeOK
  <2>3. x \in handles => x \in seen.intruded
    BY <2>1 DEF PendingIsAwaited
  <2>4. seen'.intruded = seen.intruded /\ seen.outlived \subseteq seen'.outlived
    BY DEF TypeOK
  <2>5. QED BY <2>1, <2>2, <2>3, <2>4 DEF NoThreadForgotten, Held
<1>5. CallsAreTries'
  BY DEF CallsAreTries
<1>6. AskersWereStopped'
  BY DEF AskersWereStopped
<1>7. ShownWhileAtWork' /\ Needed'
  BY DEF ShownWhileAtWork, AtWork, Needed
<1>8. QED BY <1>1, <1>2, <1>3, <1>4, <1>5, <1>6, <1>7

\* A test starts; no task that runs is dropped.
LEMMA TaskKeeps ==
  ASSUME IInv, NEW t \in Tasks, StartTask(t) PROVE IInv'
<1> USE DEF IInv, StartTask, Kept, HostFree
<1>1. TypeOK'
  <2>1. seen' \in [stopped : SUBSET Tasks, calls : [Tasks -> Nat],
                   outlived : SUBSET (Tasks \cup Workers), intruded : SUBSET Tasks]
    BY DEF TypeOK
  <2>2. tasks' \in [Tasks -> {None, "running", "completed", "failed"}]
    BY DEF TypeOK
  <2>3. idle' \in [Tasks -> 0..KeepFor]
    BY ModelTraceAssumption DEF TypeOK
  <2>4. thread' \in [Tasks -> [pc : {"none", "begin", "next", "call", "waiting", "done"},
                              attempt : 0..MaxAttempts, valid : 0..TargetValid,
                              try : 1..RequestAttempts]]
    BY DEF TypeOK
  <2>5. handles' \subseteq Tasks \cup Workers
    BY DEF TypeOK
  <2> HIDE DEF StartTask
  <2>6. UNCHANGED <<running, worker, stop, loop, waited, results>>
    BY DEF StartTask
  <2>7. QED BY <2>1, <2>2, <2>3, <2>4, <2>5, <2>6 DEF TypeOK
<1>2. ShownWhileAtWork'
  BY ModelTraceAssumption DEF TypeOK, ShownWhileAtWork, AtWork
<1>3. Fresh'
  BY DEF Fresh
<1>4. Needed'
  BY DEF Needed
<1>5. NoThreadForgotten'
  BY DEF NoThreadForgotten, Held, Alive, AtWork
<1>6. CallsAreTries'
  BY DEF CallsAreTries
<1>7. AskersWereStopped'
  BY DEF AskersWereStopped
<1>8. PendingIsAwaited'
  BY DEF TypeOK, PendingIsAwaited, Alive, AtWork
<1>9. QED BY <1>1, <1>2, <1>3, <1>4, <1>5, <1>6, <1>7, <1>8

\* A test fails before it has asked.
LEMMA FailKeeps ==
  ASSUME IInv, NEW t \in Tasks, FailTask(t) PROVE IInv'
<1> USE DEF IInv, lifecycle, FailTask, Finish, Forget, NewThread
<1>1. TypeOK'
  <2>1. thread' \in [Tasks -> [pc : {"none", "begin", "next", "call", "waiting", "done"},
                              attempt : 0..MaxAttempts, valid : 0..TargetValid,
                              try : 1..RequestAttempts]]
    BY ModelTraceAssumption DEF TypeOK
  <2>2. tasks' \in [Tasks -> {None, "running", "completed", "failed"}] /\ results' \in BOOLEAN
    BY DEF TypeOK
  <2>3. seen' \in [stopped : SUBSET Tasks, calls : [Tasks -> Nat],
                   outlived : SUBSET (Tasks \cup Workers), intruded : SUBSET Tasks]
    BY DEF TypeOK
  <2>4. idle' \in [Tasks -> 0..KeepFor]
    BY ModelTraceAssumption DEF TypeOK
  <2>5. QED BY <2>1, <2>2, <2>3, <2>4 DEF TypeOK
<1>2. ShownWhileAtWork'
  BY ModelTraceAssumption DEF TypeOK, ShownWhileAtWork, AtWork
<1>3. Fresh'
  BY DEF Fresh
<1>4. Needed'
  BY DEF Needed
<1>5. NoThreadForgotten'
  BY ModelTraceAssumption DEF TypeOK, NoThreadForgotten, Held, Alive, AtWork
<1>6. CallsAreTries'
  BY DEF CallsAreTries, Fresh
<1>7. AskersWereStopped'
  BY DEF TypeOK, AskersWereStopped
<1>8. PendingIsAwaited'
  <2>1. ASSUME NEW h, h \in handles, Alive(h)'
        PROVE  Alive(h) /\ h # t
    BY <2>1, ModelTraceAssumption DEF TypeOK, Alive, AtWork
  <2>2. \A h : h \in seen.intruded /\ h # t => h \in seen'.intruded
    BY DEF TypeOK
  <2> QED BY <2>1, <2>2 DEF PendingIsAwaited
<1>9. QED BY <1>1, <1>2, <1>3, <1>4, <1>5, <1>6, <1>7, <1>8

\* A test begins.
LEMMA BeginKeeps ==
  ASSUME IInv, NEW t \in Tasks, BeginTask(t) PROVE IInv'
<1> USE DEF IInv, lifecycle, BeginTask
<1>1. TypeOK'
  BY DEF TypeOK
<1>2. ShownWhileAtWork'
  BY DEF ShownWhileAtWork, AtWork
<1>3. Fresh'
  BY DEF Fresh
<1>4. Needed'
  BY DEF Needed
<1>5. NoThreadForgotten'
  BY DEF NoThreadForgotten, Held, Alive, AtWork
<1>6. CallsAreTries'
  BY DEF CallsAreTries
<1>7. AskersWereStopped'
  BY DEF AskersWereStopped
<1>8. PendingIsAwaited'
  BY DEF TypeOK, PendingIsAwaited, Alive, AtWork
<1>9. QED BY <1>1, <1>2, <1>3, <1>4, <1>5, <1>6, <1>7, <1>8

\* The next challenge is put only while the flag is up.
LEMMA NextKeeps ==
  ASSUME IInv, NEW t \in Tasks, NextChallenge(t) PROVE IInv'
<1> USE DEF IInv, lifecycle, NextChallenge, GoesOn
<1>1. TypeOK'
  BY ModelTraceAssumption DEF TypeOK
<1>2. ShownWhileAtWork'
  BY DEF ShownWhileAtWork, AtWork
<1>3. Fresh'
  BY DEF Fresh
<1>4. Needed'
  BY DEF Needed
<1>5. NoThreadForgotten'
  BY DEF NoThreadForgotten, Held, Alive, AtWork
<1>6. CallsAreTries'
  BY DEF CallsAreTries
<1>7. AskersWereStopped'
  BY DEF AskersWereStopped
<1>8. PendingIsAwaited'
  BY DEF TypeOK, PendingIsAwaited, Alive, AtWork
<1>9. QED BY <1>1, <1>2, <1>3, <1>4, <1>5, <1>6, <1>7, <1>8

\* A call, counted once the flag is down.
LEMMA CallKeeps ==
  ASSUME IInv, NEW t \in Tasks, Call(t) PROVE IInv'
<1> USE DEF IInv, lifecycle, Call
<1>1. TypeOK'
  <2> USE ModelTraceAssumption DEF TypeOK
  <2>1. thread' \in [Tasks -> [pc : {"none", "begin", "next", "call", "waiting", "done"},
                              attempt : 0..MaxAttempts, valid : 0..TargetValid,
                              try : 1..RequestAttempts]]
    OBVIOUS
  <2>2. waited' \in [Tasks -> 0..RequestTimeout]
    OBVIOUS
  <2>3. seen.calls[t] + 1 \in Nat
    OBVIOUS
  <2>4. seen'.calls \in [Tasks -> Nat]
    BY <2>3
  <2>5. seen' \in [stopped : SUBSET Tasks, calls : [Tasks -> Nat],
                   outlived : SUBSET (Tasks \cup Workers), intruded : SUBSET Tasks]
    BY <2>3
  <2> QED BY <2>1, <2>2, <2>5 DEF lifecycle
<1>2. ShownWhileAtWork'
  BY DEF ShownWhileAtWork, AtWork
<1>3. Fresh'
  BY DEF Fresh
<1>4. Needed'
  BY DEF Needed
<1>5. NoThreadForgotten'
  BY DEF NoThreadForgotten, Held, Alive, AtWork
<1>6. CallsAreTries'
  BY ModelTraceAssumption DEF TypeOK, CallsAreTries
<1>7. AskersWereStopped'
  BY DEF AskersWereStopped
<1>8. PendingIsAwaited'
  BY DEF TypeOK, PendingIsAwaited, Alive, AtWork
<1>9. QED BY <1>1, <1>2, <1>3, <1>4, <1>5, <1>6, <1>7, <1>8

\* A call times out.
LEMMA TimeoutKeeps ==
  ASSUME IInv, NEW t \in Tasks, Timeout(t) PROVE IInv'
<1> USE DEF IInv, lifecycle, Timeout, TryAgain, LastTry, EndChallenge
<1>1. TypeOK'
  BY DEF TypeOK
<1>2. ShownWhileAtWork'
  BY DEF TypeOK, ShownWhileAtWork
<1>3. Fresh'
  BY DEF TypeOK, Fresh
<1>4. Needed'
  BY DEF TypeOK, Needed
<1>5. NoThreadForgotten'
  BY DEF TypeOK, NoThreadForgotten, Held
<1>6. CallsAreTries'
  BY DEF TypeOK, CallsAreTries
<1>7. AskersWereStopped'
  BY DEF TypeOK, AskersWereStopped
<1>8. PendingIsAwaited'
  BY DEF TypeOK, PendingIsAwaited, Alive, AtWork
<1>9. QED BY <1>1, <1>2, <1>3, <1>4, <1>5, <1>6, <1>7, <1>8

\* A test ends.
LEMMA ReportKeeps ==
  ASSUME IInv, NEW t \in Tasks, EndTest(t) PROVE IInv'
<1> USE DEF IInv, lifecycle, EndTest, Finish, Forget, NewThread
<1>1. TypeOK'
  <2>1. thread' \in [Tasks -> [pc : {"none", "begin", "next", "call", "waiting", "done"},
                              attempt : 0..MaxAttempts, valid : 0..TargetValid,
                              try : 1..RequestAttempts]]
    BY ModelTraceAssumption DEF TypeOK
  <2>2. tasks' \in [Tasks -> {None, "running", "completed", "failed"}] /\ results' \in BOOLEAN
    BY DEF TypeOK
  <2>3. seen' \in [stopped : SUBSET Tasks, calls : [Tasks -> Nat],
                   outlived : SUBSET (Tasks \cup Workers), intruded : SUBSET Tasks]
    BY DEF TypeOK
  <2>4. idle' \in [Tasks -> 0..KeepFor]
    BY ModelTraceAssumption DEF TypeOK
  <2>5. QED BY <2>1, <2>2, <2>3, <2>4 DEF TypeOK
<1>2. ShownWhileAtWork'
  BY ModelTraceAssumption DEF TypeOK, ShownWhileAtWork, AtWork
<1>3. Fresh'
  BY DEF Fresh
<1>4. Needed'
  BY DEF Needed
<1>5. NoThreadForgotten'
  BY ModelTraceAssumption DEF TypeOK, NoThreadForgotten, Held, Alive, AtWork
<1>6. CallsAreTries'
  BY ModelTraceAssumption DEF CallsAreTries
<1>7. AskersWereStopped'
  BY DEF TypeOK, AskersWereStopped
<1>8. PendingIsAwaited'
  <2>1. ASSUME NEW h, h \in handles, Alive(h)'
        PROVE  Alive(h) /\ h # t
    BY <2>1, ModelTraceAssumption DEF TypeOK, Alive, AtWork
  <2>2. \A h : h \in seen.intruded /\ h # t => h \in seen'.intruded
    BY DEF TypeOK
  <2> QED BY <2>1, <2>2 DEF PendingIsAwaited
<1>9. QED BY <1>1, <1>2, <1>3, <1>4, <1>5, <1>6, <1>7, <1>8

\* The host answers.
LEMMA AnswerKeeps ==
  ASSUME IInv, NEW t \in Tasks, NEW o \in {"enough", "unusable", "retryable"}, Answer(t, o) PROVE IInv'
<1> USE DEF IInv, lifecycle, Answer, TryAgain, LastTry, EndChallenge
<1>1. TypeOK'
  BY DEF TypeOK
<1>2. ShownWhileAtWork'
  BY ModelTraceAssumption DEF TypeOK, ShownWhileAtWork, AtWork
<1>3. Fresh'
  BY DEF TypeOK, Fresh
<1>4. Needed'
  BY DEF TypeOK, Needed
<1>5. NoThreadForgotten'
  BY DEF TypeOK, NoThreadForgotten, Held
<1>6. CallsAreTries'
  BY DEF TypeOK, CallsAreTries
<1>7. AskersWereStopped'
  BY DEF TypeOK, AskersWereStopped
<1>8. PendingIsAwaited'
  BY DEF TypeOK, PendingIsAwaited, Alive, AtWork
<1>9. QED BY <1>1, <1>2, <1>3, <1>4, <1>5, <1>6, <1>7, <1>8

\* Time passes.
LEMMA TickKeeps ==
  ASSUME IInv, Tick PROVE IInv'
<1> USE DEF IInv, lifecycle, Tick
<1>1. TypeOK'
  BY ModelTraceAssumption DEF TypeOK
<1>2. ShownWhileAtWork' /\ Fresh' /\ Needed' /\ PendingIsAwaited' /\ NoThreadForgotten' /\ CallsAreTries' /\ AskersWereStopped'
  BY DEF ShownWhileAtWork, AtWork, Fresh, Needed, PendingIsAwaited, NoThreadForgotten, Held, Alive, CallsAreTries, AskersWereStopped
<1>3. QED BY <1>1, <1>2

-----------------------------------------------------------------------------
LEMMA Base == Init => IInv
<1> SUFFICES ASSUME Init PROVE IInv
  OBVIOUS
<1> USE DEF Init, NewThread
<1>1. TypeOK
  <2>1. thread \in [Tasks -> [pc : {"none", "begin", "next", "call", "waiting", "done"},
                             attempt : 0..MaxAttempts, valid : 0..TargetValid,
                             try : 1..RequestAttempts]]
    BY ModelTraceAssumption
  <2>2. stop \in [pc : {"idle", "waiting"}, pending : SUBSET (Tasks \cup Workers),
                  over : BOOLEAN, count : 0..MaxStops]
    BY ModelTraceAssumption
  <2>3. seen \in [stopped : SUBSET Tasks, calls : [Tasks -> Nat],
                  outlived : SUBSET (Tasks \cup Workers), intruded : SUBSET Tasks]
    OBVIOUS
  <2>4. idle \in [Tasks -> 0..KeepFor] /\ waited \in [Tasks -> 0..RequestTimeout]
    BY ModelTraceAssumption
  <2>5. running \in BOOLEAN /\ results \in BOOLEAN
    OBVIOUS
  <2>6. QED BY <2>1, <2>2, <2>3, <2>4, <2>5 DEF TypeOK
<1>2. ShownWhileAtWork
  BY ModelTraceAssumption DEF ShownWhileAtWork, AtWork
<1>3. Fresh /\ Needed /\ PendingIsAwaited
  BY DEF Fresh, Needed, PendingIsAwaited
<1>4. NoThreadForgotten
  BY ModelTraceAssumption DEF NoThreadForgotten, Held, Alive, AtWork
<1>5. CallsAreTries /\ AskersWereStopped
  BY DEF CallsAreTries, AskersWereStopped
<1>6. QED BY <1>1, <1>2, <1>3, <1>4, <1>5 DEF IInv

LEMMA Step == IInv /\ [Next]_vars => IInv'
<1> SUFFICES ASSUME IInv, [Next]_vars PROVE IInv'
  OBVIOUS
<1>1. CASE \E w \in Workers : Start(w) \/ WorkerLeaves(w)
  BY <1>1, StartKeeps, LeaveKeeps
<1>2. CASE StopBegins \/ GraceOver \/ StopEnds
  BY <1>2, StopKeeps, GraceKeeps, EndKeeps
<1>3. CASE \E t \in Tasks : StartTask(t)
  BY <1>3, TaskKeeps
<1>4. CASE \E t \in Tasks : TestStep(t)
  BY <1>4, FailKeeps, BeginKeeps, NextKeeps, CallKeeps, TimeoutKeeps, ReportKeeps DEF TestStep
<1>5. CASE \E t \in Tasks, o \in {"enough", "unusable", "retryable"} : Answer(t, o)
  BY <1>5, AnswerKeeps
<1>6. CASE Tick
  BY <1>6, TickKeeps
<1>7. CASE UNCHANGED vars
  BY <1>7 DEF vars, lifecycle, IInv, TypeOK, ShownWhileAtWork, AtWork, Fresh, Needed,
              PendingIsAwaited, NoThreadForgotten, Held, Alive, CallsAreTries, AskersWereStopped
<1>8. QED BY <1>1, <1>2, <1>3, <1>4, <1>5, <1>6, <1>7 DEF Next

\* The invariant holds throughout.
THEOREM Invariance == Spec => []IInv
<1>1. QED BY Base, Step, PTL DEF Spec

-----------------------------------------------------------------------------
\* Every variable keeps its type: no test asks or retries more than it may.
THEOREM TypeCorrect == Spec => []TypeOK
<1>1. IInv => TypeOK
  BY DEF IInv
<1>2. QED BY <1>1, Invariance, PTL

\* A task is shown as running exactly as long as its thread is at work,
\* whatever the timeouts and the age at which tasks are dropped.
THEOREM TasksAreShown == Spec => []ShownWhileAtWork
<1>1. IInv => ShownWhileAtWork
  BY DEF IInv
<1>2. QED BY <1>1, Invariance, PTL

\* Only threads a stop ran out of time on are without a handle.
THEOREM ThreadsAreKnown == Spec => []NoThreadForgotten
<1>1. IInv => NoThreadForgotten
  BY DEF IInv
<1>2. QED BY <1>1, Invariance, PTL

\* After a stop a test makes no more calls than one challenge allows.
THEOREM StopBoundsCalls == Spec => []NoNewChallenge
<1>1. IInv => NoNewChallenge
  BY DEF IInv, CallsAreTries, NoNewChallenge
<1>2. QED BY <1>1, Invariance, PTL

-----------------------------------------------------------------------------
\* A report of fewer answers than TARGET_VALID comes of a test that has put all
\* its challenges, or that a stop met at work.
THEOREM ShortReportsHaveAReason == Spec => ReportsRestOnEnough
<1> DEFINE Reason(t) ==
      tasks[t] = "running" /\ tasks'[t] = "completed" /\ thread[t].valid < TargetValid
        => thread[t].attempt = MaxAttempts \/ t \in seen.stopped
<1>1. ASSUME IInv, [Next]_vars, NEW t \in Tasks,
             tasks[t] = "running", tasks'[t] = "completed", thread[t].valid < TargetValid
      PROVE  thread[t].attempt = MaxAttempts \/ t \in seen.stopped
  <2>1. EndTest(t) /\ thread[t].valid # 0
    <3>1. ASSUME NEW u \in Tasks, StartTask(u) PROVE FALSE
      BY <1>1, <3>1, ModelTraceAssumption DEF StartTask, IInv, TypeOK
    <3>2. PICK u \in Tasks : FailTask(u) \/ EndTest(u)
      BY <1>1, <3>1 DEF Next, TestStep, vars, lifecycle, Start, WorkerLeaves, StopBegins,
                        GraceOver, StopEnds, BeginTask, NextChallenge, Call, Timeout, Answer, Tick
    <3>3. u = t /\ ~FailTask(t)
      BY <1>1, <3>2 DEF FailTask, EndTest, Finish, IInv, TypeOK
    <3>4. EndTest(t)
      BY <3>2, <3>3
    <3>5. QED BY <1>1, <3>4 DEF EndTest, Finish, IInv, TypeOK
  <2>2. CASE running
    <3>1. ~(thread[t].attempt < MaxAttempts)
      BY <1>1, <2>1, <2>2, Zenon DEF EndTest, GoesOn
    <3>2. thread[t].attempt \in 0..MaxAttempts
      BY <1>1 DEF IInv, TypeOK
    <3>3. QED BY <3>1, <3>2, ModelTraceAssumption
  <2>3. CASE ~running
    BY <1>1, <2>1, <2>3 DEF IInv, AskersWereStopped
  <2>4. QED BY <1>1, <2>2, <2>3 DEF IInv, TypeOK
<1>2. IInv /\ [Next]_vars => [\A t \in Tasks : Reason(t)]_vars
  BY <1>1
<1>3. QED BY <1>2, Invariance, PTL DEF Spec, ReportsRestOnEnough
=============================================================================
