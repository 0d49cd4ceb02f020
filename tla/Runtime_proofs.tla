----------------------------- MODULE Runtime_proofs -----------------------------
(***************************************************************************)
(* What the service keeps, for any credentials, models, requests, threads, *)
(* tokens and times.  A step changes the jobs, the stores and the file     *)
(* under their locks, and moves one thread or one request; so the          *)
(* invariant has a part for each of these, and most of a proof is what a   *)
(* step of the one does to the parts of the others.                        *)
(***************************************************************************)
EXTENDS RuntimeSafety, SequenceTheorems, FiniteSetTheorems, TLAPS

-----------------------------------------------------------------------------
(* The operations on a store: which tokens they leave in it.               *)

\* Stores that hold no other tokens than those of S.
Kept(S) ==
  {st \in Store : /\ st.active # None => st.active.token \in S
                  /\ st.ready # None => st.ready.token \in S}

LEMMA KeptHolds ==
  ASSUME NEW S, NEW st \in Kept(S)
  PROVE  TokensIn(st) \subseteq S
BY DEF Kept, TokensIn

LEMMA KeptMonotone ==
  ASSUME NEW S, NEW T, S \subseteq T
  PROVE  Kept(S) \subseteq Kept(T)
BY DEF Kept

LEMMA NewStoreKept ==
  ASSUME NEW S, NEW blocks \in Nat
  PROVE  NewStore(blocks) \in Kept(S)
BY DEF NewStore, Kept, Store

LEMMA InstallKept ==
  ASSUME NEW S \in SUBSET Tokens, NEW st \in Store, NEW t \in S
  PROVE  /\ Install(st, t) \in Kept(S)
         /\ Install(st, t).blocks = st.blocks
         /\ Install(st, t).active # None /\ Install(st, t).active.token = t
         /\ Install(st, t).ready = None
<1> DEFINE new == [token |-> t, version |-> st.version + 1]
<1>1. new \in Snapshot /\ new.token = t
  BY DEF Snapshot, Store
<1>2. new # None
  BY <1>1, NoneAssumption
<1> HIDE DEF new
<1>3. Install(st, t) = [blocks |-> st.blocks, active |-> new, ready |-> None,
                        version |-> st.version + 1, strikes |-> 0]
  BY DEF Install, new
<1> QED BY <1>1, <1>2, <1>3 DEF Kept, Store

LEMMA PromoteKept ==
  ASSUME NEW S \in SUBSET Tokens, NEW st \in Kept(S), NEW i
  PROVE  Promote(st, i) \in Kept(S) /\ Promote(st, i).blocks = st.blocks
<1>1. CASE ShouldPromote(st, i)
  <2>1. st \in Store /\ st.ready.token \in S
    BY <1>1 DEF ShouldPromote, ReadyUsable, Kept
  <2>2. Promote(st, i) = Install(st, st.ready.token)
    BY <1>1 DEF Promote
  <2> QED BY <2>1, <2>2, InstallKept
<1>2. CASE ~ShouldPromote(st, i)
  BY <1>2 DEF Promote
<1> QED BY <1>1, <1>2

LEMMA AcquireKept ==
  ASSUME NEW S \in SUBSET Tokens, NEW st \in Kept(S), NEW i
  PROVE  /\ Acquire(st, i) \in Kept(S)
         /\ AcquireResult(st, i) # None =>
              AcquireResult(st, i) \in Snapshot /\ AcquireResult(st, i).token \in S
<1>1. Promote(st, i) \in Kept(S)
  BY PromoteKept
<1> QED BY <1>1 DEF Acquire, AcquireResult, Usable, Kept, Store

LEMMA EnqueueKept ==
  ASSUME NEW S \in SUBSET Tokens, NEW st \in Kept(S), NEW t \in S
  PROVE  /\ Enqueue(st, t) \in Kept(S)
         /\ Enqueue(st, t).blocks = st.blocks /\ Enqueue(st, t).active = st.active
<1> DEFINE new == [token |-> t, version |-> 0]
<1>1. new \in Snapshot /\ new.token = t
  BY DEF Snapshot
<1>2. CASE Enqueue(st, t) = st
  BY <1>2
<1>3. CASE Enqueue(st, t) = [st EXCEPT !.ready = new]
  <2> HIDE DEF new
  <2> QED BY <1>1, <1>3 DEF Kept, Store
<1> QED BY <1>2, <1>3 DEF Enqueue

LEMMA OfferKept ==
  ASSUME NEW S \in SUBSET Tokens, NEW st \in Kept(S), NEW t \in S, NEW i
  PROVE  Offer(st, t, i) \in Kept(S) /\ Offer(st, t, i).blocks = st.blocks
<1>1. st \in Store
  BY DEF Kept
<1>2. Install(st, t) \in Kept(S) /\ Install(st, t).blocks = st.blocks
  BY <1>1, InstallKept
<1>3. /\ Promote(Enqueue(st, t), i) \in Kept(S)
      /\ Promote(Enqueue(st, t), i).blocks = st.blocks
  BY EnqueueKept, PromoteKept
<1> QED BY <1>2, <1>3 DEF Offer

LEMMA ObserveKept ==
  ASSUME NEW S, NEW st \in Kept(S), NEW suspect \in BOOLEAN, NEW used
  PROVE  Observe(st, suspect, used) \in Kept(S) /\ TokensIn(Observe(st, suspect, used)) = TokensIn(st)
<1>1. CASE IsCurrent(st, used)
  <2> DEFINE n == IF suspect THEN st.strikes + 1 ELSE 0
  <2>1. n \in Nat
    BY DEF Kept, Store
  <2> HIDE DEF n
  <2>2. Observe(st, suspect, used) = [st EXCEPT !.strikes = n]
    BY <1>1 DEF Observe, n
  <2> QED BY <2>1, <2>2 DEF Kept, Store, TokensIn
<1>2. CASE ~IsCurrent(st, used)
  BY <1>2 DEF Observe
<1> QED BY <1>1, <1>2

LEMMA RejectKept ==
  ASSUME NEW S \in SUBSET Tokens, NEW st \in Kept(S), NEW used, NEW i
  PROVE  /\ RejectAndPromote(st, used, i) \in Kept(S)
         /\ RejectAndPromote(st, used, i).blocks = st.blocks
<1>1. Emptied(st) \in Kept(S) /\ Emptied(st).blocks = st.blocks
  BY DEF Emptied, Kept, Store
<1> QED BY <1>1, PromoteKept DEF RejectAndPromote

-----------------------------------------------------------------------------
(* The stores of the jobs.                                                 *)

\* Every store made for a key keeps to the tokens of iss for that key.
Stacked(sts, iss) ==
  /\ sts \in [Keys -> Seq(Store)]
  /\ \A k \in Keys : sts[k] \in Seq(Kept(iss[k]))

\* The same stores, each with what it is now.
SameDepth(sts, after) == \A k \in Keys : Len(after[k]) = Len(sts[k])

LEMMA StackFacts ==
  ASSUME NEW sts, NEW iss, Stacked(sts, iss), NEW k \in Keys
  PROVE  /\ Len(sts[k]) \in Nat
         /\ DOMAIN sts[k] = 1..Len(sts[k])
         /\ sts[k] # <<>> <=> Len(sts[k]) >= 1
         /\ \A g \in 1..Len(sts[k]) : sts[k][g] \in Kept(iss[k])
<1>1. sts[k] \in Seq(Kept(iss[k]))
  BY DEF Stacked
<1> QED BY <1>1, LenProperties, ElementOfSeq, EmptySeq

LEMMA StackedMonotone ==
  ASSUME NEW sts, NEW iss, NEW more, Stacked(sts, iss),
         \A k \in Keys : iss[k] \subseteq more[k]
  PROVE  Stacked(sts, more)
<1> SUFFICES ASSUME NEW k \in Keys PROVE sts[k] \in Seq(Kept(more[k]))
  BY DEF Stacked
<1>1. sts[k] \in Seq(Kept(iss[k])) /\ Kept(iss[k]) \subseteq Kept(more[k])
  BY KeptMonotone DEF Stacked
<1> QED BY <1>1, SeqMonotonic

\* A store of k, the job's or a former one, is changed.
LEMMA UpdateStacked ==
  ASSUME NEW sts, NEW iss, Stacked(sts, iss), NEW k \in Keys,
         NEW g \in 1..Len(sts[k]), NEW st \in Kept(iss[k])
  PROVE  /\ Stacked(UpdateStore(sts, k, g, st), iss)
         /\ SameDepth(sts, UpdateStore(sts, k, g, st))
         /\ \A j \in Keys : j # k => UpdateStore(sts, k, g, st)[j] = sts[j]
         /\ \A h \in 1..Len(sts[k]) :
              UpdateStore(sts, k, g, st)[k][h] = IF h = g THEN st ELSE sts[k][h]
<1> DEFINE stack == [sts[k] EXCEPT ![g] = st]
<1>1. sts \in [Keys -> Seq(Store)] /\ sts[k] \in Seq(Kept(iss[k]))
  BY DEF Stacked
<1>2. /\ stack \in Seq(Kept(iss[k])) /\ Len(stack) = Len(sts[k])
      /\ \A h \in 1..Len(sts[k]) : stack[h] = IF h = g THEN st ELSE sts[k][h]
  BY <1>1, ExceptSeq
<1>3. Kept(iss[k]) \subseteq Store
  BY DEF Kept
<1>4. stack \in Seq(Store)
  BY <1>2, <1>3, SeqMonotonic
<1>5. UpdateStore(sts, k, g, st) = [sts EXCEPT ![k] = stack]
  BY DEF UpdateStore
<1> HIDE DEF stack
<1> QED BY <1>1, <1>2, <1>4, <1>5 DEF Stacked, SameDepth

\* Some of the jobs' stores are changed, each by itself.
LEMMA UpdateEachStacked ==
  ASSUME NEW sts, NEW iss, Stacked(sts, iss), NEW S, NEW after,
         after = [k \in Keys |-> IF k \in S
                                 THEN UpdateCurrent(sts, k, Promote(sts[k][Len(sts[k])], now))[k]
                                 ELSE sts[k]],
         iss \in [Keys -> SUBSET Tokens],
         \A k \in Keys \cap S : sts[k] # <<>>
  PROVE  /\ Stacked(after, iss)
         /\ SameDepth(sts, after)
<1> SUFFICES ASSUME NEW k \in Keys
             PROVE  /\ after[k] \in Seq(Store) /\ after[k] \in Seq(Kept(iss[k]))
                    /\ Len(after[k]) = Len(sts[k])
  BY DEF Stacked, SameDepth
<1>1. CASE k \in S
  <2> DEFINE st == Promote(sts[k][Len(sts[k])], now)
  <2>1. Len(sts[k]) \in 1..Len(sts[k])
    BY <1>1, StackFacts
  <2>2. st \in Kept(iss[k])
    BY <2>1, StackFacts, PromoteKept
  <2>3. after[k] = UpdateStore(sts, k, Len(sts[k]), st)[k]
    BY <1>1 DEF UpdateCurrent
  <2> HIDE DEF st
  <2> DEFINE new == UpdateStore(sts, k, Len(sts[k]), st)
  <2>4. Stacked(new, iss) /\ SameDepth(sts, new)
    BY <2>1, <2>2, UpdateStacked
  <2> HIDE DEF new
  <2>5. new[k] \in Seq(Store) /\ new[k] \in Seq(Kept(iss[k])) /\ Len(new[k]) = Len(sts[k])
    BY <2>4 DEF Stacked, SameDepth
  <2> QED BY <2>3, <2>5 DEF new
<1>2. CASE k \notin S
  BY <1>2 DEF Stacked
<1> QED BY <1>1, <1>2

\* The job's store is replaced by another one, and kept for those who hold it.
Replaced(sts, k, st) == [sts EXCEPT ![k] = Append(@, st)]

LEMMA AppendStacked ==
  ASSUME NEW sts, NEW iss, Stacked(sts, iss), NEW k \in Keys, NEW st \in Kept(iss[k])
  PROVE  /\ Stacked(Replaced(sts, k, st), iss)
         /\ \A j \in Keys : Len(Replaced(sts, k, st)[j])
                              = IF j = k THEN Len(sts[j]) + 1 ELSE Len(sts[j])
<1> DEFINE stack == Append(sts[k], st)
<1>1. sts \in [Keys -> Seq(Store)] /\ sts[k] \in Seq(Kept(iss[k]))
  BY DEF Stacked
<1>2. stack \in Seq(Kept(iss[k])) /\ Len(stack) = Len(sts[k]) + 1
  BY <1>1, AppendProperties
<1>3. stack \in Seq(Store) /\ stack # <<>>
  BY <1>1, <1>2, SeqMonotonic, EmptySeq, StackFacts DEF Kept
<1> HIDE DEF stack
<1> DEFINE after == [sts EXCEPT ![k] = stack]
<1>4. Stacked(after, iss)
      /\ \A j \in Keys : Len(after[j]) = IF j = k THEN Len(sts[j]) + 1 ELSE Len(sts[j])
  BY <1>1, <1>2, <1>3 DEF Stacked
<1> QED BY <1>4 DEF stack, Replaced

-----------------------------------------------------------------------------
(* The invariant.                                                          *)

Clock ==
  /\ now \in Nat /\ pauseUntil \in Nat /\ restarts \in Nat
  /\ enabled \in BOOLEAN /\ gentle \in BOOLEAN
  /\ fallback \in {"strict", "passthrough"}

JobsOK == jobs \in [Keys -> JobType \cup {None}]

\* A job has a store, which holds what was issued for it.
StoresOK ==
  /\ issued \in [Keys -> SUBSET Tokens]
  /\ Stacked(stores, issued)
  /\ \A k \in Keys : jobs[k] = None <=> stores[k] = <<>>

DiskOK ==
  \A k \in Keys : disk[k] = None \/ (disk[k] \in SavedState /\ disk[k].token \in issued[k])

\* A thread at work has a job and one of the stores made for it, and a state
\* to replay if and only if it is about to replay it.
ProberFine(q, sts, iss) ==
  /\ q.pc # "idle" => q.key \in Keys /\ q.store \in 1..Len(sts[q.key])
  /\ q.attempt <= q.budget
  /\ q.pc = "replay" <=> q.token # None
  /\ q.token # None => q.token \in iss[q.key]

ProbersOK ==
  /\ prober \in [Probers -> ProberType]
  /\ \A p \in Probers : ProberFine(prober[p], stores, issued)

\* A request that was sent has a job's key, and the state injected, if any, is
\* of that key.
RequestFine(q, i, sts, iss) ==
  /\ q.pc \in {"looked", "sent", "answered"} => q.key \in Keys
  /\ q.pc = "looked" => q.store \in 1..Len(sts[q.key])
  /\ i # None => /\ q.pc \in {"sent", "answered"}
                 /\ i.key = q.key
                 /\ i.snapshot.token \in iss[q.key]

Injected == [key : Keys, snapshot : Snapshot] \cup {None}

RequestsOK ==
  /\ req \in [Requests -> RequestType]
  /\ inflight \in [Requests -> Injected]
  /\ \A r \in Requests : RequestFine(req[r], inflight[r], stores, issued)

ModesOK ==
  /\ modes \in [Requests -> {None, "injected", "fallback-passthrough", "upstream-rejected"}]
  /\ observed \subseteq Requests

\* Calls are late only in the attempt that is under way.
LateFine(q, n) ==
  /\ n <= 2
  /\ q.pc = "attempt" => n = 0
  /\ q.pc = "replay" => n <= 1

LateOK ==
  /\ late \in [Probers -> Nat]
  /\ \A p \in Probers : LateFine(prober[p], late[p])

Shared == JobsOK /\ StoresOK /\ DiskOK

IInv == Clock /\ Shared /\ ProbersOK /\ RequestsOK /\ ModesOK /\ LateOK

LEMMA IInvTypeOK == IInv => TypeOK
<1> SUFFICES ASSUME IInv PROVE TypeOK
  OBVIOUS
<1>1. \A k \in Keys : StoresMade(k) \subseteq Store
  BY StackFacts DEF IInv, Shared, StoresOK, StoresMade, Kept
<1>2. \A k \in Keys : (jobs[k] = None) <=> (stores[k] = <<>>)
  BY DEF IInv, Shared, StoresOK
<1>3. \A k \in Keys : disk[k] = None \/ disk[k] \in SavedState
  BY DEF IInv, Shared, DiskOK
<1>4. ASSUME NEW p \in Probers
      PROVE  /\ prober[p] \in ProberType
             /\ prober[p].pc # "idle" => prober[p].store \in DOMAIN stores[prober[p].key]
             /\ prober[p].attempt <= prober[p].budget
             /\ (prober[p].pc = "replay") <=> (prober[p].token # None)
  BY StackFacts DEF IInv, Shared, StoresOK, ProbersOK, ProberFine
<1>5. ASSUME NEW r \in Requests
      PROVE  /\ req[r] \in RequestType
             /\ req[r].pc = "looked" => req[r].store \in DOMAIN stores[req[r].key]
             /\ inflight[r] = None \/ inflight[r] \in [key : Keys, snapshot : Snapshot]
             /\ modes[r] \in {None, "injected", "fallback-passthrough", "upstream-rejected"}
  BY StackFacts DEF IInv, Shared, StoresOK, RequestsOK, RequestFine, Injected, ModesOK
<1> QED BY <1>1, <1>2, <1>3, <1>4, <1>5 DEF TypeOK, IInv, Clock, Shared, JobsOK, ModesOK

LEMMA InitIInv == Init => IInv
<1> SUFFICES ASSUME Init PROVE IInv
  OBVIOUS
<1> USE DEF Init
<1>1. Clock /\ ModesOK
  BY DEF Clock, ModesOK
<1>2. JobsOK /\ DiskOK
  BY DEF JobsOK, DiskOK
<1>3. StoresOK
  BY EmptySeq DEF StoresOK, Stacked
<1>4. ProbersOK /\ LateOK
  BY DEF ProbersOK, ProberFine, ProberType, IdleProber, LateOK, LateFine
<1>5. RequestsOK
  BY DEF RequestsOK, RequestFine, RequestType, NewRequest, NewLimit, Limit, Injected
<1> QED BY <1>1, <1>2, <1>3, <1>4, <1>5 DEF IInv, Shared

-----------------------------------------------------------------------------
(* What a step leaves alone.                                               *)

\* No store and no token is forgotten.
Grows ==
  /\ issued' \in [Keys -> SUBSET Tokens]
  /\ \A k \in Keys : issued[k] \subseteq issued'[k]
  /\ \A k \in Keys : Len(stores'[k]) >= Len(stores[k])

LEMMA DiskStays ==
  ASSUME DiskOK, Grows, disk' = disk
  PROVE  DiskOK'
BY DEF DiskOK, Grows

\* Where a thread or a request stands is as good with more stores and tokens.
LEMMA FineStays ==
  ASSUME StoresOK, StoresOK', Grows
  PROVE  /\ \A q \in ProberType :
              ProberFine(q, stores, issued) => ProberFine(q, stores', issued')
         /\ \A q \in RequestType, i \in Injected :
              RequestFine(q, i, stores, issued) => RequestFine(q, i, stores', issued')
<1>1. \A k \in Keys : 1..Len(stores[k]) \subseteq 1..Len(stores'[k])
  BY StackFacts DEF StoresOK, Grows
<1>2. ASSUME NEW q \in ProberType, ProberFine(q, stores, issued)
      PROVE  ProberFine(q, stores', issued')
  <2>1. q.token # None => q.key \in Keys
    BY <1>2 DEF ProberFine
  <2> QED BY <1>1, <1>2, <2>1 DEF ProberFine, Grows
<1>3. ASSUME NEW q \in RequestType, NEW i \in Injected, RequestFine(q, i, stores, issued)
      PROVE  RequestFine(q, i, stores', issued')
  <2>1. i # None => q.key \in Keys
    BY <1>3 DEF RequestFine
  <2> QED BY <1>1, <1>3, <2>1 DEF RequestFine, Grows
<1> QED BY <1>2, <1>3

\* At most the thread p moves, to q.
LEMMA ProberMoves ==
  ASSUME StoresOK, StoresOK', Grows, ProbersOK, NEW p \in Probers, NEW q \in ProberType,
         ProberFine(q, stores', issued'), prober' = [prober EXCEPT ![p] = q]
  PROVE  ProbersOK'
<1>1. prober' \in [Probers -> ProberType]
  BY DEF ProbersOK
<1>2. ASSUME NEW o \in Probers PROVE ProberFine(prober'[o], stores', issued')
  <2>1. prober'[o] = IF o = p THEN q ELSE prober[o]
    BY DEF ProbersOK
  <2>2. prober[o] \in ProberType /\ ProberFine(prober[o], stores, issued)
    BY DEF ProbersOK
  <2> QED BY <2>1, <2>2, FineStays
<1> QED BY <1>1, <1>2 DEF ProbersOK

LEMMA ProbersStay ==
  ASSUME StoresOK, StoresOK', Grows, ProbersOK, prober' = prober
  PROVE  ProbersOK'
BY FineStays DEF ProbersOK

\* At most the request r moves, to q, with the state i.
LEMMA RequestMoves ==
  ASSUME StoresOK, StoresOK', Grows, RequestsOK, NEW r \in Requests, NEW q \in RequestType,
         NEW i \in Injected, RequestFine(q, i, stores', issued'),
         req' = [req EXCEPT ![r] = q], inflight' = [inflight EXCEPT ![r] = i]
  PROVE  RequestsOK'
<1>1. req' \in [Requests -> RequestType] /\ inflight' \in [Requests -> Injected]
  BY DEF RequestsOK
<1>2. ASSUME NEW o \in Requests PROVE RequestFine(req'[o], inflight'[o], stores', issued')
  <2>1. req'[o] = (IF o = r THEN q ELSE req[o]) /\ inflight'[o] = (IF o = r THEN i ELSE inflight[o])
    BY DEF RequestsOK
  <2>2. /\ req[o] \in RequestType /\ inflight[o] \in Injected
        /\ RequestFine(req[o], inflight[o], stores, issued)
    BY DEF RequestsOK
  <2> QED BY <2>1, <2>2, FineStays
<1> QED BY <1>1, <1>2 DEF RequestsOK

LEMMA RequestsStay ==
  ASSUME StoresOK, StoresOK', Grows, RequestsOK, req' = req, inflight' = inflight
  PROVE  RequestsOK'
BY FineStays DEF RequestsOK

-----------------------------------------------------------------------------
(* What the steps do to jobs, stores and file.                             *)

\* Jobs are changed but none is made or dropped, and stores are changed or
\* added within what was issued, by now.
LEMMA SharedGrows ==
  ASSUME Shared, issued' \in [Keys -> SUBSET Tokens],
         \A k \in Keys : issued[k] \subseteq issued'[k],
         Stacked(stores', issued'),
         \A k \in Keys : /\ Len(stores'[k]) >= Len(stores[k])
                         /\ stores'[k] = <<>> <=> stores[k] = <<>>,
         jobs' \in [Keys -> JobType \cup {None}],
         \A k \in Keys : jobs'[k] = None <=> jobs[k] = None,
         disk' = disk
  PROVE  Shared' /\ Grows
<1>1. Grows
  BY DEF Grows
<1>2. StoresOK'
  BY DEF Shared, StoresOK
<1> QED BY <1>1, <1>2, DiskStays DEF Shared, JobsOK

\* The same, with no new store and no new token.
LEMMA SharedChanges ==
  ASSUME Shared, Stacked(stores', issued), SameDepth(stores, stores'),
         jobs' \in [Keys -> JobType \cup {None}],
         \A k \in Keys : jobs'[k] = None <=> jobs[k] = None,
         UNCHANGED <<disk, issued>>
  PROVE  Shared' /\ Grows
<1>1. \A k \in Keys : /\ Len(stores'[k]) >= Len(stores[k])
                      /\ stores'[k] = <<>> <=> stores[k] = <<>>
  BY StackFacts DEF Shared, StoresOK, SameDepth
<1>2. issued' \in [Keys -> SUBSET Tokens] /\ Stacked(stores', issued')
  BY DEF Shared, StoresOK
<1> QED BY <1>1, <1>2, SharedGrows

LEMMA SharedStays ==
  ASSUME Shared, UNCHANGED <<jobs, stores, disk, issued>>
  PROVE  Shared' /\ Grows
<1>1. Stacked(stores', issued) /\ SameDepth(stores, stores')
  BY DEF Shared, StoresOK, SameDepth
<1> QED BY <1>1, SharedChanges DEF Shared, JobsOK

\* One job is changed.
LEMMA JobChanges ==
  ASSUME Shared, NEW k \in Keys, NEW job \in JobType, jobs[k] # None,
         jobs' = [jobs EXCEPT ![k] = job], UNCHANGED <<stores, disk, issued>>
  PROVE  Shared' /\ Grows
<1>1. Stacked(stores', issued) /\ SameDepth(stores, stores')
  BY DEF Shared, StoresOK, SameDepth
<1>2. /\ jobs' \in [Keys -> JobType \cup {None}]
      /\ \A j \in Keys : jobs'[j] = None <=> jobs[j] = None
  BY NoneApart DEF Shared, JobsOK
<1> QED BY <1>1, <1>2, SharedChanges

\* One store is changed.
LEMMA StoreChanges ==
  ASSUME Shared, NEW k \in Keys, NEW g \in 1..Len(stores[k]), NEW st \in Kept(issued[k]),
         stores' = UpdateStore(stores, k, g, st), UNCHANGED <<jobs, disk, issued>>
  PROVE  Shared' /\ Grows
<1>1. Stacked(stores', issued) /\ SameDepth(stores, stores')
  BY UpdateStacked DEF Shared, StoresOK
<1> QED BY <1>1, SharedChanges DEF Shared, JobsOK

\* One job and one store are.
LEMMA JobAndStoreChange ==
  ASSUME Shared, NEW k \in Keys, NEW job \in JobType, jobs[k] # None,
         jobs' = [jobs EXCEPT ![k] = job],
         NEW g \in 1..Len(stores[k]), NEW st \in Kept(issued[k]),
         stores' = UpdateStore(stores, k, g, st), UNCHANGED <<disk, issued>>
  PROVE  Shared' /\ Grows
<1>1. Stacked(stores', issued) /\ SameDepth(stores, stores')
  BY UpdateStacked DEF Shared, StoresOK
<1>2. /\ jobs' \in [Keys -> JobType \cup {None}]
      /\ \A j \in Keys : jobs'[j] = None <=> jobs[j] = None
  BY NoneApart DEF Shared, JobsOK
<1> QED BY <1>1, <1>2, SharedChanges

\* A job has a store, the last one made for it.
LEMMA JobHasStore ==
  ASSUME Shared, NEW k \in Keys, jobs[k] # None
  PROVE  /\ Len(stores[k]) \in 1..Len(stores[k])
         /\ StoreOf(k) \in Kept(issued[k])
         /\ issued[k] \in SUBSET Tokens
         /\ jobs[k] \in JobType
<1>1. Len(stores[k]) \in Nat /\ Len(stores[k]) >= 1
  BY StackFacts DEF Shared, StoresOK
<1> QED BY <1>1, StackFacts DEF Shared, StoresOK, JobsOK, StoreOf

\* ensure_job()
LEMMA EnsureJobShared ==
  ASSUME Shared, NEW k \in Keys, NEW account \in {"personal", "team"},
         EnsureJob(k, account), UNCHANGED <<disk, issued>>
  PROVE  /\ Shared' /\ Grows
         /\ JobsWith(k, account)[k] \in JobType
         /\ Len(StoresWith(k, account)[k]) \in 1..Len(stores'[k])
<1>1. jobs' = JobsWith(k, account) /\ stores' = StoresWith(k, account)
  BY DEF EnsureJob
<1>2. CASE jobs[k] = None
  <2> DEFINE job == [account |-> account, next |-> 0, limit |-> NewLimit, seen |-> "none"]
             fresh == NewStore(Blocks(account))
  <2>1. job \in JobType
    BY DEF JobType, NewLimit, Limit
  <2>2. fresh \in Kept(issued[k]) /\ fresh \in Store
    BY NewStoreKept DEF Blocks, Kept
  <2> HIDE DEF job, fresh
  <2>3. jobs' = [jobs EXCEPT ![k] = job]
    BY <1>1, <1>2 DEF JobsWith, job
  <2>4. stores' = [stores EXCEPT ![k] = <<fresh>>]
    BY <1>1, <1>2 DEF StoresWith, fresh
  <2>5. /\ <<fresh>> \in Seq(Store) /\ <<fresh>> \in Seq(Kept(issued[k]))
        /\ Len(<<fresh>>) = 1 /\ <<fresh>> # <<>>
    BY <2>2
  <2>6. stores[k] = <<>> /\ Len(stores[k]) = 0
    BY <1>2 DEF Shared, StoresOK
  <2>7. Stacked(stores', issued')
    BY <2>4, <2>5 DEF Shared, StoresOK, Stacked
  <2>8. \A j \in Keys : jobs'[j] = None <=> stores'[j] = <<>>
    BY <2>1, <2>3, <2>4, <2>5, NoneApart DEF Shared, StoresOK, Stacked, JobsOK
  <2>9. Grows
    BY <2>4, <2>5, <2>6, StackFacts DEF Grows, Shared, StoresOK, Stacked
  <2>10. JobsOK'
    BY <2>1, <2>3 DEF Shared, JobsOK
  <2>11. StoresOK'
    BY <2>7, <2>8 DEF Shared, StoresOK
  <2>12. jobs'[k] = job /\ stores'[k] = <<fresh>>
    BY <2>3, <2>4 DEF Shared, JobsOK, StoresOK, Stacked
  <2> QED BY <1>1, <2>1, <2>5, <2>9, <2>10, <2>11, <2>12, DiskStays DEF Shared
<1>3. CASE jobs[k] # None
  <2> DEFINE job == [jobs[k] EXCEPT !.account = account]
  <2>1. job \in JobType
    BY <1>3, JobHasStore DEF JobType
  <2>2. jobs' = [jobs EXCEPT ![k] = job]
    BY <1>1, <1>3 DEF JobsWith
  <2>3. stores' = stores
    BY <1>1, <1>3 DEF StoresWith
  <2> HIDE DEF job
  <2>4. jobs'[k] = job
    BY <2>2 DEF Shared, JobsOK
  <2> QED BY <1>1, <1>3, <2>1, <2>2, <2>3, <2>4, JobChanges, JobHasStore
<1> QED BY <1>2, <1>3

\* The scans of next_due_job() promote, and put jobs off.
LEMMA ScannedShared ==
  ASSUME Shared, now \in Nat, NEW asked \in SUBSET Known, NEW passed \in SUBSET Known,
         Scanned(asked, passed), UNCHANGED <<disk, issued>>
  PROVE  Shared' /\ Grows
<1> DEFINE S == asked \cup {j \in passed : Reached(j)}
<1>1. S \subseteq Known
  OBVIOUS
<1>2. stores' = [k \in Keys |-> IF k \in S
                   THEN UpdateCurrent(stores, k, Promote(stores[k][Len(stores[k])], now))[k]
                   ELSE stores[k]]
  BY DEF Scanned, StoreOf
<1>3. \A k \in Keys \cap S : stores[k] # <<>>
  BY <1>1 DEF Shared, StoresOK, Known
<1> HIDE DEF S
<1>4. Stacked(stores', issued) /\ SameDepth(stores, stores')
  BY <1>2, <1>3, UpdateEachStacked DEF Shared, StoresOK
<1>5. ASSUME NEW k \in Keys
      PROVE  jobs'[k] \in JobType \cup {None} /\ (jobs'[k] = None <=> jobs[k] = None)
  <2> DEFINE later == now + ProbeCooldown
  <2>1. later \in Nat
    BY RuntimeAssumption
  <2> HIDE DEF later
  <2>2. CASE k \in passed /\ Reached(k) /\ ~Due(k)
    <3>1. jobs'[k] = [jobs[k] EXCEPT !.next = later]
      BY <2>2 DEF Scanned, later
    <3>2. jobs[k] \in JobType
      BY <2>2 DEF Known, Shared, JobsOK
    <3>3. jobs'[k] \in JobType
      BY <2>1, <3>1, <3>2 DEF JobType
    <3> QED BY <3>2, <3>3, NoneApart
  <2>3. CASE ~(k \in passed /\ Reached(k) /\ ~Due(k))
    BY <2>3 DEF Scanned, Shared, JobsOK
  <2> QED BY <2>2, <2>3
<1>6. jobs' \in [Keys -> JobType \cup {None}]
  BY <1>5 DEF Scanned
<1> QED BY <1>4, <1>5, <1>6, SharedChanges

\* record_observation() and save_states()
LEMMA RecordShared ==
  ASSUME Shared, now \in Nat, NEW k \in Keys, jobs[k] # None,
         NEW sts, Stacked(sts, issued), SameDepth(stores, sts),
         NEW seen \in {"failed", "degraded", "verified"}, Record(k, sts, seen),
         issued' = issued
  PROVE  Shared' /\ Grows
<1>1. Stacked(stores, issued) /\ issued \in [Keys -> SUBSET Tokens]
  BY DEF Shared, StoresOK
<1>2. \A j \in Known : sts[j] # <<>> /\ stores[j] # <<>>
  BY <1>1, StackFacts DEF Shared, StoresOK, SameDepth, Known
<1>3. Stacked(stores', issued) /\ SameDepth(sts, stores')
  BY <1>1, <1>2, UpdateEachStacked DEF Record, Swept
<1>4. SameDepth(stores, stores')
  BY <1>3 DEF SameDepth
<1>5. ASSUME NEW j \in Keys
      PROVE  disk'[j] = None \/ (disk'[j] \in SavedState /\ disk'[j].token \in issued[j])
  <2> DEFINE found == AcquireResult(sts[j][Len(sts[j])], now)
  <2>1. CASE j \in Known /\ found # None
    <3>1. disk'[j] = [token |-> found.token, account |-> jobs[j].account]
      BY <2>1 DEF Record, Saved
    <3>2. Len(sts[j]) \in 1..Len(sts[j])
      BY <1>2, <2>1, StackFacts
    <3>3. found \in Snapshot /\ found.token \in issued[j]
      BY <1>1, <2>1, <3>2, StackFacts, AcquireKept
    <3>4. jobs[j] \in JobType
      BY <2>1 DEF Known, Shared, JobsOK
    <3> HIDE DEF found
    <3> QED BY <3>1, <3>3, <3>4 DEF SavedState, Snapshot, JobType
  <2>2. CASE ~(j \in Known /\ found # None)
    BY <2>2 DEF Record, Saved
  <2> QED BY <2>1, <2>2
<1>6. /\ jobs' \in [Keys -> JobType \cup {None}]
      /\ \A j \in Keys : jobs'[j] = None <=> jobs[j] = None
  <2> DEFINE job == [jobs[k] EXCEPT !.seen = seen]
  <2>1. job \in JobType /\ job # None
    BY JobHasStore, NoneApart DEF JobType
  <2>2. jobs' = [jobs EXCEPT ![k] = job]
    BY DEF Record
  <2> HIDE DEF job
  <2> QED BY <2>1, <2>2 DEF Shared, JobsOK
<1>7. Grows
  BY <1>1, <1>4, StackFacts DEF Grows, SameDepth
<1>8. StoresOK'
  <2>1. \A j \in Keys : stores'[j] = <<>> <=> stores[j] = <<>>
    BY <1>1, <1>3, <1>4, StackFacts DEF SameDepth
  <2> QED BY <1>1, <1>3, <1>6, <2>1 DEF Shared, StoresOK
<1>9. DiskOK'
  BY <1>5 DEF DiskOK
<1> QED BY <1>6, <1>7, <1>8, <1>9 DEF Shared, JobsOK

-----------------------------------------------------------------------------
(* The steps, by who moves.                                                *)

\* Nobody moves.
LEMMA StillStep ==
  ASSUME IInv, Clock', Shared', Grows, UNCHANGED <<prober, requestVars, late>>
  PROVE  IInv'
<1>1. ProbersOK' /\ RequestsOK'
  BY ProbersStay, RequestsStay DEF IInv, Shared, requestVars
<1>2. ModesOK' /\ LateOK'
  BY DEF IInv, ModesOK, LateOK, requestVars
<1> QED BY <1>1, <1>2 DEF IInv

\* The thread p moves to q, with n late calls so far.
LEMMA ProberStep ==
  ASSUME IInv, Clock', Shared', Grows, UNCHANGED requestVars,
         NEW p \in Probers, NEW q \in ProberType, ProberFine(q, stores', issued'),
         prober' = [prober EXCEPT ![p] = q],
         NEW n \in Nat, LateFine(q, n), late' = [late EXCEPT ![p] = n]
  PROVE  IInv'
<1>1. ProbersOK' /\ RequestsOK'
  BY ProberMoves, RequestsStay DEF IInv, Shared, requestVars
<1>2. ModesOK'
  BY DEF IInv, ModesOK, requestVars
<1>3. late' \in [Probers -> Nat]
  BY DEF IInv, LateOK
<1>4. ASSUME NEW o \in Probers PROVE LateFine(prober'[o], late'[o])
  <2>1. /\ prober'[o] = (IF o = p THEN q ELSE prober[o])
        /\ late'[o] = (IF o = p THEN n ELSE late[o])
    BY DEF IInv, ProbersOK, LateOK
  <2> QED BY <2>1 DEF IInv, LateOK
<1> QED BY <1>1, <1>2, <1>3, <1>4 DEF IInv, LateOK

\* The thread p moves to where lateness does not matter.
LEMMA ProberGoes ==
  ASSUME IInv, Clock', Shared', Grows, UNCHANGED <<requestVars, late>>,
         NEW p \in Probers, NEW q \in ProberType, ProberFine(q, stores', issued'),
         prober' = [prober EXCEPT ![p] = q], q.pc \notin {"attempt", "replay"}
  PROVE  IInv'
<1>1. late[p] \in Nat /\ late[p] <= 2 /\ late' = [late EXCEPT ![p] = late[p]]
  BY DEF IInv, LateOK, LateFine
<1> QED BY <1>1, ProberStep DEF LateFine

\* The request r moves to q, with the state i.
LEMMA RequestStep ==
  ASSUME IInv, Clock', Shared', Grows, UNCHANGED <<prober, late>>, ModesOK',
         NEW r \in Requests, NEW q \in RequestType, NEW i \in Injected,
         RequestFine(q, i, stores', issued'),
         req' = [req EXCEPT ![r] = q], inflight' = [inflight EXCEPT ![r] = i]
  PROVE  IInv'
<1>1. ProbersOK' /\ RequestsOK'
  BY ProbersStay, RequestMoves DEF IInv, Shared
<1>2. LateOK'
  BY DEF IInv, LateOK
<1> QED BY <1>1, <1>2 DEF IInv

\* The steps that change neither the clock nor a switch.
LEMMA ClockStays ==
  ASSUME Clock, UNCHANGED <<now, pauseUntil, restarts, enabled, gentle, fallback>>
  PROVE  Clock'
BY DEF Clock

LEMMA IdleFine ==
  /\ IdleProber \in ProberType
  /\ IdleProber.pc = "idle" /\ IdleProber.token = None
  /\ IdleProber.attempt = 0 /\ IdleProber.budget = 0
  /\ \A sts, iss : ProberFine(IdleProber, sts, iss)
BY DEF IdleProber, ProberType, ProberFine

-----------------------------------------------------------------------------
(* The worker and the operators choose.                                    *)

LEMMA AutoHarvestKeeps ==
  ASSUME IInv, NEW k \in Keys, NEW account \in {"personal", "team"}, AutoHarvest(k, account)
  PROVE  IInv'
<1>1. Shared' /\ Grows
  BY EnsureJobShared DEF IInv, AutoHarvest, history
<1> QED BY <1>1, ClockStays, StillStep DEF IInv, AutoHarvest, history

\* Where a thread stands that has taken up k and its nth store.
Picked(q, k, n) == [q EXCEPT !.pc = "picked", !.key = k, !.store = n]

LEMMA PickedRecord ==
  ASSUME NEW q \in ProberType, NEW k \in Keys, NEW n \in Nat
  PROVE  /\ Picked(q, k, n) \in ProberType
         /\ Picked(q, k, n).pc = "picked"
         /\ Picked(q, k, n).key = k /\ Picked(q, k, n).store = n
         /\ Picked(q, k, n).token = q.token
         /\ Picked(q, k, n).attempt = q.attempt /\ Picked(q, k, n).budget = q.budget
BY DEF ProberType, Picked

\* The thread p takes up k.
LEMMA TakeUpKeeps ==
  ASSUME IInv, Clock', Shared', Grows, UNCHANGED <<requestVars, late>>,
         NEW p \in Probers, NEW k \in Known, TakeUp(p, k)
  PROVE  IInv'
<1> DEFINE depth == Len(stores[k])
<1>1. k \in Keys /\ depth \in Nat /\ depth \in 1..depth /\ Len(stores'[k]) >= depth
  BY JobHasStore, StackFacts DEF Known, IInv, Grows, Shared, StoresOK
<1>2. Len(stores'[k]) \in Nat
  BY <1>1, StackFacts DEF Shared, StoresOK
<1> DEFINE q == Picked(IdleProber, k, depth)
<1>3. prober' = [prober EXCEPT ![p] = q]
  BY DEF TakeUp, Picked
<1> HIDE DEF depth
<1>idle. IdleProber \in ProberType
  BY IdleFine
<1>4. /\ q \in ProberType /\ q.pc = "picked" /\ q.key = k /\ q.store = depth
      /\ q.token = IdleProber.token
      /\ q.attempt = IdleProber.attempt /\ q.budget = IdleProber.budget
  BY <1>1, <1>idle, PickedRecord
<1> HIDE DEF q
<1>5. ProberFine(q, stores', issued')
  BY <1>1, <1>2, <1>4, IdleFine DEF ProberFine
<1> QED BY <1>3, <1>4, <1>5, ProberGoes

LEMMA PickDueKeeps ==
  ASSUME IInv, NEW k \in Keys, PickDue(k)
  PROVE  IInv'
<1>1. k \in Known
  BY DEF PickDue, Eligible, Scope, DefaultJobs
<1>2. PICK passed \in SUBSET (Scope \ {k}), asked \in SUBSET DefaultJobs :
        Scanned(asked \cup {k}, passed)
  BY DEF PickDue
<1>3. asked \cup {k} \in SUBSET Known /\ passed \in SUBSET Known
  BY <1>1 DEF Scope, DefaultJobs
<1>4. now \in Nat /\ UNCHANGED <<disk, issued>>
  BY DEF IInv, Clock, PickDue, history
<1>5. Shared' /\ Grows
  BY <1>2, <1>3, <1>4, ScannedShared DEF IInv
<1>6. Clock' /\ Worker \in Probers /\ TakeUp(Worker, k) /\ UNCHANGED <<requestVars, late>>
  BY ClockStays DEF IInv, PickDue, history, Probers
<1> QED BY <1>1, <1>5, <1>6, TakeUpKeeps

LEMMA PickNoneKeeps ==
  ASSUME IInv, PickNone
  PROVE  IInv'
<1>1. PICK asked \in SUBSET DefaultJobs : Scanned(asked, Known)
  BY DEF PickNone
<1>2. asked \in SUBSET Known /\ Known \in SUBSET Known
  BY DEF DefaultJobs
<1>3. now \in Nat /\ UNCHANGED <<disk, issued>>
  BY DEF IInv, Clock, PickNone, history
<1>4. Shared' /\ Grows
  BY <1>1, <1>2, <1>3, ScannedShared DEF IInv
<1> QED BY <1>4, ClockStays, StillStep DEF IInv, PickNone, history

LEMMA HarvestNowKeeps ==
  ASSUME IInv, NEW p \in Operators, NEW k \in Keys, HarvestNow(p, k)
  PROVE  IInv'
<1>1. /\ Shared' /\ Grows
  BY SharedStays DEF IInv, HarvestNow, runtimeVars, history
<1>2. Clock' /\ p \in Probers /\ k \in Known /\ TakeUp(p, k) /\ UNCHANGED <<requestVars, late>>
  BY ClockStays DEF IInv, HarvestNow, runtimeVars, history, Probers
<1> QED BY <1>1, <1>2, TakeUpKeeps

-----------------------------------------------------------------------------
(* A round.                                                                *)

\* What is known of a thread at work.
LEMMA AtWork ==
  ASSUME IInv, NEW p \in Probers, prober[p].pc # "idle"
  PROVE  /\ prober[p] \in ProberType /\ ProberFine(prober[p], stores, issued)
         /\ prober[p].key \in Keys /\ jobs[prober[p].key] # None
         /\ jobs[prober[p].key] \in JobType
         /\ prober[p].store \in 1..Len(stores[prober[p].key])
         /\ Held(p) \in Kept(issued[prober[p].key])
         /\ issued[prober[p].key] \in SUBSET Tokens
<1>1. /\ prober[p] \in ProberType /\ ProberFine(prober[p], stores, issued)
      /\ prober[p].key \in Keys /\ prober[p].store \in 1..Len(stores[prober[p].key])
  BY DEF IInv, ProbersOK, ProberFine
<1>2. stores[prober[p].key] # <<>> /\ Held(p) \in Kept(issued[prober[p].key])
  BY <1>1, StackFacts DEF IInv, Shared, StoresOK, Held
<1>3. jobs[prober[p].key] # None
  BY <1>1, <1>2 DEF IInv, Shared, StoresOK
<1> QED BY <1>1, <1>2, <1>3, JobHasStore DEF IInv

\* A round lets go of its job.
LEMMA RefuseRoundKeeps ==
  ASSUME IInv, NEW p \in Probers, RefuseRound(p)
  PROVE  IInv'
<1> DEFINE k == prober[p].key
           later == now + RejectCooldown
           job == [jobs[k] EXCEPT !.next = later]
<1>1. k \in Keys /\ jobs[k] # None /\ jobs[k] \in JobType
  BY AtWork DEF RefuseRound
<1>2. later \in Nat
  BY CooldownAssumption DEF IInv, Clock
<1>3. jobs' = [jobs EXCEPT ![k] = job] /\ UNCHANGED <<stores, disk, issued>>
  BY DEF RefuseRound, history
<1> HIDE DEF later
<1>4. job \in JobType
  BY <1>1, <1>2 DEF JobType
<1> HIDE DEF job, k
<1>5. Shared' /\ Grows
  BY <1>1, <1>3, <1>4, JobChanges DEF IInv
<1> QED BY <1>5, IdleFine, ClockStays, ProberGoes DEF IInv, RefuseRound, history

LEMMA SkipSatisfiedKeeps ==
  ASSUME IInv, NEW k \in Known, SkipSatisfied(k)
  PROVE  IInv'
<1>1. /\ k \in Keys /\ Len(stores[k]) \in 1..Len(stores[k])
      /\ Acquire(StoreOf(k), now) \in Kept(issued[k])
  BY JobHasStore, AcquireKept DEF Known, IInv
<1>2. stores' = UpdateStore(stores, k, Len(stores[k]), Acquire(StoreOf(k), now))
  BY DEF SkipSatisfied, UpdateCurrent
<1>3. Shared' /\ Grows
  BY <1>1, <1>2, StoreChanges DEF IInv, SkipSatisfied, history
<1>4. Worker \in Probers
  BY DEF Probers
<1> QED BY <1>3, <1>4, IdleFine, ClockStays, ProberGoes DEF IInv, SkipSatisfied, history

\* Where a thread stands that has begun a round of n attempts.
Begun(q, n, i) == [q EXCEPT !.pc = "attempt", !.start = i, !.attempt = 1, !.budget = n]

LEMMA BegunRecord ==
  ASSUME NEW q \in ProberType, NEW n \in Nat, NEW i \in Nat
  PROVE  /\ Begun(q, n, i) \in ProberType
         /\ Begun(q, n, i).pc = "attempt"
         /\ Begun(q, n, i).key = q.key /\ Begun(q, n, i).store = q.store
         /\ Begun(q, n, i).token = q.token
         /\ Begun(q, n, i).attempt = 1 /\ Begun(q, n, i).budget = n
BY DEF ProberType, Begun

LEMMA BeginRoundKeeps ==
  ASSUME IInv, NEW p \in Probers, BeginRound(p)
  PROVE  IInv'
<1> DEFINE k == prober[p].key
           later == now + ProbeCooldown
           job == [jobs[k] EXCEPT !.next = later]
           n == IF AcquireResult(Held(p), now) # None THEN HarvestAttempts ELSE FreshBudget
           q == Begun(prober[p], n, now)
<1>1. prober[p].pc = "picked" /\ Clock /\ Shared /\ now \in Nat
  BY DEF BeginRound, IInv, Clock
<1>2. /\ prober[p] \in ProberType /\ ProberFine(prober[p], stores, issued)
      /\ k \in Keys /\ jobs[k] # None /\ jobs[k] \in JobType
      /\ prober[p].store \in 1..Len(stores[k])
      /\ Acquire(Held(p), now) \in Kept(issued[k])
  BY <1>1, AtWork, AcquireKept
<1>3. later \in Nat
  BY <1>1, RuntimeAssumption
<1>4. n \in Nat /\ n >= 1
  BY RuntimeAssumption DEF FreshBudget
<1>5. jobs' = [jobs EXCEPT ![k] = job] /\ UNCHANGED <<disk, issued>>
  BY DEF BeginRound
<1>6. stores' = UpdateStore(stores, k, prober[p].store, Acquire(Held(p), now))
  BY DEF BeginRound
<1>7. prober' = [prober EXCEPT ![p] = q]
  BY DEF BeginRound, Begun, IInv, ProbersOK
<1>8. late' = [late EXCEPT ![p] = 0] /\ UNCHANGED requestVars /\ Clock'
  BY <1>1, ClockStays DEF BeginRound
<1> HIDE DEF later, n
<1>9. job \in JobType
  BY <1>2, <1>3 DEF JobType
<1> HIDE DEF job
<1>10. Shared' /\ Grows
  BY <1>1, <1>2, <1>5, <1>6, <1>9, JobAndStoreChange
<1>11. /\ q \in ProberType /\ q.pc = "attempt" /\ q.key = k /\ q.store = prober[p].store
       /\ q.token = prober[p].token /\ q.attempt = 1 /\ q.budget = n
  <2>1. prober[p] \in ProberType /\ n \in Nat /\ now \in Nat
    BY <1>1, <1>2, <1>4
  <2> QED BY <2>1, BegunRecord
<1>12. ProberFine(prober[p], stores', issued')
  BY <1>2, <1>10, FineStays DEF IInv, Shared
<1> HIDE DEF q
<1>13. ProberFine(q, stores', issued') /\ LateFine(q, 0)
  BY <1>1, <1>4, <1>11, <1>12 DEF ProberFine, LateFine
<1> QED BY <1>7, <1>8, <1>10, <1>11, <1>13, ProberStep

\* Where a thread stands that has judged an attempt.
Judged(q, pc, n, worse) == [q EXCEPT !.pc = pc, !.attempt = n, !.degraded = worse]

LEMMA JudgedRecord ==
  ASSUME NEW q \in ProberType, NEW pc \in {"attempt", "end"}, NEW n \in Nat,
         NEW worse \in BOOLEAN
  PROVE  /\ Judged(q, pc, n, worse) \in ProberType
         /\ Judged(q, pc, n, worse).pc = pc
         /\ Judged(q, pc, n, worse).key = q.key /\ Judged(q, pc, n, worse).store = q.store
         /\ Judged(q, pc, n, worse).token = q.token
         /\ Judged(q, pc, n, worse).budget = q.budget
         /\ Judged(q, pc, n, worse).attempt = n
BY DEF ProberType, Judged

LEMMA JudgeKeeps ==
  ASSUME IInv, NEW p \in Probers, Judge(p)
  PROVE  IInv'
<1> DEFINE pc == IF GoesOn(p) THEN "attempt" ELSE "end"
           tried == IF GoesOn(p) THEN prober[p].attempt + 1 ELSE prober[p].attempt
           q == Judged(prober[p], pc, tried, Degraded(p))
           n == IF Rejected(prober[p].key) THEN late[p] ELSE 0
<1>1. /\ prober[p].pc = "judge" /\ prober[p] \in ProberType
      /\ ProberFine(prober[p], stores, issued)
  BY AtWork DEF Judge
<1>2. Shared' /\ Grows /\ Clock' /\ UNCHANGED requestVars
  BY SharedStays, ClockStays DEF IInv, Judge, runtimeVars
<1>3. prober' = [prober EXCEPT ![p] = q]
  BY DEF Judge, Judged, IInv, ProbersOK
<1>4. n \in Nat /\ n <= 2 /\ late' = [late EXCEPT ![p] = n]
  <2>1. late \in [Probers -> Nat] /\ late[p] <= 2
    BY DEF IInv, LateOK, LateFine
  <2>2. late' = IF Rejected(prober[p].key) THEN late ELSE [late EXCEPT ![p] = 0]
    BY DEF Judge
  <2>3. CASE Rejected(prober[p].key)
    BY <2>1, <2>2, <2>3
  <2>4. CASE ~Rejected(prober[p].key)
    BY <2>1, <2>2, <2>4
  <2> QED BY <2>3, <2>4
<1>5. prober[p].attempt \in Nat /\ prober[p].budget \in Nat
  BY <1>1 DEF ProberType
<1>6. GoesOn(p) => prober[p].attempt < prober[p].budget /\ n = 0
  BY DEF GoesOn
<1>7. /\ q \in ProberType /\ q.pc = pc /\ q.attempt = tried
      /\ q.key = prober[p].key /\ q.store = prober[p].store
      /\ q.token = prober[p].token /\ q.budget = prober[p].budget
  <2>1. pc \in {"attempt", "end"} /\ tried \in Nat
    BY <1>5
  <2>2. Degraded(p) \in BOOLEAN
    BY DEF Degraded
  <2> HIDE DEF pc, tried
  <2> QED BY <1>1, <2>1, <2>2, JudgedRecord
<1>8. ProberFine(prober[p], stores', issued')
  BY <1>1, <1>2, FineStays DEF IInv, Shared
<1> HIDE DEF q, n
<1>9. ProberFine(q, stores', issued') /\ LateFine(q, n)
  BY <1>1, <1>4, <1>5, <1>6, <1>7, <1>8 DEF ProberFine, LateFine
<1> QED BY <1>2, <1>3, <1>4, <1>7, <1>9, ProberStep

LEMMA EndRoundKeeps ==
  ASSUME IInv, NEW p \in Probers, EndRound(p)
  PROVE  IInv'
<1> DEFINE k == prober[p].key
           later == prober[p].start + RoundCooldown(p)
           job == [jobs[k] EXCEPT !.next = later]
<1>1. k \in Keys /\ jobs[k] # None /\ jobs[k] \in JobType /\ prober[p] \in ProberType
  BY AtWork DEF EndRound
<1>2. later \in Nat
  <2>1. prober[p].start \in Nat
    BY <1>1 DEF ProberType
  <2> QED BY <2>1, RuntimeAssumption DEF RoundCooldown
<1>3. jobs' = [jobs EXCEPT ![k] = job] /\ UNCHANGED <<stores, disk, issued>>
  BY DEF EndRound, history
<1> HIDE DEF later
<1>4. job \in JobType
  BY <1>1, <1>2 DEF JobType
<1> HIDE DEF job, k
<1>5. Shared' /\ Grows
  BY <1>1, <1>3, <1>4, JobChanges DEF IInv
<1> QED BY <1>5, IdleFine, ClockStays, ProberGoes DEF IInv, EndRound, history

-----------------------------------------------------------------------------
(* A call.                                                                 *)

LEMMA CalledLate ==
  ASSUME IInv, NEW p \in Probers, Called(p)
  PROVE  \E n \in Nat : n <= late[p] + 1 /\ late' = [late EXCEPT ![p] = n]
<1>1. late \in [Probers -> Nat] /\ late[p] \in Nat /\ late[p] + 1 \in Nat
  BY DEF IInv, LateOK
<1>2. late' = [late EXCEPT ![p] = late[p] + 1] \/ late' = [late EXCEPT ![p] = late[p]]
  BY <1>1 DEF Called
<1> QED BY <1>1, <1>2

\* Where a thread stands after the last call of an attempt.
Finished(q, result) == [q EXCEPT !.pc = "judge", !.result = result, !.token = None]

Results == {"settled", "rejected", "overloaded", "degraded", "failed", "unavailable", "unrecorded"}

LEMMA FinishedRecord ==
  ASSUME NEW q \in ProberType, NEW result \in Results
  PROVE  /\ Finished(q, result) \in ProberType
         /\ Finished(q, result).pc = "judge"
         /\ Finished(q, result).key = q.key /\ Finished(q, result).store = q.store
         /\ Finished(q, result).token = None
         /\ Finished(q, result).attempt = q.attempt /\ Finished(q, result).budget = q.budget
BY DEF ProberType, Finished, Results

\* A call that ends an attempt.
LEMMA FinishKeeps ==
  ASSUME IInv, Clock', Shared', Grows, UNCHANGED requestVars,
         NEW p \in Probers, prober[p].pc \in {"attempt", "replay"},
         NEW result \in Results, Finish(p, result), Called(p)
  PROVE  IInv'
<1> DEFINE q == Finished(prober[p], result)
<1>1. prober[p] \in ProberType /\ ProberFine(prober[p], stores, issued)
  BY AtWork
<1>2. prober' = [prober EXCEPT ![p] = q]
  BY DEF Finish, Finished, IInv, ProbersOK
<1>3. /\ q \in ProberType /\ q.pc = "judge" /\ q.key = prober[p].key
      /\ q.store = prober[p].store /\ q.token = None
      /\ q.attempt = prober[p].attempt /\ q.budget = prober[p].budget
  BY <1>1, FinishedRecord
<1>4. ProberFine(prober[p], stores', issued')
  BY <1>1, FineStays DEF IInv, Shared
<1>5. PICK n \in Nat : n <= late[p] + 1 /\ late' = [late EXCEPT ![p] = n]
  BY CalledLate
<1> HIDE DEF q
<1>6. late[p] \in Nat /\ late[p] <= 1
  BY DEF IInv, LateOK, LateFine
<1>7. ProberFine(q, stores', issued')
  BY <1>3, <1>4 DEF ProberFine
<1>8. LateFine(q, n)
  BY <1>3, <1>5, <1>6 DEF LateFine
<1> QED BY <1>2, <1>3, <1>5, <1>7, <1>8, ProberStep

\* An attempt that ends with an observation and the stores as they are.
LEMMA ObservationKeeps ==
  ASSUME IInv, Clock', UNCHANGED <<requestVars, issued>>,
         NEW p \in Probers, prober[p].pc \in {"attempt", "replay"},
         NEW seen \in {"failed", "degraded"}, Record(prober[p].key, stores, seen),
         NEW result \in Results, Finish(p, result), Called(p)
  PROVE  IInv'
<1>1. prober[p].key \in Keys /\ jobs[prober[p].key] # None
  BY AtWork
<1>2. Stacked(stores, issued) /\ SameDepth(stores, stores) /\ now \in Nat /\ Shared
  BY DEF IInv, Clock, Shared, StoresOK, SameDepth
<1>3. Shared' /\ Grows
  BY <1>1, <1>2, RecordShared
<1> QED BY <1>3, FinishKeeps

LEMMA ProbeFailsKeeps ==
  ASSUME IInv, NEW p \in Probers, NEW result, ProbeFails(p, result)
  PROVE  IInv'
<1>1. Clock' /\ UNCHANGED <<requestVars, issued>>
  BY ClockStays DEF IInv, ProbeFails
<1>2. result \in Results /\ prober[p].pc = "attempt"
  BY DEF ProbeFails, Results
<1> QED BY <1>1, <1>2, ObservationKeeps DEF ProbeFails

LEMMA ProbeDegradedKeeps ==
  ASSUME IInv, NEW p \in Probers, ProbeDegraded(p)
  PROVE  IInv'
<1>1. Clock' /\ UNCHANGED <<requestVars, issued>>
  BY ClockStays DEF IInv, ProbeDegraded
<1>2. "degraded" \in Results /\ prober[p].pc = "attempt"
  BY DEF ProbeDegraded, Results
<1> QED BY <1>1, <1>2, ObservationKeeps DEF ProbeDegraded

LEMMA ProbeOverloadedKeeps ==
  ASSUME IInv, NEW p \in Probers, ProbeOverloaded(p)
  PROVE  IInv'
<1>1. now + OverloadPause \in Nat
  BY RuntimeAssumption DEF IInv, Clock
<1>2. Clock' /\ UNCHANGED <<requestVars, issued>>
  BY <1>1 DEF IInv, Clock, ProbeOverloaded, Longer
<1>3. "overloaded" \in Results /\ prober[p].pc = "attempt"
  BY DEF ProbeOverloaded, Results
<1> QED BY <1>2, <1>3, ObservationKeeps DEF ProbeOverloaded

LEMMA ReplayFailsKeeps ==
  ASSUME IInv, NEW p \in Probers, ReplayFails(p)
  PROVE  IInv'
<1>1. Clock' /\ UNCHANGED <<requestVars, issued>>
  BY ClockStays DEF IInv, ReplayFails
<1>2. "failed" \in Results /\ prober[p].pc = "replay"
  BY DEF ReplayFails, Results
<1> QED BY <1>1, <1>2, ObservationKeeps DEF ReplayFails

\* A call whose outcome is not recorded.
LEMMA UnrecordedKeeps ==
  ASSUME IInv, NEW p \in Probers, NEW result,
         ProbeUnrecorded(p, result) \/ ReplayUnrecorded(p, result)
  PROVE  IInv'
<1>1. /\ UNCHANGED <<now, runtimeVars, requestVars, disk, restarts, issued>>
      /\ result \in Results /\ prober[p].pc \in {"attempt", "replay"}
      /\ Finish(p, result) /\ Called(p)
  BY DEF ProbeUnrecorded, ReplayUnrecorded, Results
<1>2. Shared' /\ Grows /\ Clock'
  BY <1>1, SharedStays, ClockStays DEF IInv, runtimeVars
<1> QED BY <1>1, <1>2, FinishKeeps

\* The limit of a credential after one more rejection.
LEMMA LimitedType ==
  ASSUME NEW l \in Limit, NEW status \in RejectedStatus, NEW retryAfter \in Nat, NEW i \in Nat
  PROVE  /\ Limited(l, status, retryAfter, i) \in Limit
         /\ l.blocked => Limited(l, status, retryAfter, i).blocked
         /\ Limited(l, status, retryAfter, i).until >= l.until
         /\ i + Longer(RejectCooldown, retryAfter) \in Nat
<1>1. Longer(retryAfter, RejectCooldown) \in Nat /\ Longer(RejectCooldown, retryAfter) \in Nat
  BY CooldownAssumption DEF Longer
<1> DEFINE span == Longer(retryAfter, RejectCooldown)
           longest == Longer(l.until, i + span)
<1>2. l.blocked \in BOOLEAN /\ l.until \in Int /\ l.status \in RejectedStatus \cup {0}
  BY DEF Limit
<1>3. longest \in Int /\ longest >= l.until
  BY <1>1, <1>2 DEF Longer
<1> HIDE DEF longest
<1>4. CASE status \in Verdicts
  <2>1. Limited(l, status, retryAfter, i)
          = [blocked |-> TRUE, status |-> status, until |-> l.until]
    BY <1>4 DEF Limited
  <2> QED BY <1>1, <1>2, <2>1 DEF Limit
<1>5. CASE status \notin Verdicts
  <2>1. Limited(l, status, retryAfter, i)
          = [blocked |-> l.blocked, status |-> IF l.blocked THEN l.status ELSE 429,
             until |-> longest]
    BY <1>5 DEF Limited, longest
  <2> QED BY <1>1, <1>2, <1>3, <2>1 DEF Limit, RejectedStatus
<1> QED BY <1>4, <1>5

LEMMA ProbeRejectedKeeps ==
  ASSUME IInv, NEW p \in Probers, NEW status \in RejectedStatus, NEW retryAfter \in RetryAfters,
         ProbeRejected(p, status, retryAfter)
  PROVE  IInv'
<1> DEFINE k == prober[p].key
           limit == Limited(jobs[k].limit, status, retryAfter, now)
           later == now + Longer(RejectCooldown, retryAfter)
           job == [jobs[k] EXCEPT !.limit = limit, !.next = later]
<1>1. prober[p].pc = "attempt" /\ "rejected" \in Results
  BY DEF ProbeRejected, Results
<1>2. k \in Keys /\ jobs[k] # None /\ jobs[k] \in JobType
  BY <1>1, AtWork
<1>3. limit \in Limit /\ later \in Nat
  <2>1. jobs[k].limit \in Limit /\ retryAfter \in Nat /\ now \in Nat
    BY <1>2, RuntimeAssumption DEF JobType, IInv, Clock
  <2> QED BY <2>1, LimitedType
<1>4. jobs' = [jobs EXCEPT ![k] = job]
  BY <1>2 DEF ProbeRejected, IInv, Shared, JobsOK
<1> HIDE DEF limit, later
<1>5. job \in JobType
  BY <1>2, <1>3 DEF JobType
<1> HIDE DEF job, k
<1>6. Shared' /\ Grows
  BY <1>2, <1>4, <1>5, JobChanges DEF IInv, ProbeRejected
<1>7. Clock' /\ UNCHANGED requestVars
  BY ClockStays DEF IInv, ProbeRejected
<1> QED BY <1>1, <1>6, <1>7, FinishKeeps DEF ProbeRejected

\* A token more is issued.
LEMMA IssueGrows ==
  ASSUME Shared, NEW k \in Keys, NEW t \in Tokens, Issue(k, t)
  PROVE  /\ issued' \in [Keys -> SUBSET Tokens]
         /\ \A j \in Keys : issued[j] \subseteq issued'[j]
         /\ t \in issued'[k]
         /\ Stacked(stores, issued')
<1>1. /\ issued' \in [Keys -> SUBSET Tokens]
      /\ \A j \in Keys : issued[j] \subseteq issued'[j]
      /\ t \in issued'[k]
  BY DEF Issue, Shared, StoresOK
<1> QED BY <1>1, StackedMonotone DEF Shared, StoresOK

\* Where a thread stands that is about to replay t.
Replaying(q, t) == [q EXCEPT !.pc = "replay", !.token = t]

LEMMA ReplayingRecord ==
  ASSUME NEW q \in ProberType, NEW t \in Tokens
  PROVE  /\ Replaying(q, t) \in ProberType
         /\ Replaying(q, t).pc = "replay" /\ Replaying(q, t).token = t
         /\ Replaying(q, t).key = q.key /\ Replaying(q, t).store = q.store
         /\ Replaying(q, t).attempt = q.attempt /\ Replaying(q, t).budget = q.budget
BY DEF ProberType, Replaying

LEMMA ProbeIssuesKeeps ==
  ASSUME IInv, NEW p \in Probers, NEW t \in Tokens, ProbeIssues(p, t)
  PROVE  IInv'
<1> DEFINE k == prober[p].key
           q == Replaying(prober[p], t)
<1>1. /\ prober[p].pc = "attempt" /\ prober[p] \in ProberType
      /\ ProberFine(prober[p], stores, issued) /\ k \in Keys
  BY AtWork DEF ProbeIssues
<1>2. Issue(k, t) /\ UNCHANGED <<now, runtimeVars, requestVars, disk, restarts>> /\ Called(p)
  BY DEF ProbeIssues
<1>3. prober' = [prober EXCEPT ![p] = q]
  BY DEF ProbeIssues, Replaying, IInv, ProbersOK
<1>4. /\ issued' \in [Keys -> SUBSET Tokens] /\ t \in issued'[k]
      /\ \A j \in Keys : issued[j] \subseteq issued'[j]
      /\ Stacked(stores', issued')
  BY <1>1, <1>2, IssueGrows DEF IInv, runtimeVars
<1>5. UNCHANGED <<jobs, stores, disk>>
  BY <1>2 DEF runtimeVars
<1>6. \A j \in Keys : Len(stores[j]) \in Nat
  BY StackFacts DEF IInv, Shared, StoresOK
<1>7. Shared' /\ Grows
  BY <1>4, <1>5, <1>6, SharedGrows DEF IInv, Shared, JobsOK
<1>8. Clock'
  BY <1>2, ClockStays DEF IInv, runtimeVars
<1>9. /\ q \in ProberType /\ q.pc = "replay" /\ q.token = t
      /\ q.key = k /\ q.store = prober[p].store
      /\ q.attempt = prober[p].attempt /\ q.budget = prober[p].budget
  BY <1>1, ReplayingRecord
<1>10. ProberFine(prober[p], stores', issued')
  BY <1>1, <1>7, FineStays DEF IInv, Shared
<1>11. PICK n \in Nat : n <= late[p] + 1 /\ late' = [late EXCEPT ![p] = n]
  BY <1>2, CalledLate
<1>12. late[p] = 0
  BY <1>1 DEF IInv, LateOK, LateFine
<1> HIDE DEF q
<1>13. ProberFine(q, stores', issued')
  BY <1>1, <1>4, <1>9, <1>10, NoneApart DEF ProberFine
<1>14. LateFine(q, n)
  BY <1>9, <1>11, <1>12 DEF LateFine
<1> QED BY <1>2, <1>3, <1>7, <1>8, <1>9, <1>11, <1>13, <1>14, ProberStep

\* Where a thread stands whose replay has passed.
Passed(q) == [q EXCEPT !.pc = "passed", !.token = None]

LEMMA PassedRecord ==
  ASSUME NEW q \in ProberType
  PROVE  /\ Passed(q) \in ProberType
         /\ Passed(q).pc = "passed" /\ Passed(q).token = None
         /\ Passed(q).key = q.key /\ Passed(q).store = q.store /\ Passed(q).result = q.result
         /\ Passed(q).attempt = q.attempt /\ Passed(q).budget = q.budget
BY DEF ProberType, Passed

LEMMA ReplayPassesKeeps ==
  ASSUME IInv, NEW p \in Probers, ReplayPasses(p)
  PROVE  IInv'
<1> DEFINE k == prober[p].key
           st == Offer(Held(p), prober[p].token, now)
           q == Passed(prober[p])
<1>1. prober[p].pc = "replay" /\ Called(p) /\ prober' = [prober EXCEPT ![p] = q]
  BY DEF ReplayPasses, Passed, IInv, ProbersOK
<1>2. /\ k \in Keys /\ prober[p].store \in 1..Len(stores[k])
      /\ prober[p] \in ProberType /\ ProberFine(prober[p], stores, issued)
      /\ Held(p) \in Kept(issued[k]) /\ issued[k] \in SUBSET Tokens
  BY <1>1, AtWork
<1>3. st \in Kept(issued[k])
  <2>1. prober[p].token \in issued[k]
    BY <1>1, <1>2 DEF ProberFine
  <2> QED BY <1>2, <2>1, OfferKept
<1>4. stores' = UpdateStore(stores, k, prober[p].store, st)
  BY DEF ReplayPasses
<1> HIDE DEF st
<1>5. Shared' /\ Grows
  BY <1>2, <1>3, <1>4, StoreChanges DEF IInv, ReplayPasses
<1>6. Clock' /\ UNCHANGED requestVars
  BY DEF IInv, Clock, ReplayPasses
<1>7. /\ q \in ProberType /\ q.pc = "passed" /\ q.token = None
      /\ q.key = k /\ q.store = prober[p].store
      /\ q.attempt = prober[p].attempt /\ q.budget = prober[p].budget
  BY <1>2, PassedRecord
<1>8. ProberFine(prober[p], stores', issued')
  BY <1>2, <1>5, FineStays DEF IInv, Shared
<1>9. PICK n \in Nat : n <= late[p] + 1 /\ late' = [late EXCEPT ![p] = n]
  BY <1>1, CalledLate
<1>10. late[p] \in Nat /\ late[p] <= 1
  BY <1>1 DEF IInv, LateOK, LateFine
<1> HIDE DEF q
<1>11. ProberFine(q, stores', issued')
  BY <1>1, <1>7, <1>8 DEF ProberFine
<1>12. LateFine(q, n)
  BY <1>7, <1>9, <1>10 DEF LateFine
<1> QED BY <1>1, <1>5, <1>6, <1>7, <1>9, <1>11, <1>12, ProberStep

LEMMA RecordPassedKeeps ==
  ASSUME IInv, NEW p \in Probers, RecordPassed(p)
  PROVE  IInv'
<1> DEFINE q == Finished(prober[p], "settled")
<1>1. /\ prober[p].pc = "passed" /\ Record(prober[p].key, stores, "verified")
      /\ UNCHANGED <<now, enabled, fallback, pauseUntil, gentle, requestVars, restarts, issued, late>>
  BY DEF RecordPassed, history
<1>2. /\ prober[p].key \in Keys /\ jobs[prober[p].key] # None
      /\ prober[p] \in ProberType /\ ProberFine(prober[p], stores, issued)
  BY <1>1, AtWork
<1>3. prober' = [prober EXCEPT ![p] = q]
  BY DEF RecordPassed, Finish, Finished, IInv, ProbersOK
<1>4. Stacked(stores, issued) /\ SameDepth(stores, stores) /\ now \in Nat /\ Shared
  BY DEF IInv, Clock, Shared, StoresOK, SameDepth
<1>5. Shared' /\ Grows
  BY <1>1, <1>2, <1>4, RecordShared
<1>6. /\ q \in ProberType /\ q.pc = "judge" /\ q.key = prober[p].key
      /\ q.store = prober[p].store /\ q.token = None
      /\ q.attempt = prober[p].attempt /\ q.budget = prober[p].budget
  BY <1>2, FinishedRecord DEF Results
<1>7. ProberFine(prober[p], stores', issued')
  BY <1>2, <1>5, FineStays DEF IInv, Shared
<1> HIDE DEF q
<1>8. ProberFine(q, stores', issued')
  BY <1>1, <1>6, <1>7 DEF ProberFine
<1> QED BY <1>1, <1>3, <1>5, <1>6, <1>8, ClockStays, ProberGoes DEF IInv

-----------------------------------------------------------------------------
(* A request.                                                              *)

RequestStages == {"new", "admitted", "refused", "looked", "sent", "answered", "done"}

\* Where a request stands that has moved on, with the key k.
Moved(q, pc, k) == [q EXCEPT !.pc = pc, !.key = k]

LEMMA MovedRecord ==
  ASSUME NEW q \in RequestType, NEW pc \in RequestStages, NEW k \in Keys \cup {None}
  PROVE  /\ Moved(q, pc, k) \in RequestType
         /\ Moved(q, pc, k).pc = pc /\ Moved(q, pc, k).key = k
BY DEF RequestType, RequestStages, Moved

LEMMA NewFine == NewRequest \in RequestType
BY DEF NewRequest, RequestType, NewLimit, Limit

\* The request r goes on, with the state it has.
LEMMA RequestGoes ==
  ASSUME IInv, Clock', Shared', Grows, UNCHANGED <<prober, late, inflight>>, ModesOK',
         NEW r \in Requests, NEW q \in RequestType,
         req' = [req EXCEPT ![r] = q], RequestFine(q, inflight[r], stores', issued')
  PROVE  IInv'
<1>1. inflight[r] \in Injected /\ inflight' = [inflight EXCEPT ![r] = inflight[r]]
  BY DEF IInv, RequestsOK
<1> QED BY <1>1, RequestStep

\* It has not been sent yet, and is not being sent.
LEMMA RequestGoesUnsent ==
  ASSUME IInv, Clock', Shared', Grows, UNCHANGED <<prober, late, inflight, modes, observed>>,
         NEW r \in Requests, req[r].pc \in {"new", "admitted"},
         NEW pc \in {"admitted", "refused", "sent"}, NEW k \in Keys \cup {None},
         pc = "sent" => k \in Keys,
         req' = [req EXCEPT ![r] = Moved(req[r], pc, k)]
  PROVE  IInv'
<1> DEFINE q == Moved(req[r], pc, k)
<1>1. req[r] \in RequestType /\ RequestFine(req[r], inflight[r], stores, issued)
  BY DEF IInv, RequestsOK
<1>2. q \in RequestType /\ q.pc = pc /\ q.key = k
  <2>1. pc \in RequestStages
    BY DEF RequestStages
  <2> QED BY <1>1, <2>1, MovedRecord
<1>3. ModesOK'
  BY DEF IInv, ModesOK
<1> HIDE DEF q
<1>4. RequestFine(q, inflight[r], stores', issued')
  BY <1>1, <1>2 DEF RequestFine
<1> QED BY <1>2, <1>3, <1>4, RequestGoes DEF q

\* The store of a job is asked for a state.
LEMMA AskedShared ==
  ASSUME IInv, NEW k \in Known, UNCHANGED <<jobs, disk, issued>>,
         stores' = UpdateCurrent(stores, k, Acquire(StoreOf(k), now))
  PROVE  Shared' /\ Grows
<1>1. /\ k \in Keys /\ Len(stores[k]) \in 1..Len(stores[k])
      /\ Acquire(StoreOf(k), now) \in Kept(issued[k])
  BY JobHasStore, AcquireKept DEF Known, IInv
<1>2. stores' = UpdateStore(stores, k, Len(stores[k]), Acquire(StoreOf(k), now))
  BY DEF UpdateCurrent
<1> QED BY <1>1, <1>2, StoreChanges DEF IInv

LEMMA AdmitKeeps ==
  ASSUME IInv, NEW r \in Requests, NEW k \in Keys \cup {None},
         Admit(r, k) \/ Refuse(r, k)
  PROVE  IInv'
<1>1. PICK pc \in {"admitted", "refused"} : req' = [req EXCEPT ![r].pc = pc]
  BY DEF Admit, Refuse
<1>2. /\ req[r].pc = "new"
      /\ UNCHANGED <<now, jobs, enabled, fallback, pauseUntil, gentle, prober,
                     inflight, modes, observed, disk, restarts, issued, late>>
      /\ \/ UNCHANGED stores
         \/ k \in Known /\ stores' = UpdateCurrent(stores, k, Acquire(StoreOf(k), now))
  BY DEF Admit, Refuse, history
<1>3. Shared' /\ Grows
  BY <1>2, SharedStays, AskedShared DEF IInv
<1>4. req[r].key \in Keys \cup {None} /\ req' = [req EXCEPT ![r] = Moved(req[r], pc, req[r].key)]
  BY <1>1 DEF IInv, RequestsOK, RequestType, Moved
<1> QED BY <1>2, <1>3, <1>4, ClockStays, RequestGoesUnsent DEF IInv

LEMMA ForwardPlainKeeps ==
  ASSUME IInv, NEW r \in Requests, NEW k \in Keys, ForwardPlain(r, k)
  PROVE  IInv'
<1>1. /\ req[r].pc = "admitted"
      /\ UNCHANGED <<now, runtimeVars, prober, inflight, modes, observed, disk, restarts,
                     issued, late>>
  BY DEF ForwardPlain, history
<1>2. Shared' /\ Grows /\ Clock'
  BY <1>1, SharedStays, ClockStays DEF IInv, runtimeVars
<1>3. req' = [req EXCEPT ![r] = Moved(req[r], "sent", k)]
  BY DEF ForwardPlain, Moved, IInv, RequestsOK
<1> QED BY <1>1, <1>2, <1>3, RequestGoesUnsent

LEMMA LookUpKeeps ==
  ASSUME IInv, NEW r \in Requests, NEW k \in Keys, NEW account \in {"personal", "team"},
         LookUp(r, k, account)
  PROVE  IInv'
<1> DEFINE depth == Len(StoresWith(k, account)[k])
           limit == JobsWith(k, account)[k].limit
           q == [pc |-> "looked", key |-> k, store |-> depth, limit |-> limit]
<1>1. /\ EnsureJob(k, account) /\ req' = [req EXCEPT ![r] = q] /\ req[r].pc = "admitted"
      /\ UNCHANGED <<now, enabled, fallback, pauseUntil, gentle, prober, inflight, modes,
                     observed, disk, restarts, issued, late>>
  BY DEF LookUp, history
<1>2. /\ Shared' /\ Grows /\ JobsWith(k, account)[k] \in JobType
      /\ depth \in 1..Len(stores'[k])
  BY <1>1, EnsureJobShared DEF IInv
<1>3. Clock' /\ ModesOK'
  BY <1>1, ClockStays DEF IInv, ModesOK
<1>4. Len(stores'[k]) \in Nat
  BY <1>2, StackFacts DEF Shared, StoresOK
<1>5. limit \in Limit /\ depth \in Nat
  BY <1>2, <1>4 DEF JobType
<1> HIDE DEF limit, depth
<1>6. q \in RequestType /\ q.pc = "looked" /\ q.key = k /\ q.store = depth
  BY <1>5 DEF RequestType
<1>7. inflight[r] = None
  BY <1>1 DEF IInv, RequestsOK, RequestFine
<1> HIDE DEF q
<1>8. RequestFine(q, inflight[r], stores', issued')
  BY <1>2, <1>6, <1>7 DEF RequestFine
<1> QED BY <1>1, <1>2, <1>3, <1>6, <1>8, RequestGoes

LEMMA InjectKeeps ==
  ASSUME IInv, NEW r \in Requests, Inject(r)
  PROVE  IInv'
<1> DEFINE k == req[r].key
           g == req[r].store
           st == stores[k][g]
           mode == IF Rejecting(req[r].limit, now) THEN "upstream-rejected"
                   ELSE IF AcquireResult(st, now) # None THEN "injected"
                   ELSE "fallback-passthrough"
           i == IF mode = "injected" THEN [key |-> k, snapshot |-> AcquireResult(st, now)]
                ELSE inflight[r]
           q == Moved(NewRequest, "sent", k)
<1>1. /\ req[r].pc = "looked"
      /\ UNCHANGED <<now, jobs, enabled, fallback, pauseUntil, gentle, prober, observed,
                     disk, restarts, issued, late>>
      /\ stores' = IF mode = "upstream-rejected" THEN stores
                   ELSE UpdateStore(stores, k, g, Acquire(st, now))
      /\ inflight' = IF mode = "injected"
                     THEN [inflight EXCEPT ![r] =
                            [key |-> k, snapshot |-> AcquireResult(st, now)]]
                     ELSE inflight
      /\ modes' = [modes EXCEPT ![r] = mode]
  BY DEF Inject, history
<1>2. req' = [req EXCEPT ![r] = q]
  BY DEF Inject, Moved
<1>3. k \in Keys /\ g \in 1..Len(stores[k]) /\ inflight[r] = None
  BY <1>1 DEF IInv, RequestsOK, RequestFine
<1>4. st \in Kept(issued[k]) /\ issued[k] \in SUBSET Tokens
  BY <1>3, StackFacts DEF IInv, Shared, StoresOK
<1>5. /\ Acquire(st, now) \in Kept(issued[k])
      /\ AcquireResult(st, now) # None =>
           AcquireResult(st, now) \in Snapshot /\ AcquireResult(st, now).token \in issued[k]
  BY <1>4, AcquireKept
<1> DEFINE found == AcquireResult(st, now)
<1> HIDE DEF st, found
<1>6. Shared' /\ Grows
  <2>1. CASE stores' = stores
    BY <1>1, <2>1, SharedStays DEF IInv
  <2>2. CASE stores' = UpdateStore(stores, k, g, Acquire(st, now))
    BY <1>1, <1>3, <1>5, <2>2, StoreChanges DEF IInv
  <2> QED BY <1>1, <2>1, <2>2
<1>7. Clock' /\ ModesOK'
  <2>1. mode \in {"upstream-rejected", "injected", "fallback-passthrough"}
    OBVIOUS
  <2> HIDE DEF mode
  <2> QED BY <1>1, <2>1, ClockStays DEF IInv, ModesOK
<1>8. inflight' = [inflight EXCEPT ![r] = i]
  BY <1>1 DEF IInv, RequestsOK
<1>9. mode = "injected" => found # None
  BY DEF found
<1> HIDE DEF mode
<1>10. i \in Injected /\ (i # None => i.key = k /\ i.snapshot.token \in issued[k])
  <2>1. CASE mode = "injected"
    <3>1. found \in Snapshot /\ found.token \in issued[k]
      BY <1>5, <1>9, <2>1 DEF found
    <3>2. i = [key |-> k, snapshot |-> found]
      BY <2>1 DEF found
    <3> QED BY <1>3, <3>1, <3>2 DEF Injected
  <2>2. CASE mode # "injected"
    BY <1>3, <2>2 DEF Injected
  <2> QED BY <2>1, <2>2
<1>11. q \in RequestType /\ q.pc = "sent" /\ q.key = k
  <2>1. "sent" \in RequestStages /\ k \in Keys \cup {None}
    BY <1>3 DEF RequestStages
  <2> QED BY <2>1, NewFine, MovedRecord
<1> HIDE DEF i, q
<1>12. RequestFine(q, i, stores', issued')
  BY <1>1, <1>3, <1>10, <1>11 DEF RequestFine
<1> QED BY <1>1, <1>2, <1>6, <1>7, <1>8, <1>10, <1>11, <1>12, RequestStep

LEMMA CompleteKeeps ==
  ASSUME IInv, NEW r \in Requests, Complete(r)
  PROVE  IInv'
<1> DEFINE q == Moved(NewRequest, "done", NewRequest.key)
<1>1. /\ UNCHANGED <<now, runtimeVars, prober, modes, disk, restarts, issued, late>>
      /\ inflight' = [inflight EXCEPT ![r] = None] /\ observed' = observed \ {r}
  BY DEF Complete, history
<1>2. Shared' /\ Grows /\ Clock' /\ ModesOK'
  BY <1>1, SharedStays, ClockStays DEF IInv, runtimeVars, ModesOK
<1>3. req' = [req EXCEPT ![r] = q]
  BY NewFine DEF Complete, Moved, RequestType
<1>4. q \in RequestType /\ q.pc = "done"
  <2>1. NewRequest.key \in Keys \cup {None} /\ "done" \in RequestStages
    BY NewFine DEF RequestType, RequestStages
  <2> QED BY <2>1, NewFine, MovedRecord
<1>5. None \in Injected
  BY DEF Injected
<1> HIDE DEF q
<1>6. RequestFine(q, None, stores', issued')
  BY <1>4 DEF RequestFine
<1> QED BY <1>1, <1>2, <1>3, <1>4, <1>5, <1>6, RequestStep

-----------------------------------------------------------------------------
(* A response.                                                             *)

\* The request answered has a key, whose job may be gone after a restart.
LEMMA RespondedKnown ==
  ASSUME IInv, NEW r \in Requests, Answered(r)
  PROVE  /\ req[r].key \in Keys
         /\ req[r] \in RequestType /\ RequestFine(req[r], inflight[r], stores, issued)
         /\ req[r].pc \in {"sent", "answered"}
         /\ Clock' /\ disk' = disk
BY ClockStays DEF IInv, RequestsOK, RequestFine, Answered, Answerable

\* Once jobs, stores and tokens are as they should be, so is the rest.
LEMMA AnsweredKeeps ==
  ASSUME IInv, NEW r \in Requests, Answered(r), Shared', Grows
  PROVE  IInv'
<1> DEFINE q == Moved(req[r], "answered", req[r].key)
<1>1. /\ req[r].key \in Keys /\ req[r] \in RequestType
      /\ RequestFine(req[r], inflight[r], stores, issued)
      /\ req[r].pc \in {"sent", "answered"} /\ Clock'
  BY RespondedKnown
<1>2. /\ UNCHANGED <<prober, late, inflight>>
      /\ modes' = [modes EXCEPT ![r] = None] /\ MarkObserved(r)
  BY DEF Answered
<1>3. ModesOK'
  BY <1>2 DEF IInv, ModesOK, MarkObserved
<1>4. req' = [req EXCEPT ![r] = q]
  BY DEF Answered, Moved, IInv, RequestsOK
<1>5. q \in RequestType /\ q.pc = "answered" /\ q.key = req[r].key
  <2>1. "answered" \in RequestStages /\ req[r].key \in Keys \cup {None}
    BY <1>1 DEF RequestStages
  <2> QED BY <1>1, <2>1, MovedRecord
<1>6. RequestFine(req[r], inflight[r], stores', issued')
  BY <1>1, FineStays DEF IInv, Shared, RequestsOK
<1> HIDE DEF q
<1>7. RequestFine(q, inflight[r], stores', issued')
  BY <1>1, <1>5, <1>6 DEF RequestFine
<1> QED BY <1>1, <1>2, <1>3, <1>4, <1>5, <1>7, RequestGoes

\* What a response may make of a job.
LEMMA LimitAfterType ==
  ASSUME NEW job \in JobType, NEW status, NEW retryAfter \in RetryAfters, now \in Nat
  PROVE  /\ LimitAfter(job, status, retryAfter) \in JobType
         /\ [LimitAfter(job, status, retryAfter) EXCEPT !.next = now, !.seen = "revoked"]
              \in JobType
         /\ job.limit.blocked => LimitAfter(job, status, retryAfter).limit.blocked
         /\ LimitAfter(job, status, retryAfter).limit.until >= job.limit.until
<1> DEFINE limit == Limited(job.limit, status, retryAfter, now)
           later == now + Longer(RejectCooldown, retryAfter)
           after == LimitAfter(job, status, retryAfter)
<1>1. job.limit \in Limit /\ retryAfter \in Nat /\ job.limit.until \in Int
  BY RuntimeAssumption DEF JobType, Limit
<1>2. /\ after \in JobType
      /\ job.limit.blocked => after.limit.blocked
      /\ after.limit.until >= job.limit.until
  <2>1. CASE status \in RejectedStatus
    <3>1. /\ limit \in Limit /\ later \in Nat
          /\ job.limit.blocked => limit.blocked
          /\ limit.until >= job.limit.until
      BY <1>1, <2>1, LimitedType
    <3>2. after = [job EXCEPT !.limit = limit, !.next = later]
      BY <2>1 DEF LimitAfter
    <3> HIDE DEF limit, later, after
    <3> QED BY <3>1, <3>2 DEF JobType
  <2>2. CASE status \notin RejectedStatus
    BY <1>1, <2>2 DEF LimitAfter
  <2> QED BY <2>1, <2>2
<1> HIDE DEF after
<1>3. [after EXCEPT !.next = now, !.seen = "revoked"] \in JobType
  BY <1>2 DEF JobType
<1> QED BY <1>2, <1>3 DEF after

LEMMA RespondPlainKeeps ==
  ASSUME IInv, NEW r \in Requests, NEW status, NEW retryAfter \in RetryAfters,
         RespondPlain(r, status, retryAfter)
  PROVE  IInv'
<1> DEFINE k == req[r].key
           job == LimitAfter(jobs[k], status, retryAfter)
<1>1. Answered(r) /\ UNCHANGED <<stores, issued>>
  BY DEF RespondPlain
<1>2. k \in Keys /\ disk' = disk
  BY <1>1, RespondedKnown
<1>3. CASE k \in Known
  <2>1. jobs' = [jobs EXCEPT ![k] = job]
    BY <1>3 DEF RespondPlain
  <2>2. jobs[k] # None /\ jobs[k] \in JobType
    BY <1>3, JobHasStore DEF Known, IInv
  <2>3. job \in JobType
    BY <2>2, LimitAfterType DEF IInv, Clock
  <2> HIDE DEF job
  <2>4. Shared' /\ Grows
    BY <1>1, <1>2, <2>1, <2>2, <2>3, JobChanges DEF IInv
  <2> QED BY <1>1, <2>4, AnsweredKeeps
<1>4. CASE k \notin Known
  <2>1. Shared' /\ Grows
    BY <1>1, <1>2, <1>4, SharedStays DEF IInv, RespondPlain
  <2> QED BY <1>1, <2>1, AnsweredKeeps
<1> QED BY <1>3, <1>4

LEMMA RespondWithdrawsKeeps ==
  ASSUME IInv, NEW r \in Requests, NEW status, NEW retryAfter \in RetryAfters,
         RespondWithdraws(r, status, retryAfter)
  PROVE  IInv'
<1> DEFINE k == req[r].key
           job == [LimitAfter(jobs[k], status, retryAfter) EXCEPT !.next = now, !.seen = "revoked"]
           st == RejectAndPromote(StoreOf(k), inflight[r].snapshot, now)
<1>1. Answered(r) /\ issued' = issued
  BY DEF RespondWithdraws
<1>2. k \in Keys /\ disk' = disk
  BY <1>1, RespondedKnown
<1>3. CASE k \in Known
  <2>1. jobs' = [jobs EXCEPT ![k] = job] /\ stores' = UpdateStore(stores, k, Len(stores[k]), st)
    BY <1>3 DEF RespondWithdraws, UpdateCurrent
  <2>2. /\ jobs[k] # None /\ jobs[k] \in JobType /\ Len(stores[k]) \in 1..Len(stores[k])
        /\ StoreOf(k) \in Kept(issued[k]) /\ issued[k] \in SUBSET Tokens
    BY <1>3, JobHasStore DEF Known, IInv
  <2>3. job \in JobType /\ st \in Kept(issued[k])
    BY <2>2, LimitAfterType, RejectKept DEF IInv, Clock
  <2> HIDE DEF job, st
  <2>4. Shared' /\ Grows
    BY <1>1, <1>2, <2>1, <2>2, <2>3, JobAndStoreChange DEF IInv
  <2> QED BY <1>1, <2>4, AnsweredKeeps
<1>4. CASE k \notin Known
  <2>1. Shared' /\ Grows
    BY <1>1, <1>2, <1>4, SharedStays DEF IInv, RespondWithdraws
  <2> QED BY <1>1, <2>1, AnsweredKeeps
<1> QED BY <1>3, <1>4

LEMMA RespondReplacesKeeps ==
  ASSUME IInv, NEW r \in Requests, NEW status, NEW retryAfter \in RetryAfters,
         RespondReplaces(r, status, retryAfter)
  PROVE  IInv'
<1> DEFINE k == req[r].key
           job == [LimitAfter(jobs[k], status, retryAfter) EXCEPT !.next = now, !.seen = "revoked"]
           st == NewStore(StoreOf(k).blocks)
           after == Replaced(stores, k, st)
<1>1. Answered(r) /\ issued' = issued
  BY DEF RespondReplaces
<1>2. k \in Keys /\ disk' = disk
  BY <1>1, RespondedKnown
<1>3. CASE k \in Known
  <2>1. jobs' = [jobs EXCEPT ![k] = job] /\ stores' = after
    BY <1>3 DEF RespondReplaces, Replaced
  <2>2. /\ jobs[k] # None /\ jobs[k] \in JobType /\ StoreOf(k) \in Kept(issued[k])
    BY <1>3, JobHasStore DEF Known, IInv
  <2>3. job \in JobType
    BY <2>2, LimitAfterType DEF IInv, Clock
  <2>4. st \in Kept(issued[k])
    <3>1. StoreOf(k).blocks \in Nat
      BY <2>2 DEF Kept, Store
    <3> QED BY <3>1, NewStoreKept
  <2> HIDE DEF job, st
  <2>5. Stacked(stores, issued) /\ issued \in [Keys -> SUBSET Tokens]
    BY DEF IInv, Shared, StoresOK
  <2>6. /\ Stacked(after, issued)
        /\ \A j \in Keys : Len(after[j]) = IF j = k THEN Len(stores[j]) + 1 ELSE Len(stores[j])
    BY <1>2, <2>4, <2>5, AppendStacked
  <2> HIDE DEF after
  <2>7. ASSUME NEW j \in Keys
        PROVE  /\ Len(stores'[j]) >= Len(stores[j])
               /\ stores'[j] = <<>> <=> stores[j] = <<>>
    <3>1. Len(stores[j]) \in Nat /\ (stores[j] # <<>> <=> Len(stores[j]) >= 1)
      BY <2>5, StackFacts
    <3>2. stores'[j] # <<>> <=> Len(stores'[j]) >= 1
      BY <2>1, <2>6, StackFacts
    <3>3. stores[k] # <<>>
      BY <1>2, <2>2 DEF IInv, Shared, StoresOK
    <3> QED BY <2>1, <2>6, <3>1, <3>2, <3>3
  <2>8. /\ jobs' \in [Keys -> JobType \cup {None}]
        /\ \A j \in Keys : jobs'[j] = None <=> jobs[j] = None
    BY <1>2, <2>1, <2>2, <2>3, NoneApart DEF IInv, Shared, JobsOK
  <2>9. issued' \in [Keys -> SUBSET Tokens] /\ Stacked(stores', issued')
    BY <1>1, <2>1, <2>5, <2>6
  <2>10. Shared' /\ Grows
    BY <1>1, <1>2, <2>7, <2>8, <2>9, SharedGrows DEF IInv
  <2> QED BY <1>1, <2>10, AnsweredKeeps
<1>4. CASE k \notin Known
  <2>1. Shared' /\ Grows
    BY <1>1, <1>2, <1>4, SharedStays DEF IInv, RespondReplaces
  <2> QED BY <1>1, <2>1, AnsweredKeeps
<1> QED BY <1>3, <1>4

LEMMA RespondStateKeeps ==
  ASSUME IInv, NEW r \in Requests, NEW status, NEW retryAfter \in RetryAfters,
         NEW t \in Tokens, RespondState(r, status, retryAfter, t)
  PROVE  IInv'
<1> DEFINE k == req[r].key
           job == LimitAfter(jobs[k], status, retryAfter)
           suspect == ~Accept(StoreOf(k).blocks, t, now)
           st == IF inflight[r] # None
                 THEN Observe(StoreOf(k), suspect, inflight[r].snapshot)
                 ELSE Offer(StoreOf(k), t, now)
<1>1. Answered(r) /\ Issue(k, t)
  BY DEF RespondState
<1>2. k \in Keys /\ disk' = disk
  BY <1>1, RespondedKnown
<1>3. /\ issued' \in [Keys -> SUBSET Tokens]
      /\ \A j \in Keys : issued[j] \subseteq issued'[j]
      /\ t \in issued'[k] /\ Stacked(stores, issued')
  BY <1>1, <1>2, IssueGrows DEF IInv
<1>4. /\ \A j \in Keys : Len(stores[j]) \in Nat /\ (stores[j] = <<>> <=> Len(stores[j]) = 0)
  BY StackFacts DEF IInv, Shared, StoresOK
<1>5. CASE k \in Known
  <2>1. jobs' = [jobs EXCEPT ![k] = job] /\ stores' = UpdateStore(stores, k, Len(stores[k]), st)
    BY <1>5 DEF RespondState, UpdateCurrent
  <2>2. /\ jobs[k] # None /\ jobs[k] \in JobType /\ Len(stores[k]) \in 1..Len(stores[k])
        /\ StoreOf(k) \in Kept(issued[k])
    BY <1>5, JobHasStore DEF Known, IInv
  <2>3. job \in JobType
    BY <2>2, LimitAfterType DEF IInv, Clock
  <2>4. StoreOf(k) \in Kept(issued'[k]) /\ issued'[k] \in SUBSET Tokens
    BY <1>2, <1>3, <2>2, KeptMonotone
  <2>5. suspect \in BOOLEAN
    BY DEF Accept
  <2>6. st \in Kept(issued'[k])
    <3>1. Observe(StoreOf(k), suspect, inflight[r].snapshot) \in Kept(issued'[k])
      BY <2>4, <2>5, ObserveKept
    <3>2. Offer(StoreOf(k), t, now) \in Kept(issued'[k])
      BY <1>3, <2>4, OfferKept
    <3> QED BY <3>1, <3>2
  <2> HIDE DEF job, st
  <2>7. Stacked(stores', issued') /\ SameDepth(stores, stores')
    BY <1>2, <1>3, <2>1, <2>2, <2>6, UpdateStacked
  <2>8. /\ jobs' \in [Keys -> JobType \cup {None}]
        /\ \A j \in Keys : jobs'[j] = None <=> jobs[j] = None
    BY <1>2, <2>1, <2>2, <2>3, NoneApart DEF IInv, Shared, JobsOK
  <2>9. ASSUME NEW j \in Keys
        PROVE  /\ Len(stores'[j]) >= Len(stores[j])
               /\ stores'[j] = <<>> <=> stores[j] = <<>>
    <3>1. Len(stores'[j]) = Len(stores[j]) /\ (stores'[j] # <<>> <=> Len(stores'[j]) >= 1)
      BY <2>7, StackFacts DEF SameDepth
    <3> QED BY <1>4, <3>1
  <2>10. Shared' /\ Grows
    BY <1>2, <1>3, <2>7, <2>8, <2>9, SharedGrows DEF IInv
  <2> QED BY <1>1, <2>10, AnsweredKeeps
<1>6. CASE k \notin Known
  <2>1. UNCHANGED <<jobs, stores>>
    BY <1>6 DEF RespondState
  <2>2. Shared' /\ Grows
    BY <1>2, <1>3, <1>4, <2>1, SharedGrows DEF IInv, Shared, JobsOK
  <2> QED BY <1>1, <2>2, AnsweredKeeps
<1> QED BY <1>5, <1>6

LEMMA RespondGarbledKeeps ==
  ASSUME IInv, NEW r \in Requests, NEW status, NEW retryAfter \in RetryAfters,
         RespondGarbled(r, status, retryAfter)
  PROVE  IInv'
<1> DEFINE k == req[r].key
           job == LimitAfter(jobs[k], status, retryAfter)
           st == Observe(StoreOf(k), TRUE, inflight[r].snapshot)
<1>1. Answered(r) /\ issued' = issued
  BY DEF RespondGarbled
<1>2. k \in Keys /\ disk' = disk
  BY <1>1, RespondedKnown
<1>3. CASE k \in Known
  <2>1. jobs' = [jobs EXCEPT ![k] = job] /\ stores' = UpdateStore(stores, k, Len(stores[k]), st)
    BY <1>3 DEF RespondGarbled, UpdateCurrent
  <2>2. /\ jobs[k] # None /\ jobs[k] \in JobType /\ Len(stores[k]) \in 1..Len(stores[k])
        /\ StoreOf(k) \in Kept(issued[k])
    BY <1>3, JobHasStore DEF Known, IInv
  <2>3. job \in JobType
    BY <2>2, LimitAfterType DEF IInv, Clock
  <2>4. st \in Kept(issued[k])
    BY <2>2, ObserveKept
  <2> HIDE DEF job, st
  <2>5. Shared' /\ Grows
    BY <1>1, <1>2, <2>1, <2>2, <2>3, <2>4, JobAndStoreChange DEF IInv
  <2> QED BY <1>1, <2>5, AnsweredKeeps
<1>4. CASE k \notin Known
  <2>1. Shared' /\ Grows
    BY <1>1, <1>2, <1>4, SharedStays DEF IInv, RespondGarbled
  <2> QED BY <1>1, <2>1, AnsweredKeeps
<1> QED BY <1>3, <1>4

-----------------------------------------------------------------------------
(* The clock, the operator and the restart.                                *)

LEMMA TickKeeps ==
  ASSUME IInv, Tick
  PROVE  IInv'
<1>1. Clock' /\ UNCHANGED <<jobs, stores, disk, issued, prober, requestVars, late>>
  BY DEF IInv, Clock, Tick, runtimeVars, history
<1> QED BY <1>1, SharedStays, StillStep DEF IInv

LEMMA OperateKeeps ==
  ASSUME IInv, Operate
  PROVE  IInv'
<1>1. UNCHANGED <<now, pauseUntil, restarts, gentle, jobs, stores, disk, issued,
                  prober, requestVars, late>>
  BY DEF Operate, SetInjection, SetFallback, history
<1>2. enabled' \in BOOLEAN /\ fallback' \in {"strict", "passthrough"}
  BY DEF IInv, Clock, Operate, SetInjection, SetFallback
<1>3. Clock'
  BY <1>1, <1>2 DEF IInv, Clock
<1> QED BY <1>1, <1>3, SharedStays, StillStep DEF IInv

LEMMA RestartKeeps ==
  ASSUME IInv, Restart
  PROVE  IInv'
<1>1. Clock'
  <2>1. /\ now' = now /\ restarts' = restarts + 1 /\ pauseUntil' = 0
        /\ enabled' = TRUE /\ gentle' = FALSE /\ fallback' = "passthrough"
    BY Zenon DEF Restart
  <2>2. Clock
    BY DEF IInv
  <2>3. restarts' \in Nat /\ now' \in Nat /\ pauseUntil' \in Nat
    BY <2>1, <2>2, SMT DEF Clock
  <2> QED BY <2>1, <2>3, Zenon DEF Clock
<1>2. UNCHANGED <<now, req, disk, issued>>
  BY DEF Restart
<1>3. ASSUME NEW k \in Keys
      PROVE  /\ jobs'[k] \in JobType \cup {None}
             /\ stores'[k] \in Seq(Store) /\ stores'[k] \in Seq(Kept(issued[k]))
             /\ jobs'[k] = None <=> stores'[k] = <<>>
  <2>1. CASE Restored(k)
    <3> DEFINE job == [account |-> disk[k].account, next |-> 0, limit |-> NewLimit, seen |-> "none"]
               st == Offer(NewStore(Blocks(disk[k].account)), disk[k].token, now)
    <3>1. jobs'[k] = job /\ stores'[k] = <<st>>
      BY <2>1 DEF Restart
    <3>2. /\ disk[k].token \in issued[k] /\ disk[k].account \in {"personal", "team"}
          /\ issued[k] \in SUBSET Tokens
      BY <2>1 DEF Restored, IInv, Shared, StoresOK, DiskOK, SavedState
    <3>3. job \in JobType
      BY <3>2 DEF JobType, NewLimit, Limit
    <3>4. st \in Kept(issued[k]) /\ st \in Store
      <4>1. NewStore(Blocks(disk[k].account)) \in Kept(issued[k])
        BY NewStoreKept DEF Blocks
      <4>2. st \in Kept(issued[k])
        BY <3>2, <4>1, OfferKept
      <4> QED BY <4>2 DEF Kept
    <3> HIDE DEF job, st
    <3>5. /\ <<st>> \in Seq(Store) /\ <<st>> \in Seq(Kept(issued[k]))
          /\ <<st>> # <<>>
      BY <3>4
    <3> QED BY <3>1, <3>3, <3>5, NoneApart
  <2>2. CASE ~Restored(k)
    <3>1. jobs'[k] = None /\ stores'[k] = <<>>
      BY <2>2 DEF Restart
    <3> QED BY <3>1, EmptySeq
  <2> QED BY <2>1, <2>2
<1>4. JobsOK' /\ StoresOK'
  <2>1. /\ jobs' = [k \in Keys |-> jobs'[k]]
        /\ stores' = [k \in Keys |-> stores'[k]]
    BY DEF Restart
  <2>2. jobs' \in [Keys -> JobType \cup {None}] /\ stores' \in [Keys -> Seq(Store)]
    BY <1>3, <2>1
  <2> QED BY <1>2, <1>3, <2>2 DEF IInv, Shared, JobsOK, StoresOK, Stacked
<1>5. DiskOK'
  BY <1>2 DEF IInv, Shared, DiskOK
<1>6. ProbersOK' /\ LateOK'
  <2>1. prober' = [p \in Probers |-> IdleProber] /\ late' = [p \in Probers |-> 0]
    BY DEF Restart
  <2>2. LateFine(IdleProber, 0)
    BY IdleFine DEF LateFine
  <2> QED BY <2>1, <2>2, IdleFine DEF ProbersOK, LateOK
<1>7. RequestsOK'
  <2>1. inflight' = [r \in Requests |-> None] /\ HostFree
    BY DEF Restart
  <2>2. ASSUME NEW r \in Requests PROVE RequestFine(req[r], None, stores', issued')
    <3>1. req[r].pc # "looked" /\ RequestFine(req[r], inflight[r], stores, issued)
      BY <2>1 DEF HostFree, IInv, RequestsOK
    <3> QED BY <3>1 DEF RequestFine
  <2> QED BY <1>2, <2>1, <2>2 DEF IInv, RequestsOK, Injected
<1>8. ModesOK'
  BY DEF ModesOK, Restart
<1> QED BY <1>1, <1>4, <1>5, <1>6, <1>7, <1>8 DEF IInv, Shared

-----------------------------------------------------------------------------
(* The invariant holds.                                                    *)

LEMMA RoundKeeps ==
  ASSUME IInv, NEW p \in Probers, Round(p) \/ Probe(p)
  PROVE  IInv'
<1>1. CASE Round(p)
  BY <1>1, RefuseRoundKeeps, SkipSatisfiedKeeps, BeginRoundKeeps, JudgeKeeps, EndRoundKeeps
     DEF Round
<1>2. CASE Probe(p)
  BY <1>2, ProbeFailsKeeps, UnrecordedKeeps, ProbeRejectedKeeps, ProbeOverloadedKeeps,
     ProbeDegradedKeeps, ProbeIssuesKeeps, ReplayFailsKeeps, ReplayPassesKeeps,
     RecordPassedKeeps DEF Probe
<1> QED BY <1>1, <1>2

LEMMA RequestKeeps ==
  ASSUME IInv, NEW r \in Requests, Send(r) \/ Respond(r) \/ Complete(r)
  PROVE  IInv'
<1>1. CASE Send(r)
  BY <1>1, AdmitKeeps, ForwardPlainKeeps, LookUpKeeps, InjectKeeps DEF Send
<1>2. CASE Respond(r)
  BY <1>2, RespondPlainKeeps, RespondWithdrawsKeeps, RespondReplacesKeeps, RespondStateKeeps,
     RespondGarbledKeeps DEF Respond
<1>3. CASE Complete(r)
  BY <1>3, CompleteKeeps
<1> QED BY <1>1, <1>2, <1>3

LEMMA NextIInv == IInv /\ [Next]_vars => IInv'
<1> SUFFICES ASSUME IInv, [Next]_vars PROVE IInv'
  OBVIOUS
<1>1. CASE Choose
  BY <1>1, AutoHarvestKeeps, PickDueKeeps, PickNoneKeeps, HarvestNowKeeps DEF Choose
<1>2. CASE UNCHANGED vars
  <2>1. UNCHANGED <<now, pauseUntil, restarts, enabled, gentle, fallback, jobs, stores, disk,
                    issued, prober, requestVars, late>>
    BY <1>2 DEF vars, runtimeVars, requestVars, history
  <2> QED BY <2>1, SharedStays, ClockStays, StillStep DEF IInv
<1> QED BY <1>1, <1>2, TickKeeps, RoundKeeps, RequestKeeps, OperateKeeps, RestartKeeps DEF Next

LEMMA IInvHolds == Spec => []IInv
<1>1. Init => IInv
  BY InitIInv
<1>2. IInv /\ [Next]_vars => IInv'
  BY NextIInv
<1> QED BY <1>1, <1>2, PTL DEF Spec

\* The types of the service hold for any sizes of it: a job has a store, a
\* thread at work has a job and a store made for it, an attempt is within its
\* budget (runtime.rs: Job::new, ProbeJob, probe_job).
THEOREM TypeCorrect == Spec => []TypeOK
BY IInvHolds, IInvTypeOK, PTL

\* A state is kept, saved and sent only for the account and model it was
\* issued to (runtime.rs: ensure_job, save_states, restore_jobs,
\* intercept_after_auth).
THEOREM StatesAreHome == Spec => []StatesStayHome
<1>1. IInv => StatesStayHome
  <2> SUFFICES ASSUME IInv PROVE StatesStayHome
    OBVIOUS
  <2>1. ASSUME NEW k \in Keys
        PROVE  /\ \A st \in StoresMade(k) : TokensIn(st) \subseteq issued[k]
               /\ disk[k] # None => disk[k].token \in issued[k]
    <3>1. \A st \in StoresMade(k) : st \in Kept(issued[k])
      BY StackFacts DEF IInv, Shared, StoresOK, StoresMade
    <3> QED BY <3>1, KeptHolds DEF IInv, Shared, DiskOK
  <2>2. ASSUME NEW r \in Requests, inflight[r] # None
        PROVE  /\ inflight[r].key = req[r].key
               /\ inflight[r].snapshot.token \in issued[req[r].key]
    BY <2>2 DEF IInv, RequestsOK, RequestFine
  <2> QED BY <2>1, <2>2 DEF StatesStayHome
<1> QED BY <1>1, IInvHolds, PTL

\* However many threads, credentials and attempts there are, a thread makes at
\* most the call under way and one replay after a rejection
\* (runtime.rs: probe_job's check after each attempt).
THEOREM RoundsStop == Spec => []NoHammering
<1>1. IInv => NoHammering
  BY DEF IInv, LateOK, LateFine, NoHammering
<1> QED BY <1>1, IInvHolds, PTL

-----------------------------------------------------------------------------
(* Limits.                                                                 *)

\* `after` is a job that is limited at least as `job` is.
Firm(job, after) ==
  /\ after # None
  /\ job.limit.blocked => after.limit.blocked
  /\ after.limit.until >= job.limit.until

AllFirm == \A k \in Known : Firm(jobs[k], jobs'[k])

LEMMA SameFirm ==
  ASSUME JobsOK, jobs' = jobs
  PROVE  AllFirm
<1> SUFFICES ASSUME NEW k \in Known PROVE Firm(jobs[k], jobs[k])
  BY DEF AllFirm
<1>1. jobs[k] \in JobType /\ jobs[k] # None
  BY DEF JobsOK, Known
<1>2. jobs[k].limit.until \in Int
  BY <1>1 DEF JobType, Limit
<1> QED BY <1>1, <1>2 DEF Firm

\* One job is made or changed.
LEMMA OneFirm ==
  ASSUME JobsOK, NEW k \in Keys, NEW job, jobs' = [jobs EXCEPT ![k] = job],
         jobs[k] # None => Firm(jobs[k], job)
  PROVE  AllFirm
<1> SUFFICES ASSUME NEW j \in Known PROVE Firm(jobs[j], jobs'[j])
  BY DEF AllFirm
<1>1. jobs[j] \in JobType /\ jobs[j] # None /\ j \in Keys
  BY DEF JobsOK, Known
<1>2. CASE j = k
  BY <1>1, <1>2 DEF JobsOK
<1>3. CASE j # k
  <2>1. jobs'[j] = jobs[j]
    BY <1>1, <1>3 DEF JobsOK
  <2>2. jobs[j].limit.until \in Int
    BY <1>1 DEF JobType, Limit
  <2> QED BY <1>1, <2>1, <2>2 DEF Firm
<1> QED BY <1>2, <1>3

\* A change of the other fields leaves the limit as it is.
LEMMA FieldsFirm ==
  ASSUME NEW job \in JobType, NEW after \in JobType, after.limit = job.limit
  PROVE  Firm(job, after)
BY NoneApart DEF Firm, JobType, Limit

LEMMA EnsureFirm ==
  ASSUME IInv, NEW k \in Keys, NEW account \in {"personal", "team"}, EnsureJob(k, account)
  PROVE  AllFirm
<1>1. jobs' = [jobs EXCEPT ![k] = JobsWith(k, account)[k]]
  BY DEF EnsureJob, JobsWith, IInv, Shared, JobsOK
<1>2. ASSUME jobs[k] # None PROVE Firm(jobs[k], JobsWith(k, account)[k])
  <2> DEFINE job == [jobs[k] EXCEPT !.account = account]
  <2>1. JobsWith(k, account)[k] = job
    BY <1>2 DEF JobsWith, IInv, Shared, JobsOK
  <2>2. jobs[k] \in JobType
    BY <1>2, JobHasStore DEF IInv
  <2>3. job \in JobType /\ job.limit = jobs[k].limit
    BY <2>2 DEF JobType
  <2> HIDE DEF job
  <2> QED BY <2>1, <2>2, <2>3, FieldsFirm
<1> QED BY <1>1, <1>2, OneFirm DEF IInv, Shared

LEMMA ScannedFirm ==
  ASSUME IInv, NEW asked, NEW passed, Scanned(asked, passed)
  PROVE  AllFirm
<1> SUFFICES ASSUME NEW k \in Known PROVE Firm(jobs[k], jobs'[k])
  BY DEF AllFirm
<1> DEFINE later == now + ProbeCooldown
<1>1. jobs[k] \in JobType /\ k \in Keys
  BY DEF Known, IInv, Shared, JobsOK
<1>2. jobs'[k] = jobs[k] \/ jobs'[k] = [jobs[k] EXCEPT !.next = later]
  BY <1>1 DEF Scanned
<1>3. later \in Nat
  BY RuntimeAssumption DEF IInv, Clock
<1> HIDE DEF later
<1>4. jobs'[k] \in JobType /\ jobs'[k].limit = jobs[k].limit
  BY <1>1, <1>2, <1>3 DEF JobType
<1> QED BY <1>1, <1>4, FieldsFirm

\* A round sets the time of the next one.
LEMMA NextFirm ==
  ASSUME IInv, NEW k \in Keys, jobs[k] # None, NEW n \in Nat,
         jobs' = [jobs EXCEPT ![k].next = n]
  PROVE  AllFirm
<1> DEFINE job == [jobs[k] EXCEPT !.next = n]
<1>1. jobs' = [jobs EXCEPT ![k] = job]
  OBVIOUS
<1>2. jobs[k] \in JobType
  BY JobHasStore DEF IInv
<1>3. job \in JobType /\ job.limit = jobs[k].limit
  BY <1>2 DEF JobType
<1> HIDE DEF job
<1> QED BY <1>1, <1>2, <1>3, FieldsFirm, OneFirm DEF IInv, Shared

\* What comes of a call is noted with the job.
LEMMA SeenFirm ==
  ASSUME IInv, NEW k \in Keys, jobs[k] # None, NEW seen \in {"failed", "degraded", "verified"},
         jobs' = [jobs EXCEPT ![k].seen = seen]
  PROVE  AllFirm
<1> DEFINE job == [jobs[k] EXCEPT !.seen = seen]
<1>1. jobs' = [jobs EXCEPT ![k] = job]
  OBVIOUS
<1>2. jobs[k] \in JobType
  BY JobHasStore DEF IInv
<1>3. job \in JobType /\ job.limit = jobs[k].limit
  BY <1>2 DEF JobType
<1> HIDE DEF job
<1> QED BY <1>1, <1>2, <1>3, FieldsFirm, OneFirm DEF IInv, Shared

LEMMA RoundFirm ==
  ASSUME IInv, NEW p \in Probers, Round(p)
  PROVE  AllFirm
<1>1. ASSUME RefuseRound(p) \/ BeginRound(p) \/ EndRound(p) PROVE AllFirm
  <2>1. /\ prober[p].key \in Keys /\ jobs[prober[p].key] # None /\ prober[p] \in ProberType
    BY <1>1, AtWork DEF RefuseRound, BeginRound, EndRound
  <2>2. /\ now + RejectCooldown \in Nat /\ now + ProbeCooldown \in Nat
    BY RuntimeAssumption, CooldownAssumption DEF IInv, Clock
  <2>3. prober[p].start + RoundCooldown(p) \in Nat
    BY <2>1, RuntimeAssumption DEF RoundCooldown, ProberType
  <2>4. PICK n \in Nat : jobs' = [jobs EXCEPT ![prober[p].key].next = n]
    BY <1>1, <2>2, <2>3 DEF RefuseRound, BeginRound, EndRound
  <2> QED BY <2>1, <2>4, NextFirm
<1>2. ASSUME jobs' = jobs PROVE AllFirm
  BY <1>2, SameFirm DEF IInv, Shared
<1> QED BY <1>1, <1>2 DEF Round, SkipSatisfied, Judge, runtimeVars

LEMMA ProbeFirm ==
  ASSUME IInv, NEW p \in Probers, Probe(p)
  PROVE  AllFirm
<1> DEFINE k == prober[p].key
<1>1. ASSUME NEW sts, NEW seen \in {"failed", "degraded", "verified"}, Record(k, sts, seen),
             prober[p].pc # "idle"
      PROVE  AllFirm
  BY <1>1, AtWork, SeenFirm DEF Record
<1>2. ASSUME NEW status \in RejectedStatus, NEW retryAfter \in RetryAfters,
             ProbeRejected(p, status, retryAfter)
      PROVE  AllFirm
  <2> DEFINE limit == Limited(jobs[k].limit, status, retryAfter, now)
             later == now + Longer(RejectCooldown, retryAfter)
             job == [jobs[k] EXCEPT !.limit = limit, !.next = later]
  <2>1. k \in Keys /\ jobs[k] # None /\ jobs[k] \in JobType
    BY <1>2, AtWork DEF ProbeRejected
  <2>2. /\ limit \in Limit /\ later \in Nat
        /\ jobs[k].limit.blocked => limit.blocked
        /\ limit.until >= jobs[k].limit.until
    <3>1. jobs[k].limit \in Limit /\ retryAfter \in Nat /\ now \in Nat
      BY <2>1, RuntimeAssumption DEF JobType, IInv, Clock
    <3> QED BY <3>1, LimitedType
  <2>3. jobs' = [jobs EXCEPT ![k] = job]
    BY <1>2, <2>1 DEF ProbeRejected, IInv, Shared, JobsOK
  <2> HIDE DEF limit, later
  <2>4. job \in JobType /\ job.limit = limit
    BY <2>1, <2>2 DEF JobType
  <2> HIDE DEF job
  <2>5. Firm(jobs[k], job)
    BY <2>2, <2>4, NoneApart DEF Firm
  <2> QED BY <2>1, <2>3, <2>5, OneFirm DEF IInv, Shared
<1>3. ASSUME jobs' = jobs PROVE AllFirm
  BY <1>3, SameFirm DEF IInv, Shared
<1>4. ASSUME NEW result \in ProbeReplies, ProbeFails(p, result) PROVE AllFirm
  BY <1>1, <1>4 DEF ProbeFails
<1>5. ASSUME NEW result \in ProbeReplies, ProbeUnrecorded(p, result) \/ ReplayUnrecorded(p, result)
      PROVE  AllFirm
  BY <1>3, <1>5 DEF ProbeUnrecorded, ReplayUnrecorded, runtimeVars
<1>6. ASSUME ProbeOverloaded(p) PROVE AllFirm
  BY <1>1, <1>6 DEF ProbeOverloaded
<1>7. ASSUME ProbeDegraded(p) PROVE AllFirm
  BY <1>1, <1>7 DEF ProbeDegraded
<1>8. ASSUME NEW t \in Tokens, ProbeIssues(p, t) PROVE AllFirm
  BY <1>3, <1>8 DEF ProbeIssues, runtimeVars
<1>9. ASSUME ReplayFails(p) PROVE AllFirm
  BY <1>1, <1>9 DEF ReplayFails
<1>10. ASSUME ReplayPasses(p) PROVE AllFirm
  BY <1>3, <1>10 DEF ReplayPasses
<1>11. ASSUME RecordPassed(p) PROVE AllFirm
  BY <1>1, <1>11 DEF RecordPassed
<1> QED BY <1>2, <1>4, <1>5, <1>6, <1>7, <1>8, <1>9, <1>10, <1>11 DEF Probe

LEMMA SendFirm ==
  ASSUME IInv, NEW r \in Requests, Send(r) \/ Complete(r)
  PROVE  AllFirm
<1>1. ASSUME jobs' = jobs PROVE AllFirm
  BY <1>1, SameFirm DEF IInv, Shared
<1>2. ASSUME NEW k \in Keys, NEW account \in {"personal", "team"}, LookUp(r, k, account)
      PROVE  AllFirm
  BY <1>2, EnsureFirm DEF LookUp
<1> QED BY <1>1, <1>2 DEF Send, Complete, Admit, Refuse, ForwardPlain, Inject, runtimeVars

LEMMA RespondFirm ==
  ASSUME IInv, NEW r \in Requests, Respond(r)
  PROVE  AllFirm
<1> DEFINE k == req[r].key
<1>1. PICK status \in Statuses, retryAfter \in RetryAfters :
        \/ RespondPlain(r, status, retryAfter)
        \/ RespondWithdraws(r, status, retryAfter)
        \/ RespondReplaces(r, status, retryAfter)
        \/ \E t \in Tokens : RespondState(r, status, retryAfter, t)
        \/ RespondGarbled(r, status, retryAfter)
  BY DEF Respond
<1> DEFINE after == LimitAfter(jobs[k], status, retryAfter)
           revoked == [after EXCEPT !.next = now, !.seen = "revoked"]
<1>2. /\ Answered(r)
      /\ k \in Known => \/ jobs' = [jobs EXCEPT ![k] = after]
                        \/ jobs' = [jobs EXCEPT ![k] = revoked]
      /\ k \notin Known => jobs' = jobs
  BY <1>1 DEF RespondPlain, RespondWithdraws, RespondReplaces, RespondState, RespondGarbled
<1>3. CASE k \in Known
  <2>1. jobs[k] # None /\ jobs[k] \in JobType /\ k \in Keys
    BY <1>3, JobHasStore DEF Known, IInv
  <2>2. /\ after \in JobType /\ revoked \in JobType
        /\ jobs[k].limit.blocked => after.limit.blocked
        /\ after.limit.until >= jobs[k].limit.until
    BY <2>1, LimitAfterType DEF IInv, Clock
  <2> HIDE DEF after
  <2>3. revoked.limit = after.limit
    BY <2>2 DEF JobType
  <2> HIDE DEF revoked
  <2>4. Firm(jobs[k], after) /\ Firm(jobs[k], revoked)
    BY <2>2, <2>3, NoneApart DEF Firm
  <2> QED BY <1>2, <1>3, <2>1, <2>4, OneFirm DEF IInv, Shared
<1>4. CASE k \notin Known
  BY <1>2, <1>4, SameFirm DEF IInv, Shared
<1> QED BY <1>3, <1>4

\* No order of answers, rounds, look-ups and withdrawals takes back a verdict
\* or brings a deadline forward while the plugin runs
\* (credential.rs: reject; runtime.rs: ensure_job, record_rejection).
THEOREM LimitsHold == Spec => LimitNeverLoosens
<1>1. ASSUME IInv, [Next]_vars
      PROVE  \/ UNCHANGED vars
             \/ \A k \in Known :
                  \/ restarts' # restarts
                  \/ /\ jobs'[k] # None
                     /\ jobs[k].limit.blocked => jobs'[k].limit.blocked
                     /\ jobs'[k].limit.until >= jobs[k].limit.until
  <2>1. ASSUME AllFirm
        PROVE  \A k \in Known : /\ jobs'[k] # None
                                /\ jobs[k].limit.blocked => jobs'[k].limit.blocked
                                /\ jobs'[k].limit.until >= jobs[k].limit.until
    BY <2>1 DEF AllFirm, Firm
  <2>2. ASSUME jobs' = jobs PROVE AllFirm
    BY <1>1, <2>2, SameFirm DEF IInv, Shared
  <2>3. CASE Choose
    <3>1. ASSUME NEW k \in Keys, NEW account \in {"personal", "team"}, AutoHarvest(k, account)
          PROVE  AllFirm
      BY <1>1, <3>1, EnsureFirm DEF AutoHarvest
    <3>2. ASSUME NEW k \in Keys, PickDue(k) PROVE AllFirm
      BY <1>1, <3>2, ScannedFirm DEF PickDue
    <3>3. ASSUME PickNone PROVE AllFirm
      BY <1>1, <3>3, ScannedFirm DEF PickNone
    <3>4. ASSUME NEW p \in Operators, NEW k \in Keys, HarvestNow(p, k) PROVE AllFirm
      BY <2>2, <3>4 DEF HarvestNow, runtimeVars
    <3> QED BY <2>1, <2>3, <3>1, <3>2, <3>3, <3>4 DEF Choose
  <2>4. CASE Restart
    <3>1. restarts' = restarts + 1 /\ restarts \in Nat
      BY <1>1, <2>4 DEF Restart, IInv, Clock
    <3> QED BY <3>1
  <2>5. CASE Tick \/ Operate
    BY <2>1, <2>2, <2>5 DEF Tick, Operate, SetInjection, SetFallback, runtimeVars
  <2>6. CASE \E p \in Probers : Round(p) \/ Probe(p)
    BY <1>1, <2>1, <2>6, RoundFirm, ProbeFirm
  <2>7. CASE \E r \in Requests : Send(r) \/ Respond(r) \/ Complete(r)
    BY <1>1, <2>1, <2>7, SendFirm, RespondFirm
  <2> QED BY <1>1, <2>3, <2>4, <2>5, <2>6, <2>7 DEF Next
<1>2. [][IInv /\ [Next]_vars]_vars => LimitNeverLoosens
  BY <1>1, PTL DEF LimitNeverLoosens
<1> QED BY <1>2, IInvHolds, PTL DEF Spec

-----------------------------------------------------------------------------
(* What a response costs.                                                  *)

\* A promotion installs the queued renewal, and drops only what it replaces.
LEMMA PromoteKeepsReady ==
  ASSUME NEW st \in Store, NEW i, st.active = None, st.ready # None,
         Accept(st.blocks, st.ready.token, i)
  PROVE  st.ready.token \in TokensIn(Promote(st, i))
<1>1. ShouldPromote(st, i)
  BY DEF ShouldPromote, ReadyUsable, Usable
<1>2. /\ Promote(st, i).active # None /\ Promote(st, i).active.token = st.ready.token
  <2>1. st.ready.token \in Tokens /\ Tokens \in SUBSET Tokens
    BY DEF Store, Snapshot
  <2>2. Promote(st, i) = Install(st, st.ready.token)
    BY <1>1 DEF Promote
  <2> QED BY <2>1, <2>2, InstallKept
<1> QED BY <1>2 DEF TokensIn

\* The signal costs the store the state it is about, and no other that is of use.
LEMMA RejectCostsUsed ==
  ASSUME NEW st \in Store, NEW used \in Snapshot, NEW i
  PROVE  \A t \in TokensIn(st) :
           Accept(st.blocks, t, i) /\ t # used.token
             => t \in TokensIn(RejectAndPromote(st, used, i))
<1> SUFFICES ASSUME NEW t \in TokensIn(st), Accept(st.blocks, t, i), t # used.token
             PROVE  t \in TokensIn(RejectAndPromote(st, used, i))
  OBVIOUS
<1>1. CASE ~IsCurrent(st, used)
  BY <1>1 DEF RejectAndPromote
<1>2. CASE IsCurrent(st, used)
  <2>1. st.active # None /\ st.active.token = used.token
    BY <1>2, TokenAssumption DEF IsCurrent, Store, Snapshot
  <2>2. st.ready # None /\ t = st.ready.token
    BY <2>1 DEF TokensIn
  <2>3. /\ Emptied(st) \in Store /\ Emptied(st).active = None
        /\ Emptied(st).ready = st.ready /\ Emptied(st).blocks = st.blocks
    BY DEF Emptied, Store
  <2>4. t \in TokensIn(Promote(Emptied(st), i))
    BY <2>2, <2>3, PromoteKeepsReady
  <2> QED BY <1>2, <2>4 DEF RejectAndPromote
<1> QED BY <1>1, <1>2

\* The job's store after one of its stores was changed.
LEMMA CurrentAfter ==
  ASSUME Shared, NEW k \in Known, NEW st \in Kept(issued[k]),
         stores' = UpdateCurrent(stores, k, st)
  PROVE  stores'[k][Len(stores'[k])] = st
<1>1. k \in Keys /\ Len(stores[k]) \in 1..Len(stores[k]) /\ Stacked(stores, issued)
  BY JobHasStore DEF Known, Shared, StoresOK
<1> DEFINE after == UpdateStore(stores, k, Len(stores[k]), st)
<1>2. /\ SameDepth(stores, after)
      /\ \A h \in 1..Len(stores[k]) :
           after[k][h] = IF h = Len(stores[k]) THEN st ELSE stores[k][h]
  BY <1>1, UpdateStacked
<1>3. stores' = after
  BY DEF UpdateCurrent
<1> HIDE DEF after
<1> QED BY <1>1, <1>2, <1>3 DEF SameDepth

\* Only a response to r is a response to r.
LEMMA OnlyResponsesAnswer ==
  ASSUME IInv, [Next]_vars, NEW r \in Requests, Answers(r)
  PROVE  Respond(r)
<1>1. r \notin observed /\ r \in observed'
  BY DEF Answers
<1>2. CASE UNCHANGED vars
  BY <1>1, <1>2 DEF vars, requestVars
<1>3. CASE Tick \/ Choose \/ Operate
  BY <1>1, <1>3 DEF Tick, Choose, Operate, AutoHarvest, PickDue, PickNone, HarvestNow,
     SetInjection, SetFallback, requestVars
<1>4. CASE Restart
  BY <1>1, <1>4 DEF Restart
<1>5. ASSUME NEW p \in Probers, Round(p) PROVE FALSE
  BY <1>1, <1>5 DEF Round, RefuseRound, SkipSatisfied, BeginRound, Judge, EndRound, requestVars
<1>6. ASSUME NEW p \in Probers, Probe(p) PROVE FALSE
  BY <1>1, <1>6 DEF Probe, ProbeFails, ProbeUnrecorded, ReplayUnrecorded, ProbeRejected,
     ProbeOverloaded, ProbeDegraded, ProbeIssues, ReplayFails, ReplayPasses,
     RecordPassed, requestVars
<1>7. ASSUME NEW o \in Requests, Send(o) \/ Complete(o) PROVE FALSE
  BY <1>1, <1>7 DEF Send, Complete, Admit, Refuse, ForwardPlain, LookUp, Inject
<1>8. ASSUME NEW o \in Requests, Respond(o) PROVE Respond(r)
  <2>1. MarkObserved(o)
    BY <1>8 DEF Respond, RespondPlain, RespondWithdraws, RespondReplaces, RespondState,
       RespondGarbled, Answered
  <2>2. o = r
    BY <1>1, <2>1 DEF MarkObserved
  <2> QED BY <1>8, <2>2
<1> QED BY <1>2, <1>3, <1>4, <1>5, <1>6, <1>7, <1>8 DEF Next

\* With many requests, rounds and changes of a job's store under way, the
\* answer to one of them costs the job no usable state but that request's own
\* (store.rs: reject_and_promote and observe compare version and fingerprint).
THEOREM AnswersCostOnlyUsed == Spec => AnswerCostsOnlyUsed
<1>1. ASSUME IInv, [Next]_vars, NEW r \in Requests, Answers(r), inflight[r] # None,
             req[r].key \in Known
      PROVE  /\ UsableTokens(StoreOf(req[r].key)) \ {inflight[r].snapshot.token}
                  \subseteq TokensIn(stores'[req[r].key][Len(stores'[req[r].key])])
             /\ req'[r].key = req[r].key
  <2> DEFINE k == req[r].key
             st == StoreOf(k)
             used == inflight[r].snapshot
             after == stores'[k][Len(stores'[k])]
  <2>1. PICK status \in Statuses, retryAfter \in RetryAfters :
          \/ RespondPlain(r, status, retryAfter)
          \/ RespondWithdraws(r, status, retryAfter)
          \/ RespondReplaces(r, status, retryAfter)
          \/ \E t \in Tokens : RespondState(r, status, retryAfter, t)
          \/ RespondGarbled(r, status, retryAfter)
    BY <1>1, OnlyResponsesAnswer DEF Respond
  <2>2. Answered(r)
    BY <2>1 DEF RespondPlain, RespondWithdraws, RespondReplaces, RespondState, RespondGarbled
  <2>3. req'[r].key = k
    BY <1>1, <2>2 DEF Answered, IInv, RequestsOK, RequestType
  <2>4. st \in Kept(issued[k]) /\ st \in Store /\ issued[k] \in SUBSET Tokens /\ k \in Keys
    BY <1>1, JobHasStore DEF Known, IInv, Kept
  <2>5. used \in Snapshot
    BY <1>1 DEF IInv, RequestsOK, Injected
  <2>6. \A t \in UsableTokens(st) : t \in TokensIn(st) /\ Accept(st.blocks, t, now)
    BY DEF UsableTokens
  <2>7. ASSUME NEW new \in Kept(issued[k]), stores' = UpdateCurrent(stores, k, new)
        PROVE  after = new
    BY <1>1, <2>7, CurrentAfter DEF IInv
  <2>8. CASE RespondPlain(r, status, retryAfter)
    <3>1. after = st
      BY <2>8 DEF RespondPlain, StoreOf
    <3> QED BY <2>3, <2>6, <3>1
  <2>9. CASE RespondWithdraws(r, status, retryAfter)
    <3>1. RejectAndPromote(st, used, now) \in Kept(issued[k])
      BY <2>4, RejectKept
    <3>2. stores' = UpdateCurrent(stores, k, RejectAndPromote(st, used, now))
      BY <1>1, <2>9 DEF RespondWithdraws
    <3>3. after = RejectAndPromote(st, used, now)
      BY <2>7, <3>1, <3>2
    <3>4. \A t \in UsableTokens(st) \ {used.token} : t \in TokensIn(after)
      BY <2>4, <2>5, <2>6, <3>3, RejectCostsUsed
    <3> QED BY <2>3, <3>4
  <2>10. CASE RespondReplaces(r, status, retryAfter)
    BY <1>1, <2>10 DEF RespondReplaces
  <2>11. ASSUME NEW suspect \in BOOLEAN,
                stores' = UpdateCurrent(stores, k, Observe(st, suspect, used))
         PROVE  \A t \in UsableTokens(st) : t \in TokensIn(after)
    <3>1. /\ Observe(st, suspect, used) \in Kept(issued[k])
          /\ TokensIn(Observe(st, suspect, used)) = TokensIn(st)
      BY <2>4, ObserveKept
    <3>2. after = Observe(st, suspect, used)
      BY <2>7, <2>11, <3>1
    <3> QED BY <2>6, <3>1, <3>2
  <2>12. CASE \E t \in Tokens : RespondState(r, status, retryAfter, t)
    <3>1. PICK t \in Tokens : RespondState(r, status, retryAfter, t)
      BY <2>12
    <3>2. stores' = UpdateCurrent(stores, k, Observe(st, ~Accept(st.blocks, t, now), used))
      BY <1>1, <3>1 DEF RespondState
    <3>3. (~Accept(st.blocks, t, now)) \in BOOLEAN
      BY DEF Accept
    <3> QED BY <2>3, <2>11, <3>2, <3>3
  <2>13. CASE RespondGarbled(r, status, retryAfter)
    <3>1. stores' = UpdateCurrent(stores, k, Observe(st, TRUE, used))
      BY <1>1, <2>13 DEF RespondGarbled
    <3> QED BY <2>3, <2>11, <3>1
  <2> QED BY <2>1, <2>8, <2>9, <2>10, <2>12, <2>13
<1>2. ASSUME IInv, [Next]_vars
      PROVE  \/ UNCHANGED vars
             \/ \A r \in Requests :
                  LET k == req[r].key IN
                  (Answers(r) /\ inflight[r] # None /\ k \in Known) =>
                    UsableTokens(StoreOf(k)) \ {inflight[r].snapshot.token}
                      \subseteq TokensIn(StoreOf(k)')
  BY <1>1, <1>2 DEF StoreOf
<1>3. [][IInv /\ [Next]_vars]_vars => AnswerCostsOnlyUsed
  BY <1>2, PTL DEF AnswerCostsOnlyUsed
<1> QED BY <1>3, IInvHolds, PTL DEF Spec

-----------------------------------------------------------------------------
(* What is served.                                                         *)

\* A usable store stays usable when it promotes, and then there is a state.
LEMMA PromoteServes ==
  ASSUME NEW st \in Store, NEW i, Usable(st, i)
  PROVE  Promote(st, i) \in Store /\ Usable(Promote(st, i), i)
<1>1. CASE ShouldPromote(st, i)
  <2>1. st.ready # None /\ st.ready.token \in Tokens /\ Accept(st.blocks, st.ready.token, i)
    BY <1>1 DEF ShouldPromote, ReadyUsable, Store, Snapshot
  <2>2. Promote(st, i) = Install(st, st.ready.token)
    BY <1>1 DEF Promote
  <2>3. /\ Promote(st, i) \in Kept(Tokens) /\ Promote(st, i).blocks = st.blocks
        /\ Promote(st, i).active # None /\ Promote(st, i).active.token = st.ready.token
    BY <2>1, <2>2, InstallKept
  <2> QED BY <2>1, <2>3 DEF Usable, Kept
<1>2. CASE ~ShouldPromote(st, i)
  BY <1>2 DEF Promote
<1> QED BY <1>1, <1>2

LEMMA InstallServes ==
  ASSUME NEW st \in Store, NEW t \in Tokens, NEW i, Accept(st.blocks, t, i)
  PROVE  Install(st, t) \in Store /\ Usable(Install(st, t), i)
<1>1. /\ Install(st, t) \in Kept(Tokens) /\ Install(st, t).blocks = st.blocks
      /\ Install(st, t).active # None /\ Install(st, t).active.token = t
  BY InstallKept
<1> QED BY <1>1 DEF Usable, Kept

\* An acceptable state that is offered leaves the store usable.
LEMMA OfferServes ==
  ASSUME NEW st \in Store, NEW t \in Tokens, NEW i, Accept(st.blocks, t, i)
  PROVE  Offer(st, t, i) \in Store /\ Usable(Offer(st, t, i), i)
<1>1. CASE st.active # None /\ st.active.token.fp = t.fp
  <2>1. st.active.token = t
    BY <1>1, TokenAssumption DEF Store, Snapshot
  <2> QED BY <1>1, <2>1 DEF Offer, Usable
<1>2. CASE ~(st.active # None /\ st.active.token.fp = t.fp) /\ ~Usable(st, i)
  BY <1>2, InstallServes DEF Offer
<1>3. CASE ~(st.active # None /\ st.active.token.fp = t.fp) /\ Usable(st, i)
  <2>1. st \in Kept(Tokens)
    BY DEF Kept, Store, Snapshot
  <2>2. /\ Enqueue(st, t) \in Kept(Tokens)
        /\ Enqueue(st, t).blocks = st.blocks /\ Enqueue(st, t).active = st.active
    BY <2>1, EnqueueKept
  <2>3. Enqueue(st, t) \in Store /\ Usable(Enqueue(st, t), i)
    BY <1>3, <2>2 DEF Usable, Kept
  <2> QED BY <1>3, <2>3, PromoteServes DEF Offer
<1> QED BY <1>1, <1>2, <1>3

\* To promote twice is to promote once.
LEMMA PromoteTwice ==
  ASSUME NEW st \in Store, NEW i
  PROVE  Promote(Promote(st, i), i) = Promote(st, i)
<1>1. CASE ShouldPromote(st, i)
  <2>1. st.ready.token \in Tokens
    BY <1>1 DEF ShouldPromote, ReadyUsable, Store, Snapshot
  <2>2. Promote(st, i) = Install(st, st.ready.token)
    BY <1>1 DEF Promote
  <2>3. Promote(st, i).ready = None
    BY <2>2 DEF Install
  <2>4. ~ShouldPromote(Promote(st, i), i)
    BY <2>3 DEF ShouldPromote, ReadyUsable
  <2> HIDE DEF Promote
  <2>5. Promote(Promote(st, i), i)
          = IF ShouldPromote(Promote(st, i), i)
            THEN Install(Promote(st, i), Promote(st, i).ready.token) ELSE Promote(st, i)
    BY DEF Promote
  <2> QED BY <2>4, <2>5
<1>2. CASE ~ShouldPromote(st, i)
  BY <1>2 DEF Promote
<1> QED BY <1>1, <1>2

\* Only a restart counts as one.
LEMMA OnlyRestartsCount ==
  ASSUME [Next]_vars, restarts' # restarts
  PROVE  Restart
<1>1. CASE UNCHANGED vars
  BY <1>1 DEF vars
<1>2. CASE Tick \/ Choose \/ Operate
  BY <1>2 DEF Tick, Choose, Operate, AutoHarvest, PickDue, PickNone, HarvestNow,
     SetInjection, SetFallback
<1>3. ASSUME NEW p \in Probers, Round(p) PROVE FALSE
  BY <1>3 DEF Round, RefuseRound, SkipSatisfied, BeginRound, Judge, EndRound
<1>4. ASSUME NEW p \in Probers, Probe(p) PROVE FALSE
  BY <1>4 DEF Probe, ProbeFails, ProbeUnrecorded, ReplayUnrecorded, ProbeRejected,
     ProbeOverloaded, ProbeDegraded, ProbeIssues, ReplayFails, ReplayPasses, RecordPassed
<1>5. ASSUME NEW o \in Requests, Send(o) \/ Complete(o) PROVE FALSE
  BY <1>5 DEF Send, Complete, Admit, Refuse, ForwardPlain, LookUp, Inject
<1>6. ASSUME NEW o \in Requests, Respond(o) PROVE FALSE
  BY <1>6 DEF Respond, RespondPlain, RespondWithdraws, RespondReplaces, RespondState,
     RespondGarbled, Answered
<1> QED BY <1>1, <1>2, <1>3, <1>4, <1>5, <1>6 DEF Next

\* Whenever the plugin restarts, each state of the file that is acceptable for
\* its account serves at once (runtime.rs: restore_jobs, StateStore::offer).
THEOREM RestartsKeep == Spec => RestartKeepsStates
<1>1. ASSUME IInv, [Next]_vars, NEW k \in Keys, restarts' # restarts, disk[k] # None,
             Accept(Blocks(disk[k].account), disk[k].token, now)
      PROVE  /\ jobs'[k] # None
             /\ AcquireResult(stores'[k][Len(stores'[k])], now) # None
  <2> DEFINE blocks == Blocks(disk[k].account)
             st == Offer(NewStore(blocks), disk[k].token, now)
             job == [account |-> disk[k].account, next |-> 0, limit |-> NewLimit, seen |-> "none"]
  <2>1. Restart /\ Restored(k)
    BY <1>1, OnlyRestartsCount DEF Restored
  <2>2. jobs'[k] = job /\ stores'[k] = <<st>>
    BY <2>1 DEF Restart
  <2>3. disk[k].token \in Tokens /\ disk[k].account \in {"personal", "team"}
    BY <1>1 DEF IInv, Shared, DiskOK, SavedState
  <2>4. job # None
    <3>1. job \in JobType
      BY <2>3 DEF JobType, NewLimit, Limit
    <3> QED BY <3>1, NoneApart
  <2>5. NewStore(blocks) \in Store /\ NewStore(blocks).blocks = blocks
    BY DEF NewStore, Store, Blocks
  <2>6. st \in Store /\ Usable(st, now)
    BY <1>1, <2>3, <2>5, OfferServes
  <2> HIDE DEF st, job
  <2>7. Usable(Promote(st, now), now)
    BY <2>6, PromoteServes
  <2>8. AcquireResult(st, now) # None
    BY <2>7 DEF AcquireResult, Usable
  <2>9. stores'[k][Len(stores'[k])] = st
    BY <2>2
  <2> QED BY <2>2, <2>4, <2>8, <2>9
<1>2. ASSUME IInv, [Next]_vars
      PROVE  \/ UNCHANGED vars
             \/ \A k \in Keys :
                  (restarts' # restarts /\ disk[k] # None
                     /\ Accept(Blocks(disk[k].account), disk[k].token, now))
                  => /\ jobs'[k] # None
                     /\ AcquireResult(StoreOf(k)', now) # None
  BY <1>1, <1>2 DEF StoreOf
<1>3. [][IInv /\ [Next]_vars]_vars => RestartKeepsStates
  BY <1>2, PTL DEF RestartKeepsStates
<1> QED BY <1>3, IInvHolds, PTL DEF Spec

\* Only a call ends a replay, or the record of one.
LEMMA CallersMove ==
  ASSUME IInv, [Next]_vars, NEW p \in Probers, prober[p].pc \in {"replay", "passed"},
         prober'[p].pc \in {"passed", "judge"}, prober'[p].pc # prober[p].pc
  PROVE  Probe(p)
<1>1. prober \in [Probers -> ProberType] /\ prober[p] \in ProberType
  BY DEF IInv, ProbersOK
<1>2. ASSUME prober'[p] = prober[p] PROVE FALSE
  BY <1>2
<1>3. ASSUME NEW o \in Probers, NEW q, prober' = [prober EXCEPT ![o] = q], o # p
      PROVE  FALSE
  BY <1>1, <1>2, <1>3
<1>4. CASE Tick \/ Operate \/ UNCHANGED vars
  BY <1>2, <1>4 DEF Tick, Operate, SetInjection, SetFallback, vars
<1>5. ASSUME Choose PROVE FALSE
  <2>1. ASSUME NEW o \in Probers, NEW k, TakeUp(o, k), prober[o].pc = "idle" PROVE FALSE
    <3>1. o # p
      BY <2>1
    <3> QED BY <1>3, <2>1, <3>1 DEF TakeUp
  <2>2. Worker \in Probers /\ Operators \subseteq Probers
    BY DEF Probers
  <2> QED BY <1>2, <1>5, <2>1, <2>2 DEF Choose, AutoHarvest, PickDue, PickNone, HarvestNow
<1>6. ASSUME Restart PROVE FALSE
  BY <1>6 DEF Restart, IdleProber
<1>7. ASSUME NEW r \in Requests, Send(r) \/ Complete(r) PROVE FALSE
  BY <1>2, <1>7 DEF Send, Complete, Admit, Refuse, ForwardPlain, LookUp, Inject
<1>8. ASSUME NEW r \in Requests, Respond(r) PROVE FALSE
  <2>1. Answered(r)
    BY <1>8 DEF Respond, RespondPlain, RespondWithdraws, RespondReplaces, RespondState,
       RespondGarbled
  <2> QED BY <1>2, <2>1 DEF Answered
<1>9. ASSUME NEW o \in Probers, Round(o) PROVE FALSE
  <2>1. ASSUME o = p PROVE FALSE
    BY <1>9, <2>1 DEF Round, RefuseRound, SkipSatisfied, BeginRound, Judge, EndRound
  <2>2. ASSUME o # p PROVE FALSE
    <3>1. CASE SkipSatisfied(prober[Worker].key)
      <4>1. Worker \in Probers /\ prober[Worker].pc = "picked"
        BY <3>1 DEF SkipSatisfied, Probers
      <4>2. Worker # p
        BY <4>1
      <4> QED BY <1>3, <3>1, <4>1, <4>2 DEF SkipSatisfied
    <3>2. prober'[p] = prober[p] \/ SkipSatisfied(prober[Worker].key)
      BY <1>1, <1>9, <2>2 DEF Round, RefuseRound, SkipSatisfied, BeginRound, Judge, EndRound
    <3> QED BY <1>2, <3>1, <3>2
  <2> QED BY <2>1, <2>2
<1>10. ASSUME NEW o \in Probers, Probe(o) PROVE o = p
  <2> SUFFICES ASSUME o # p PROVE prober'[p] = prober[p]
    BY <1>2
  <2> QED BY <1>1, <1>10 DEF Probe, ProbeFails, ProbeUnrecorded, ReplayUnrecorded, ProbeRejected,
       ProbeOverloaded, ProbeDegraded, ProbeIssues, ReplayFails, ReplayPasses, RecordPassed, Finish
<1> QED BY <1>4, <1>5, <1>6, <1>7, <1>8, <1>9, <1>10 DEF Next

LEMMA PassedByReplay ==
  ASSUME IInv, [Next]_vars, NEW p \in Probers,
         prober[p].pc = "replay", prober'[p].pc = "passed"
  PROVE  ReplayPasses(p)
<1>1. Probe(p)
  BY CallersMove
<1>2. ASSUME NEW result, Finish(p, result) PROVE FALSE
  BY <1>2 DEF Finish, IInv, ProbersOK, ProberType
<1> QED BY <1>1, <1>2 DEF Probe, ProbeFails, ProbeUnrecorded, ReplayUnrecorded, ProbeRejected,
       ProbeOverloaded, ProbeDegraded, ProbeIssues, ReplayFails, RecordPassed

LEMMA JudgedAfterRecord ==
  ASSUME IInv, [Next]_vars, NEW p \in Probers,
         prober[p].pc = "passed", prober'[p].pc = "judge"
  PROVE  RecordPassed(p)
<1>1. Probe(p)
  BY CallersMove
<1> QED BY <1>1 DEF Probe, ProbeFails, ProbeUnrecorded, ReplayUnrecorded, ProbeRejected,
       ProbeOverloaded, ProbeDegraded, ProbeIssues, ReplayFails, ReplayPasses

-----------------------------------------------------------------------------
(* What goes on being served.                                              *)

\* A store has a state to serve.
Serving(st) == AcquireResult(st, now) # None

\* Each store that has one still has one, and no job of the first gets another.
Lasting(sts, after) ==
  \A k \in Keys : \A g \in 1..Len(sts[k]) :
    /\ Len(after[k]) = Len(sts[k])
    /\ Serving(sts[k][g]) => Serving(after[k][g])

LEMMA PromoteLasts ==
  ASSUME NEW st \in Store, Serving(st)
  PROVE  Serving(Promote(st, now)) /\ Serving(Acquire(st, now))
BY PromoteTwice DEF Serving, AcquireResult, Acquire

LEMMA UsableServes ==
  ASSUME NEW st \in Store, Usable(st, now)
  PROVE  Serving(st)
<1>1. Usable(Promote(st, now), now)
  BY PromoteServes
<1> QED BY <1>1 DEF Serving, AcquireResult, Usable

\* Nothing that is offered takes away what there is.
LEMMA OfferLasts ==
  ASSUME NEW st \in Store, NEW t \in Tokens, Serving(st)
  PROVE  Serving(Offer(st, t, now))
<1>1. CASE ~Accept(st.blocks, t, now)
  BY <1>1 DEF Offer
<1>2. CASE Accept(st.blocks, t, now)
  BY <1>2, OfferServes, UsableServes
<1> QED BY <1>1, <1>2

LEMMA SameLasts ==
  ASSUME NEW sts
  PROVE  Lasting(sts, sts)
BY DEF Lasting

LEMMA UpdateLasts ==
  ASSUME NEW sts, NEW iss, Stacked(sts, iss), NEW k \in Keys,
         NEW g \in 1..Len(sts[k]), NEW st \in Kept(iss[k]), Serving(sts[k][g]) => Serving(st)
  PROVE  Lasting(sts, UpdateStore(sts, k, g, st))
<1> DEFINE after == UpdateStore(sts, k, g, st)
<1>1. /\ \A j \in Keys : Len(after[j]) = Len(sts[j])
      /\ \A j \in Keys : j # k => after[j] = sts[j]
      /\ \A h \in 1..Len(sts[k]) : after[k][h] = IF h = g THEN st ELSE sts[k][h]
  BY UpdateStacked DEF SameDepth
<1> HIDE DEF after
<1> SUFFICES ASSUME NEW j \in Keys, NEW h \in 1..Len(sts[j])
             PROVE  /\ Len(after[j]) = Len(sts[j])
                    /\ Serving(sts[j][h]) => Serving(after[j][h])
  BY DEF Lasting, after
<1>2. CASE j = k /\ h = g
  BY <1>1, <1>2
<1>3. CASE ~(j = k /\ h = g)
  BY <1>1, <1>3
<1> QED BY <1>2, <1>3

\* A store is asked for its state.
LEMMA AskedLasts ==
  ASSUME IInv, NEW k \in Keys, NEW g \in 1..Len(stores[k]),
         stores' = UpdateStore(stores, k, g, Acquire(stores[k][g], now))
  PROVE  Lasting(stores, stores')
<1> DEFINE st == Acquire(stores[k][g], now)
<1>1. Stacked(stores, issued) /\ issued[k] \in SUBSET Tokens
  BY DEF IInv, Shared, StoresOK
<1>2. stores[k][g] \in Kept(issued[k]) /\ stores[k][g] \in Store
  BY <1>1, StackFacts DEF Kept
<1>3. st \in Kept(issued[k])
  BY <1>1, <1>2, AcquireKept
<1>4. Serving(stores[k][g]) => Serving(st)
  BY <1>2, PromoteLasts
<1> HIDE DEF st
<1>5. stores' = UpdateStore(stores, k, g, st)
  BY DEF st
<1> QED BY <1>1, <1>3, <1>4, <1>5, UpdateLasts

LEMMA JobAskedLasts ==
  ASSUME IInv, NEW k \in Known, stores' = UpdateCurrent(stores, k, Acquire(StoreOf(k), now))
  PROVE  Lasting(stores, stores')
<1>1. k \in Keys /\ Len(stores[k]) \in 1..Len(stores[k])
  BY JobHasStore DEF Known, IInv
<1> QED BY <1>1, AskedLasts DEF UpdateCurrent, StoreOf

\* Several jobs are.
LEMMA EachAskedLasts ==
  ASSUME IInv, NEW S \in SUBSET Known,
         stores' = [k \in Keys |-> IF k \in S
                      THEN UpdateCurrent(stores, k, Promote(stores[k][Len(stores[k])], now))[k]
                      ELSE stores[k]]
  PROVE  Lasting(stores, stores')
<1> SUFFICES ASSUME NEW k \in Keys, NEW g \in 1..Len(stores[k])
             PROVE  /\ Len(stores'[k]) = Len(stores[k])
                    /\ Serving(stores[k][g]) => Serving(stores'[k][g])
  BY DEF Lasting
<1>1. CASE k \in S
  <2> DEFINE st == Promote(stores[k][Len(stores[k])], now)
             new == UpdateStore(stores, k, Len(stores[k]), st)
  <2>1. /\ Stacked(stores, issued) /\ issued[k] \in SUBSET Tokens
        /\ Len(stores[k]) \in 1..Len(stores[k])
    BY <1>1, JobHasStore DEF IInv, Shared, StoresOK, Known
  <2>2. stores[k][Len(stores[k])] \in Kept(issued[k]) /\ stores[k][Len(stores[k])] \in Store
    BY <2>1, StackFacts DEF Kept
  <2>3. st \in Kept(issued[k])
    BY <2>1, <2>2, StackFacts, PromoteKept
  <2>4. Serving(stores[k][Len(stores[k])]) => Serving(st)
    BY <2>2, PromoteLasts
  <2>5. stores'[k] = new[k]
    BY <1>1 DEF UpdateCurrent
  <2> HIDE DEF st
  <2>6. Lasting(stores, new)
    BY <2>1, <2>3, <2>4, UpdateLasts
  <2> HIDE DEF new
  <2> QED BY <2>5, <2>6 DEF Lasting
<1>2. CASE k \notin S
  BY <1>2
<1> QED BY <1>1, <1>2

LEMMA RecordLasts ==
  ASSUME IInv, NEW k, NEW seen, Record(k, stores, seen)
  PROVE  Lasting(stores, stores')
BY EachAskedLasts DEF Record, Swept

LEMMA ScannedLasts ==
  ASSUME IInv, NEW asked \in SUBSET Known, NEW passed \in SUBSET Known,
         Scanned(asked, passed)
  PROVE  Lasting(stores, stores')
<1> DEFINE S == asked \cup {j \in passed : Reached(j)}
<1>1. S \in SUBSET Known
  OBVIOUS
<1>2. stores' = [k \in Keys |-> IF k \in S
                   THEN UpdateCurrent(stores, k, Promote(stores[k][Len(stores[k])], now))[k]
                   ELSE stores[k]]
  BY DEF Scanned, StoreOf
<1> HIDE DEF S
<1> QED BY <1>1, <1>2, EachAskedLasts

\* Only a job without a store gets one.
LEMMA EnsureLasts ==
  ASSUME IInv, NEW k \in Keys, NEW account, EnsureJob(k, account)
  PROVE  Lasting(stores, stores')
<1>1. CASE jobs[k] = None
  <2>1. \A j \in Keys : j # k => stores'[j] = stores[j]
    BY <1>1 DEF EnsureJob, StoresWith, IInv, Shared, StoresOK, Stacked
  <2>2. Len(stores[k]) = 0
    BY <1>1, EmptySeq DEF IInv, Shared, StoresOK
  <2> QED BY <2>1, <2>2 DEF Lasting
<1>2. CASE jobs[k] # None
  BY <1>2, SameLasts DEF EnsureJob, StoresWith
<1> QED BY <1>1, <1>2

LEMMA ChooseLasts ==
  ASSUME IInv, Choose
  PROVE  Lasting(stores, stores')
<1>1. ASSUME NEW k \in Keys, NEW account, AutoHarvest(k, account)
      PROVE  Lasting(stores, stores')
  BY <1>1, EnsureLasts DEF AutoHarvest
<1>2. ASSUME NEW k \in Keys, PickDue(k)
      PROVE  Lasting(stores, stores')
  <2>1. k \in Known
    BY <1>2 DEF PickDue, Eligible, Scope, DefaultJobs
  <2>2. PICK passed \in SUBSET (Scope \ {k}), asked \in SUBSET DefaultJobs :
          Scanned(asked \cup {k}, passed)
    BY <1>2 DEF PickDue
  <2>3. asked \cup {k} \in SUBSET Known /\ passed \in SUBSET Known
    BY <2>1 DEF Scope, DefaultJobs
  <2> QED BY <2>2, <2>3, ScannedLasts
<1>3. ASSUME PickNone
      PROVE  Lasting(stores, stores')
  <2>1. PICK asked \in SUBSET DefaultJobs : Scanned(asked, Known)
    BY <1>3 DEF PickNone
  <2>2. asked \in SUBSET Known /\ Known \in SUBSET Known
    BY DEF DefaultJobs
  <2> QED BY <2>1, <2>2, ScannedLasts
<1>4. ASSUME NEW p, NEW k, HarvestNow(p, k)
      PROVE  Lasting(stores, stores')
  BY <1>4, SameLasts DEF HarvestNow, runtimeVars
<1> QED BY <1>1, <1>2, <1>3, <1>4 DEF Choose

LEMMA RoundLasts ==
  ASSUME IInv, NEW p \in Probers, Round(p)
  PROVE  Lasting(stores, stores')
<1>1. ASSUME NEW k \in Known, SkipSatisfied(k)
      PROVE  Lasting(stores, stores')
  BY <1>1, JobAskedLasts DEF SkipSatisfied
<1>2. ASSUME BeginRound(p)
      PROVE  Lasting(stores, stores')
  <2>1. prober[p].pc # "idle"
    BY <1>2 DEF BeginRound
  <2>2. prober[p].key \in Keys /\ prober[p].store \in 1..Len(stores[prober[p].key])
    BY <2>1, AtWork
  <2> QED BY <1>2, <2>2, AskedLasts DEF BeginRound, Held
<1>3. ASSUME RefuseRound(p) \/ Judge(p) \/ EndRound(p)
      PROVE  Lasting(stores, stores')
  BY <1>3, SameLasts DEF RefuseRound, Judge, EndRound, runtimeVars
<1> QED BY <1>1, <1>2, <1>3 DEF Round

LEMMA ProbeLasts ==
  ASSUME IInv, NEW p \in Probers, Probe(p)
  PROVE  Lasting(stores, stores')
<1>1. ASSUME ReplayPasses(p)
      PROVE  Lasting(stores, stores')
  <2> DEFINE k == prober[p].key
             st == Offer(Held(p), prober[p].token, now)
  <2>1. prober[p].pc = "replay" /\ stores' = UpdateStore(stores, k, prober[p].store, st)
    BY <1>1 DEF ReplayPasses
  <2>2. /\ k \in Keys /\ prober[p].store \in 1..Len(stores[k])
        /\ ProberFine(prober[p], stores, issued)
        /\ Held(p) \in Kept(issued[k]) /\ issued[k] \in SUBSET Tokens
    BY <2>1, AtWork
  <2>3. prober[p].token \in issued[k]
    BY <2>1, <2>2 DEF ProberFine
  <2>4. st \in Kept(issued[k]) /\ Held(p) \in Store
    BY <2>2, <2>3, OfferKept DEF Kept
  <2>5. Serving(stores[k][prober[p].store]) => Serving(st)
    BY <2>2, <2>3, <2>4, OfferLasts DEF Held
  <2> HIDE DEF st
  <2> QED BY <2>1, <2>2, <2>4, <2>5, UpdateLasts DEF IInv, Shared, StoresOK
<1> QED BY <1>1, RecordLasts, SameLasts DEF Probe, ProbeFails, ProbeUnrecorded, ReplayUnrecorded,
     ProbeRejected, ProbeOverloaded, ProbeDegraded, ProbeIssues, ReplayFails, RecordPassed,
     runtimeVars

LEMMA SendLasts ==
  ASSUME IInv, NEW r \in Requests, Send(r) \/ Complete(r)
  PROVE  Lasting(stores, stores')
<1>1. ASSUME NEW k, Admit(r, k) \/ Refuse(r, k)
      PROVE  Lasting(stores, stores')
  BY <1>1, SameLasts, JobAskedLasts DEF Admit, Refuse
<1>2. ASSUME NEW k \in Keys, NEW account, LookUp(r, k, account)
      PROVE  Lasting(stores, stores')
  BY <1>2, EnsureLasts DEF LookUp
<1>3. ASSUME NEW k, ForwardPlain(r, k) \/ Complete(r)
      PROVE  Lasting(stores, stores')
  BY <1>3, SameLasts DEF ForwardPlain, Complete, runtimeVars
<1>4. ASSUME Inject(r)
      PROVE  Lasting(stores, stores')
  <2>1. req[r].key \in Keys /\ req[r].store \in 1..Len(stores[req[r].key])
    BY <1>4 DEF Inject, IInv, RequestsOK, RequestFine
  <2> QED BY <1>4, <2>1, SameLasts, AskedLasts DEF Inject
<1> QED BY <1>1, <1>2, <1>3, <1>4 DEF Send

\* Time, a restart and a response are all that can cost a job what it serves.
LEMMA ServiceLasts ==
  ASSUME IInv, [Next]_vars, now' = now, restarts' = restarts,
         ~ \E r \in Requests : Answered(r)
  PROVE  Lasting(stores, stores')
<1>1. now \in Nat /\ restarts \in Nat
  BY DEF IInv, Clock
<1>2. ASSUME Tick \/ Restart PROVE FALSE
  BY <1>1, <1>2 DEF Tick, Restart
<1>3. ASSUME NEW r \in Requests, Respond(r) PROVE FALSE
  BY <1>3 DEF Respond, RespondPlain, RespondWithdraws, RespondReplaces, RespondState,
     RespondGarbled
<1>4. CASE Operate \/ UNCHANGED vars
  BY <1>4, SameLasts DEF Operate, SetInjection, SetFallback, vars, runtimeVars
<1> QED BY <1>2, <1>3, <1>4, ChooseLasts, RoundLasts, ProbeLasts, SendLasts DEF Next

\* What a job has to serve once its states were saved is what was saved.
LEMMA RecordSaves ==
  ASSUME IInv, NEW j, NEW seen, Record(j, stores, seen), NEW k \in Known
  PROVE  LET after == stores'[k][Len(stores'[k])] IN
         IF AcquireResult(after, now) = None THEN disk'[k] = None
         ELSE disk'[k] # None /\ disk'[k].token = AcquireResult(after, now).token
<1> DEFINE st == StoreOf(k)
           found == AcquireResult(st, now)
           swept == UpdateStore(stores, k, Len(stores[k]), Promote(st, now))
           after == stores'[k][Len(stores'[k])]
<1>1. /\ k \in Keys /\ jobs[k] # None /\ jobs[k] \in JobType
      /\ Len(stores[k]) \in 1..Len(stores[k])
      /\ st \in Kept(issued[k]) /\ issued[k] \in SUBSET Tokens /\ st \in Store
  BY JobHasStore DEF Known, IInv, Kept
<1>2. Promote(st, now) \in Kept(issued[k]) /\ Promote(st, now) \in Store
  BY <1>1, PromoteKept DEF Kept
<1>3. stores'[k] = swept[k]
  BY <1>1 DEF Record, Swept, UpdateCurrent, StoreOf
<1>4. Len(swept[k]) = Len(stores[k]) /\ swept[k][Len(stores[k])] = Promote(st, now)
  BY <1>1, <1>2, UpdateStacked DEF IInv, Shared, StoresOK, SameDepth
<1> HIDE DEF swept
<1>5. after = Promote(st, now)
  BY <1>3, <1>4
<1>6. AcquireResult(after, now) = found
  BY <1>1, <1>5, PromoteTwice DEF AcquireResult
<1>7. CASE found # None
  <2>1. disk'[k] = [token |-> found.token, account |-> jobs[k].account]
    BY <1>1, <1>7 DEF Record, Saved, StoreOf
  <2>2. found.token \in Tokens
    BY <1>2, <1>7 DEF AcquireResult, Store, Snapshot
  <2>3. disk'[k] \in SavedState
    BY <1>1, <2>1, <2>2 DEF SavedState, JobType
  <2> HIDE DEF found
  <2>4. disk'[k].token = found.token
    BY <2>1
  <2> HIDE DEF after
  <2> QED BY <1>6, <1>7, <2>3, <2>4, NoneApart DEF after
<1>8. CASE found = None
  <2>1. disk'[k] = None
    BY <1>1, <1>8 DEF Record, Saved, StoreOf
  <2> HIDE DEF found, after
  <2> QED BY <1>6, <1>8, <2>1 DEF after
<1> QED BY <1>7, <1>8

\* A state that passed its replay serves from the moment it is offered, if the
\* store of the round is still the job's.  Between that and its record, which
\* is made under another lock, any thread, request or operator may come: none
\* costs a job what it serves but time, a response and a restart.  The record
\* leaves in the file what every job serves at that moment (runtime.rs:
\* replay_with_state, StateStore::offer, record_observation, save_states).
THEOREM VerifiedServe == Spec => VerifiedServes
<1>1. ASSUME IInv, [Next]_vars, NEW p \in Probers, NEW k \in Known,
             prober[p].pc = "replay", prober'[p].pc = "passed",
             prober[p].key = k, prober[p].store = Len(stores[k]),
             Accept(StoreOf(k).blocks, prober[p].token, now)
      PROVE  Served(k)' # None
  <2> DEFINE t == prober[p].token
             st == Offer(StoreOf(k), t, now)
             after == UpdateStore(stores, k, Len(stores[k]), st)
  <2>1. ReplayPasses(p)
    BY <1>1, PassedByReplay
  <2>2. now' = now /\ stores' = after
    BY <1>1, <2>1 DEF ReplayPasses, Held, StoreOf
  <2>3. /\ k \in Keys /\ Len(stores[k]) \in 1..Len(stores[k])
        /\ StoreOf(k) \in Kept(issued[k]) /\ StoreOf(k) \in Store /\ issued[k] \in SUBSET Tokens
    BY JobHasStore, <1>1 DEF IInv, Known, Kept
  <2>4. t \in issued[k] /\ t \in Tokens
    BY <1>1, <2>3, AtWork DEF ProberFine
  <2>5. st \in Store /\ st \in Kept(issued[k]) /\ Usable(st, now)
    BY <1>1, <2>3, <2>4, OfferServes, OfferKept
  <2>6. Serving(st)
    BY <2>5, UsableServes
  <2> HIDE DEF st
  <2>7. Len(after[k]) = Len(stores[k]) /\ after[k][Len(stores[k])] = st
    BY <1>1, <2>3, <2>5, UpdateStacked DEF IInv, Shared, StoresOK, SameDepth
  <2> HIDE DEF after
  <2> QED BY <2>2, <2>6, <2>7 DEF Served, StoreOf, Serving
<1>2. ASSUME IInv, [Next]_vars, NEW k \in Known, Served(k) # None,
             now' = now, restarts' = restarts, ~ \E r \in Requests : Answered(r)
      PROVE  Served(k)' # None
  <2>1. k \in Keys /\ Len(stores[k]) \in 1..Len(stores[k])
    BY <1>2, JobHasStore DEF Known, IInv
  <2>2. Lasting(stores, stores')
    BY <1>2, ServiceLasts
  <2> QED BY <1>2, <2>1, <2>2 DEF Lasting, Serving, Served, StoreOf
<1>3. ASSUME IInv, [Next]_vars, NEW p \in Probers, NEW k \in Known,
             prober[p].pc = "passed", prober'[p].pc = "judge"
      PROVE  InFile(k)'
  <2>1. RecordPassed(p)
    BY <1>3, JudgedAfterRecord
  <2>2. now' = now /\ Record(prober[p].key, stores, "verified")
    BY <2>1 DEF RecordPassed
  <2> QED BY <1>3, <2>2, RecordSaves DEF InFile, Served, StoreOf
<1>4. ASSUME IInv, [Next]_vars
      PROVE  \/ UNCHANGED vars
             \/ /\ \A p \in Probers, k \in Known :
                     (/\ prober[p].pc = "replay" /\ prober'[p].pc = "passed"
                      /\ prober[p].key = k /\ prober[p].store = Len(stores[k])
                      /\ Accept(StoreOf(k).blocks, prober[p].token, now))
                     => Served(k)' # None
                /\ \A k \in Known :
                     (/\ Served(k) # None /\ now' = now /\ restarts' = restarts
                      /\ ~ \E r \in Requests : Answered(r))
                     => Served(k)' # None
                /\ \A p \in Probers, k \in Known :
                     (prober[p].pc = "passed" /\ prober'[p].pc = "judge") => InFile(k)'
  BY <1>1, <1>2, <1>3, <1>4
<1>5. [][IInv /\ [Next]_vars]_vars => VerifiedServes
  BY <1>4, PTL DEF VerifiedServes
<1> QED BY <1>5, IInvHolds, PTL DEF Spec

-----------------------------------------------------------------------------
(* Strikes.                                                                *)

\* A store gets another, or starts anew.
Eased(new, old) == new.strikes = 0 \/ new.strikes = old.strikes

\* So does every store of after, one added to sts included.
Eases(sts, after) ==
  \A k \in Keys : \A g \in 1..Len(after[k]) :
    \/ after[k][g].strikes = 0
    \/ g \in 1..Len(sts[k]) /\ after[k][g].strikes = sts[k][g].strikes

LEMMA PromoteEased ==
  ASSUME NEW st, NEW i
  PROVE  Eased(Promote(st, i), st) /\ Eased(Acquire(st, i), st)
BY DEF Eased, Promote, Acquire, Install

LEMMA OfferEased ==
  ASSUME NEW st \in Store, NEW t, NEW i
  PROVE  Eased(Offer(st, t, i), st)
<1>1. Enqueue(st, t).strikes = st.strikes
  BY DEF Enqueue, Store
<1>2. Eased(Promote(Enqueue(st, t), i), st)
  BY <1>1, PromoteEased DEF Eased
<1>3. Install(st, t).strikes = 0
  BY DEF Install
<1> QED BY <1>2, <1>3 DEF Offer, Eased

LEMMA RejectEased ==
  ASSUME NEW st, NEW used, NEW i
  PROVE  Eased(RejectAndPromote(st, used, i), st)
<1>1. Emptied(st).strikes = 0
  BY DEF Emptied
<1>2. Promote(Emptied(st), i).strikes = 0
  BY <1>1, PromoteEased DEF Eased
<1> QED BY <1>2 DEF RejectAndPromote, Eased

LEMMA SameEases ==
  ASSUME NEW sts
  PROVE  Eases(sts, sts)
BY DEF Eases

LEMMA UpdateEases ==
  ASSUME NEW sts, NEW iss, Stacked(sts, iss), NEW k \in Keys,
         NEW g \in 1..Len(sts[k]), NEW st \in Kept(iss[k]), Eased(st, sts[k][g])
  PROVE  Eases(sts, UpdateStore(sts, k, g, st))
<1> DEFINE after == UpdateStore(sts, k, g, st)
<1>1. /\ \A j \in Keys : Len(after[j]) = Len(sts[j])
      /\ \A j \in Keys : j # k => after[j] = sts[j]
      /\ \A h \in 1..Len(sts[k]) : after[k][h] = IF h = g THEN st ELSE sts[k][h]
  BY UpdateStacked DEF SameDepth
<1> HIDE DEF after
<1> SUFFICES ASSUME NEW j \in Keys, NEW h \in 1..Len(after[j])
             PROVE  \/ after[j][h].strikes = 0
                    \/ h \in 1..Len(sts[j]) /\ after[j][h].strikes = sts[j][h].strikes
  BY DEF Eases, after
<1>2. CASE j = k /\ h = g
  BY <1>1, <1>2 DEF Eased
<1>3. CASE ~(j = k /\ h = g)
  BY <1>1, <1>3
<1> QED BY <1>2, <1>3

LEMMA UpdateEachEases ==
  ASSUME NEW sts, NEW iss, Stacked(sts, iss), NEW S, NEW after,
         after = [k \in Keys |-> IF k \in S
                                 THEN UpdateCurrent(sts, k, Promote(sts[k][Len(sts[k])], now))[k]
                                 ELSE sts[k]],
         iss \in [Keys -> SUBSET Tokens],
         \A k \in Keys \cap S : sts[k] # <<>>
  PROVE  Eases(sts, after)
<1> SUFFICES ASSUME NEW k \in Keys, NEW g \in 1..Len(after[k])
             PROVE  \/ after[k][g].strikes = 0
                    \/ g \in 1..Len(sts[k]) /\ after[k][g].strikes = sts[k][g].strikes
  BY DEF Eases
<1>1. CASE k \in S
  <2> DEFINE st == Promote(sts[k][Len(sts[k])], now)
  <2>1. Len(sts[k]) \in 1..Len(sts[k])
    BY <1>1, StackFacts
  <2>2. st \in Kept(iss[k])
    BY <2>1, StackFacts, PromoteKept
  <2>3. Eased(st, sts[k][Len(sts[k])])
    BY PromoteEased
  <2>4. after[k] = UpdateStore(sts, k, Len(sts[k]), st)[k]
    BY <1>1 DEF UpdateCurrent
  <2> HIDE DEF st
  <2> DEFINE new == UpdateStore(sts, k, Len(sts[k]), st)
  <2>5. Eases(sts, new)
    BY <2>1, <2>2, <2>3, UpdateEases
  <2> HIDE DEF new
  <2> QED BY <2>4, <2>5 DEF Eases, new
<1>2. CASE k \notin S
  BY <1>2
<1> QED BY <1>1, <1>2

\* Some strikes are counted, none more than once.
Strains(sts, after) ==
  \A k \in Keys : \A g \in 1..Len(after[k]) :
    \/ after[k][g].strikes = 0
    \/ g \in 1..Len(sts[k]) /\ after[k][g].strikes <= sts[k][g].strikes + 1

LEMMA AppendEases ==
  ASSUME NEW sts, NEW iss, Stacked(sts, iss), NEW k \in Keys, NEW st \in Kept(iss[k]),
         st.strikes = 0
  PROVE  Eases(sts, Replaced(sts, k, st))
<1> DEFINE stack == Append(sts[k], st)
<1>1. sts \in [Keys -> Seq(Store)] /\ sts[k] \in Seq(Kept(iss[k]))
  BY DEF Stacked
<1>2. /\ Len(stack) = Len(sts[k]) + 1 /\ Len(sts[k]) \in Nat
      /\ \A h \in 1..Len(sts[k]) : stack[h] = sts[k][h]
      /\ stack[Len(sts[k]) + 1] = st
  BY <1>1, AppendProperties, LenProperties
<1>3. \A j \in Keys : Replaced(sts, k, st)[j] = IF j = k THEN stack ELSE sts[j]
  BY <1>1 DEF Replaced
<1> HIDE DEF stack
<1> SUFFICES ASSUME NEW j \in Keys, NEW g \in 1..Len(Replaced(sts, k, st)[j])
             PROVE  \/ Replaced(sts, k, st)[j][g].strikes = 0
                    \/ /\ g \in 1..Len(sts[j])
                       /\ Replaced(sts, k, st)[j][g].strikes = sts[j][g].strikes
  BY DEF Eases
<1>4. CASE j = k /\ g = Len(sts[k]) + 1
  BY <1>2, <1>3, <1>4
<1>5. CASE j = k /\ g # Len(sts[k]) + 1
  BY <1>2, <1>3, <1>5
<1>6. CASE j # k
  BY <1>3, <1>6
<1> QED BY <1>4, <1>5, <1>6

LEMMA UpdateStrains ==
  ASSUME NEW sts, NEW iss, Stacked(sts, iss), NEW k \in Keys,
         NEW g \in 1..Len(sts[k]), NEW st \in Kept(iss[k]),
         st.strikes = 0 \/ st.strikes <= sts[k][g].strikes + 1
  PROVE  Strains(sts, UpdateStore(sts, k, g, st))
<1> DEFINE after == UpdateStore(sts, k, g, st)
<1>1. /\ \A j \in Keys : Len(after[j]) = Len(sts[j])
      /\ \A j \in Keys : j # k => after[j] = sts[j]
      /\ \A h \in 1..Len(sts[k]) : after[k][h] = IF h = g THEN st ELSE sts[k][h]
  BY UpdateStacked DEF SameDepth
<1>2. \A j \in Keys : \A h \in 1..Len(sts[j]) : sts[j][h].strikes \in Nat
  BY StackFacts DEF Kept, Store
<1> HIDE DEF after
<1> SUFFICES ASSUME NEW j \in Keys, NEW h \in 1..Len(after[j])
             PROVE  \/ after[j][h].strikes = 0
                    \/ h \in 1..Len(sts[j]) /\ after[j][h].strikes <= sts[j][h].strikes + 1
  BY DEF Strains, after
<1>3. h \in 1..Len(sts[j]) /\ sts[j][h].strikes \in Nat
  BY <1>1, <1>2
<1>4. CASE j = k /\ h = g
  BY <1>1, <1>3, <1>4
<1>5. CASE ~(j = k /\ h = g)
  <2>1. after[j][h] = sts[j][h]
    BY <1>1, <1>3, <1>5
  <2> QED BY <1>3, <2>1
<1> QED BY <1>4, <1>5

\* The stores after an observation of the upstream.
LEMMA RecordEases ==
  ASSUME IInv, NEW k, NEW seen, NEW sts, Stacked(sts, issued), SameDepth(stores, sts),
         Record(k, sts, seen)
  PROVE  Eases(sts, stores')
<1>1. issued \in [Keys -> SUBSET Tokens] /\ Stacked(stores, issued)
  BY DEF IInv, Shared, StoresOK
<1>2. \A j \in Keys \cap Known : sts[j] # <<>>
  BY <1>1, StackFacts DEF IInv, Shared, StoresOK, SameDepth, Known
<1>3. stores' = [j \in Keys |-> IF j \in Known
                   THEN UpdateCurrent(sts, j, Promote(sts[j][Len(sts[j])], now))[j]
                   ELSE sts[j]]
  BY DEF Record, Swept
<1> QED BY <1>1, <1>2, <1>3, UpdateEachEases

LEMMA ScannedEases ==
  ASSUME IInv, NEW asked \in SUBSET Known, NEW passed \in SUBSET Known,
         Scanned(asked, passed)
  PROVE  Eases(stores, stores')
<1> DEFINE S == asked \cup {j \in passed : Reached(j)}
<1>1. S \subseteq Known
  OBVIOUS
<1>2. stores' = [k \in Keys |-> IF k \in S
                   THEN UpdateCurrent(stores, k, Promote(stores[k][Len(stores[k])], now))[k]
                   ELSE stores[k]]
  BY DEF Scanned, StoreOf
<1>3. \A k \in Keys \cap S : stores[k] # <<>>
  BY <1>1 DEF IInv, Shared, StoresOK, Known
<1> HIDE DEF S
<1> QED BY <1>2, <1>3, UpdateEachEases DEF IInv, Shared, StoresOK

LEMMA EnsureEases ==
  ASSUME IInv, NEW k \in Keys, NEW account, EnsureJob(k, account)
  PROVE  Eases(stores, stores')
<1>1. stores' = StoresWith(k, account)
  BY DEF EnsureJob
<1>2. CASE jobs[k] = None
  <2> DEFINE fresh == NewStore(Blocks(account))
  <2>1. fresh.strikes = 0
    BY DEF NewStore
  <2> HIDE DEF fresh
  <2>2. stores' = [stores EXCEPT ![k] = <<fresh>>]
    BY <1>1, <1>2 DEF StoresWith, fresh
  <2>3. stores' = [j \in Keys |-> IF j = k THEN <<fresh>> ELSE stores[j]]
    BY <2>2 DEF IInv, Shared, StoresOK, Stacked
  <2>4. ASSUME NEW j \in Keys, NEW g \in 1..Len(stores'[j])
        PROVE  \/ stores'[j][g].strikes = 0
               \/ g \in 1..Len(stores[j]) /\ stores'[j][g].strikes = stores[j][g].strikes
    <3>1. CASE j = k
      <4>1. stores'[j] = <<fresh>> /\ g = 1
        BY <2>3, <3>1
      <4> QED BY <2>1, <4>1
    <3>2. CASE j # k
      BY <2>3, <3>2
    <3> QED BY <3>1, <3>2
  <2> QED BY <2>4 DEF Eases
<1>3. CASE jobs[k] # None
  BY <1>1, <1>3, SameEases DEF StoresWith
<1> QED BY <1>2, <1>3

\* Whoever takes a step that is not a response counts no strike.
LEMMA ChooseEases ==
  ASSUME IInv, Choose
  PROVE  Eases(stores, stores')
<1>1. ASSUME NEW k \in Keys, NEW account, AutoHarvest(k, account)
      PROVE  Eases(stores, stores')
  BY <1>1, EnsureEases DEF AutoHarvest
<1>2. ASSUME NEW k \in Keys, PickDue(k)
      PROVE  Eases(stores, stores')
  <2>1. k \in Known
    BY <1>2 DEF PickDue, Eligible, Scope, DefaultJobs
  <2>2. PICK passed \in SUBSET (Scope \ {k}), asked \in SUBSET DefaultJobs :
          Scanned(asked \cup {k}, passed)
    BY <1>2 DEF PickDue
  <2>3. asked \cup {k} \in SUBSET Known /\ passed \in SUBSET Known
    BY <2>1 DEF Scope, DefaultJobs
  <2> QED BY <2>2, <2>3, ScannedEases
<1>3. ASSUME PickNone
      PROVE  Eases(stores, stores')
  <2>1. PICK asked \in SUBSET DefaultJobs : Scanned(asked, Known)
    BY <1>3 DEF PickNone
  <2>2. asked \in SUBSET Known /\ Known \in SUBSET Known
    BY DEF DefaultJobs
  <2> QED BY <2>1, <2>2, ScannedEases
<1>4. ASSUME NEW p, NEW k, HarvestNow(p, k)
      PROVE  Eases(stores, stores')
  BY <1>4, SameEases DEF HarvestNow, runtimeVars
<1> QED BY <1>1, <1>2, <1>3, <1>4 DEF Choose

LEMMA RoundEases ==
  ASSUME IInv, NEW p \in Probers, Round(p)
  PROVE  Eases(stores, stores')
<1>1. Stacked(stores, issued)
  BY DEF IInv, Shared, StoresOK
<1>2. ASSUME NEW k \in Known, SkipSatisfied(k)
      PROVE  Eases(stores, stores')
  <2>1. /\ k \in Keys /\ Len(stores[k]) \in 1..Len(stores[k])
        /\ Acquire(StoreOf(k), now) \in Kept(issued[k])
    BY JobHasStore, AcquireKept DEF Known, IInv
  <2>2. stores' = UpdateStore(stores, k, Len(stores[k]), Acquire(StoreOf(k), now))
    BY <1>2 DEF SkipSatisfied, UpdateCurrent
  <2>3. Eased(Acquire(StoreOf(k), now), stores[k][Len(stores[k])])
    BY PromoteEased DEF StoreOf
  <2> QED BY <1>1, <2>1, <2>2, <2>3, UpdateEases
<1>3. ASSUME BeginRound(p)
      PROVE  Eases(stores, stores')
  <2> DEFINE k == prober[p].key
  <2>1. prober[p].pc # "idle"
    BY <1>3 DEF BeginRound
  <2>2. /\ k \in Keys /\ prober[p].store \in 1..Len(stores[k])
        /\ Acquire(Held(p), now) \in Kept(issued[k])
    BY <2>1, AtWork, AcquireKept
  <2>3. stores' = UpdateStore(stores, k, prober[p].store, Acquire(Held(p), now))
    BY <1>3 DEF BeginRound
  <2>4. Eased(Acquire(Held(p), now), stores[k][prober[p].store])
    BY PromoteEased DEF Held
  <2> QED BY <1>1, <2>2, <2>3, <2>4, UpdateEases
<1>4. ASSUME RefuseRound(p) \/ Judge(p) \/ EndRound(p)
      PROVE  Eases(stores, stores')
  BY <1>4, SameEases DEF RefuseRound, Judge, EndRound, runtimeVars
<1> QED BY <1>2, <1>3, <1>4 DEF Round

LEMMA ProbeEases ==
  ASSUME IInv, NEW p \in Probers, Probe(p)
  PROVE  Eases(stores, stores')
<1>1. Stacked(stores, issued) /\ SameDepth(stores, stores)
  BY DEF IInv, Shared, StoresOK, SameDepth
<1>2. ASSUME NEW k, NEW seen, Record(k, stores, seen)
      PROVE  Eases(stores, stores')
  BY <1>1, <1>2, RecordEases
<1>3. ASSUME ReplayPasses(p)
      PROVE  Eases(stores, stores')
  <2> DEFINE k == prober[p].key
             st == Offer(Held(p), prober[p].token, now)
  <2>1. prober[p].pc = "replay" /\ stores' = UpdateStore(stores, k, prober[p].store, st)
    BY <1>3 DEF ReplayPasses
  <2>2. /\ k \in Keys /\ prober[p].store \in 1..Len(stores[k])
        /\ ProberFine(prober[p], stores, issued)
        /\ Held(p) \in Kept(issued[k]) /\ issued[k] \in SUBSET Tokens
    BY <2>1, AtWork
  <2>3. prober[p].token \in issued[k]
    BY <2>1, <2>2 DEF ProberFine
  <2>4. st \in Kept(issued[k]) /\ Held(p) \in Store
    BY <2>2, <2>3, OfferKept DEF Kept
  <2>5. Eased(st, stores[k][prober[p].store])
    BY <2>4, OfferEased DEF Held
  <2> HIDE DEF st
  <2> QED BY <1>1, <2>1, <2>2, <2>4, <2>5, UpdateEases
<1>4. ASSUME stores' = stores
      PROVE  Eases(stores, stores')
  BY <1>4, SameEases
<1> QED BY <1>2, <1>3, <1>4 DEF Probe, ProbeFails, ProbeUnrecorded, ReplayUnrecorded,
     ProbeRejected, ProbeOverloaded, ProbeDegraded, ProbeIssues, ReplayFails, RecordPassed,
     runtimeVars

LEMMA SendEases ==
  ASSUME IInv, NEW r \in Requests, Send(r)
  PROVE  Eases(stores, stores')
<1>1. Stacked(stores, issued)
  BY DEF IInv, Shared, StoresOK
<1>2. ASSUME stores' = stores
      PROVE  Eases(stores, stores')
  BY <1>2, SameEases
<1>3. ASSUME NEW k \in Known, stores' = UpdateCurrent(stores, k, Acquire(StoreOf(k), now))
      PROVE  Eases(stores, stores')
  <2>1. /\ k \in Keys /\ Len(stores[k]) \in 1..Len(stores[k])
        /\ Acquire(StoreOf(k), now) \in Kept(issued[k])
    BY JobHasStore, AcquireKept DEF Known, IInv
  <2>2. stores' = UpdateStore(stores, k, Len(stores[k]), Acquire(StoreOf(k), now))
    BY <1>3 DEF UpdateCurrent
  <2>3. Eased(Acquire(StoreOf(k), now), stores[k][Len(stores[k])])
    BY PromoteEased DEF StoreOf
  <2> QED BY <1>1, <2>1, <2>2, <2>3, UpdateEases
<1>4. ASSUME NEW k, Admit(r, k) \/ Refuse(r, k)
      PROVE  Eases(stores, stores')
  BY <1>2, <1>3, <1>4 DEF Admit, Refuse
<1>5. ASSUME NEW k \in Keys, NEW account, LookUp(r, k, account)
      PROVE  Eases(stores, stores')
  BY <1>5, EnsureEases DEF LookUp
<1>6. ASSUME NEW k, ForwardPlain(r, k)
      PROVE  Eases(stores, stores')
  BY <1>2, <1>6 DEF ForwardPlain, runtimeVars
<1>7. ASSUME Inject(r)
      PROVE  Eases(stores, stores')
  <2> DEFINE k == req[r].key
             g == req[r].store
             st == Acquire(stores[k][g], now)
  <2>1. k \in Keys /\ g \in 1..Len(stores[k])
    BY <1>7 DEF Inject, IInv, RequestsOK, RequestFine
  <2>2. st \in Kept(issued[k])
    BY <2>1, StackFacts, AcquireKept DEF IInv, Shared, StoresOK
  <2>3. stores' = stores \/ stores' = UpdateStore(stores, k, g, st)
    BY <1>7 DEF Inject
  <2>4. Eased(st, stores[k][g])
    BY PromoteEased
  <2> HIDE DEF st
  <2> QED BY <1>1, <1>2, <2>1, <2>2, <2>3, <2>4, UpdateEases
<1> QED BY <1>4, <1>5, <1>6, <1>7 DEF Send

LEMMA RestartEases ==
  ASSUME IInv, Restart
  PROVE  Eases(stores, stores')
<1> SUFFICES ASSUME NEW k \in Keys, NEW g \in 1..Len(stores'[k])
             PROVE  stores'[k][g].strikes = 0
  BY DEF Eases
<1> DEFINE new == NewStore(Blocks(disk[k].account))
           st == Offer(new, disk[k].token, now)
<1>1. stores'[k] = IF Restored(k) THEN <<st>> ELSE <<>>
  BY DEF Restart
<1>2. new \in Store /\ new.strikes = 0
  BY DEF NewStore, Store, Blocks
<1>3. st.strikes = 0
  BY <1>2, OfferEased DEF Eased
<1> HIDE DEF st
<1>4. Restored(k) /\ g = 1
  BY <1>1
<1> QED BY <1>1, <1>3, <1>4

\* A response counts one strike at most, and none unless it answers a request
\* that carried a state.
LEMMA ObserveStrikes ==
  ASSUME NEW st \in Store, NEW suspect, NEW used
  PROVE  \/ Observe(st, suspect, used).strikes = 0
         \/ Observe(st, suspect, used).strikes <= st.strikes + 1
BY DEF Observe, Store

LEMMA RespondStrains ==
  ASSUME IInv, NEW r \in Requests, Respond(r)
  PROVE  /\ Answered(r)
         /\ Eases(stores, stores') \/ (inflight[r] # None /\ Strains(stores, stores'))
<1> DEFINE k == req[r].key
           used == inflight[r].snapshot
           cur == StoreOf(k)
<1>1. PICK status \in Statuses, retryAfter \in RetryAfters :
        \/ RespondPlain(r, status, retryAfter)
        \/ RespondWithdraws(r, status, retryAfter)
        \/ RespondReplaces(r, status, retryAfter)
        \/ \E t \in Tokens : RespondState(r, status, retryAfter, t)
        \/ RespondGarbled(r, status, retryAfter)
  BY DEF Respond
<1>2. Answered(r)
  BY <1>1 DEF RespondPlain, RespondWithdraws, RespondReplaces, RespondState, RespondGarbled
<1>3. k \in Keys /\ Stacked(stores, issued)
  BY <1>2, RespondedKnown DEF IInv, Shared, StoresOK
<1>4. ASSUME stores' = stores
      PROVE  Eases(stores, stores')
  BY <1>4, SameEases
<1>5. ASSUME k \in Known
      PROVE  /\ Len(stores[k]) \in 1..Len(stores[k])
             /\ cur \in Kept(issued[k]) /\ cur \in Store
             /\ cur = stores[k][Len(stores[k])]
             /\ issued[k] \in SUBSET Tokens
  BY <1>5, JobHasStore DEF Known, IInv, Kept, StoreOf
<1>6. ASSUME k \in Known, NEW st \in Kept(issued[k]), Eased(st, cur),
             stores' = UpdateCurrent(stores, k, st)
      PROVE  Eases(stores, stores')
  BY <1>3, <1>5, <1>6, UpdateEases DEF UpdateCurrent
<1>7. ASSUME k \in Known, NEW suspect \in BOOLEAN,
             stores' = UpdateCurrent(stores, k, Observe(cur, suspect, used))
      PROVE  Strains(stores, stores')
  <2> DEFINE st == Observe(cur, suspect, used)
  <2>1. st \in Kept(issued[k])
    BY <1>5, <1>7, ObserveKept
  <2>2. st.strikes = 0 \/ st.strikes <= stores[k][Len(stores[k])].strikes + 1
    BY <1>5, <1>7, ObserveStrikes
  <2>3. stores' = UpdateStore(stores, k, Len(stores[k]), st)
    BY <1>7 DEF UpdateCurrent
  <2> HIDE DEF st
  <2> QED BY <1>3, <1>5, <1>7, <2>1, <2>2, <2>3, UpdateStrains
<1>8. CASE RespondPlain(r, status, retryAfter)
  BY <1>2, <1>4, <1>8 DEF RespondPlain
<1>9. CASE RespondWithdraws(r, status, retryAfter)
  <2>1. CASE k \in Known
    <3> DEFINE st == RejectAndPromote(cur, used, now)
    <3>1. stores' = UpdateCurrent(stores, k, st)
      BY <1>9, <2>1 DEF RespondWithdraws
    <3>2. st \in Kept(issued[k]) /\ Eased(st, cur)
      BY <1>5, <2>1, RejectKept, RejectEased
    <3> HIDE DEF st
    <3> QED BY <1>2, <1>6, <2>1, <3>1, <3>2
  <2>2. CASE k \notin Known
    BY <1>2, <1>4, <1>9, <2>2 DEF RespondWithdraws
  <2> QED BY <2>1, <2>2
<1>10. CASE RespondReplaces(r, status, retryAfter)
  <2>1. CASE k \in Known
    <3> DEFINE st == NewStore(cur.blocks)
    <3>1. stores' = Replaced(stores, k, st)
      BY <1>10, <2>1 DEF RespondReplaces, Replaced
    <3>2. cur.blocks \in Nat
      BY <1>5, <2>1 DEF Store
    <3>3. st \in Kept(issued[k]) /\ st.strikes = 0
      BY <3>2, NewStoreKept DEF NewStore
    <3> HIDE DEF st
    <3> QED BY <1>2, <1>3, <3>1, <3>3, AppendEases
  <2>2. CASE k \notin Known
    BY <1>2, <1>4, <1>10, <2>2 DEF RespondReplaces
  <2> QED BY <2>1, <2>2
<1>11. CASE \E t \in Tokens : RespondState(r, status, retryAfter, t)
  <2>1. PICK t \in Tokens : RespondState(r, status, retryAfter, t)
    BY <1>11
  <2>2. CASE k \notin Known
    BY <1>2, <1>4, <2>1, <2>2 DEF RespondState
  <2>3. CASE k \in Known /\ inflight[r] # None
    <3>1. stores' = UpdateCurrent(stores, k, Observe(cur, ~Accept(cur.blocks, t, now), used))
      BY <2>1, <2>3 DEF RespondState
    <3>2. (~Accept(cur.blocks, t, now)) \in BOOLEAN
      BY DEF Accept
    <3> QED BY <1>2, <1>7, <2>3, <3>1, <3>2
  <2>4. CASE k \in Known /\ inflight[r] = None
    <3> DEFINE st == Offer(cur, t, now)
    <3>1. stores' = UpdateCurrent(stores, k, st)
      BY <2>1, <2>4 DEF RespondState
    <3>2. Stacked(stores, issued') /\ t \in issued'[k] /\ issued'[k] \in SUBSET Tokens
          /\ cur \in Kept(issued'[k])
      <4>1. /\ issued' \in [Keys -> SUBSET Tokens] /\ issued[k] \subseteq issued'[k]
            /\ t \in issued'[k] /\ Stacked(stores, issued')
        BY <1>3, <2>1, IssueGrows DEF IInv, RespondState
      <4> QED BY <1>3, <1>5, <2>4, <4>1, KeptMonotone
    <3>3. st \in Kept(issued'[k]) /\ Eased(st, cur)
      BY <1>5, <2>4, <3>2, OfferKept, OfferEased
    <3> HIDE DEF st
    <3>4. Eases(stores, stores')
      BY <1>3, <1>5, <2>4, <3>1, <3>2, <3>3, UpdateEases DEF UpdateCurrent
    <3> QED BY <1>2, <3>4
  <2> QED BY <2>2, <2>3, <2>4
<1>12. CASE RespondGarbled(r, status, retryAfter)
  <2>1. CASE k \in Known
    BY <1>2, <1>7, <1>12, <2>1 DEF RespondGarbled
  <2>2. CASE k \notin Known
    BY <1>2, <1>4, <1>12, <2>2 DEF RespondGarbled
  <2> QED BY <2>1, <2>2
<1> QED BY <1>1, <1>8, <1>9, <1>10, <1>11, <1>12

\* The requests whose response was dealt with, and the strikes they may leave.
Heard(q) == {r \in Requests : q[r].pc \in {"answered", "done"}}

Within(sts, n) == \A k \in Keys : \A g \in 1..Len(sts[k]) : sts[k][g].strikes <= n

\* A response is counted once: a request that was answered and still has a
\* state is remembered.
Counted == \A r \in Requests :
             inflight[r] # None /\ req[r].pc = "answered" => r \in observed

Tally == Within(stores, Cardinality(Heard(req))) /\ Counted

LEMMA HeardGrows ==
  ASSUME IsFiniteSet(Requests), NEW a, NEW b, Heard(a) \subseteq Heard(b)
  PROVE  /\ Cardinality(Heard(a)) \in Nat /\ Cardinality(Heard(b)) \in Nat
         /\ Cardinality(Heard(a)) <= Cardinality(Heard(b))
<1>1. Heard(b) \subseteq Requests
  BY DEF Heard
<1>2. IsFiniteSet(Heard(b))
  BY <1>1, FS_Subset
<1> QED BY <1>2, FS_Subset, FS_CardinalityType

LEMMA OneMoreHeard ==
  ASSUME IsFiniteSet(Requests), NEW a, NEW b, NEW r \in Requests,
         r \notin Heard(a), Heard(b) = Heard(a) \cup {r}
  PROVE  /\ Cardinality(Heard(a)) \in Nat
         /\ Cardinality(Heard(b)) = Cardinality(Heard(a)) + 1
<1>1. Heard(a) \subseteq Requests
  BY DEF Heard
<1>2. IsFiniteSet(Heard(a))
  BY <1>1, FS_Subset
<1> QED BY <1>2, FS_AddElement, FS_CardinalityType

LEMMA EasesWithin ==
  ASSUME NEW sts, NEW iss, Stacked(sts, iss), NEW after, Eases(sts, after),
         NEW n \in Nat, NEW m \in Nat, n <= m, Within(sts, n)
  PROVE  Within(after, m)
<1> SUFFICES ASSUME NEW k \in Keys, NEW g \in 1..Len(after[k])
             PROVE  after[k][g].strikes <= m
  BY DEF Within
<1>1. ASSUME g \in 1..Len(sts[k])
      PROVE  sts[k][g].strikes \in Nat /\ sts[k][g].strikes <= n
  BY <1>1, StackFacts DEF Kept, Store, Within
<1> QED BY <1>1 DEF Eases

LEMMA StrainsWithin ==
  ASSUME NEW sts, NEW iss, Stacked(sts, iss), NEW new, NEW after, Stacked(after, new),
         Strains(sts, after), NEW n \in Nat, Within(sts, n)
  PROVE  Within(after, n + 1)
<1> SUFFICES ASSUME NEW k \in Keys, NEW g \in 1..Len(after[k])
             PROVE  after[k][g].strikes <= n + 1
  BY DEF Within
<1>1. ASSUME g \in 1..Len(sts[k])
      PROVE  sts[k][g].strikes \in Nat /\ sts[k][g].strikes <= n
  BY <1>1, StackFacts DEF Kept, Store, Within
<1>2. after[k][g].strikes \in Nat
  BY StackFacts DEF Kept, Store
<1> QED BY <1>1, <1>2 DEF Strains

\* A step that eases the stores and forgets no answer.
LEMMA EasesTally ==
  ASSUME IInv, Tally, IsFiniteSet(Requests), Eases(stores, stores'),
         Heard(req) \subseteq Heard(req'), Counted'
  PROVE  Tally'
<1> DEFINE n == Cardinality(Heard(req))
           m == Cardinality(Heard(req'))
<1>1. n \in Nat /\ m \in Nat /\ n <= m
  BY HeardGrows
<1>2. Within(stores, n) /\ Stacked(stores, issued)
  BY DEF Tally, IInv, Shared, StoresOK
<1> HIDE DEF n, m
<1>3. Within(stores', m)
  BY <1>1, <1>2, EasesWithin
<1> QED BY <1>3 DEF Tally, m

LEMMA SendTally ==
  ASSUME IInv, Tally, IsFiniteSet(Requests), NEW r \in Requests, Send(r)
  PROVE  Tally'
<1>1. Eases(stores, stores')
  BY SendEases
<1>2. req \in [Requests -> RequestType]
  BY DEF IInv, RequestsOK
<1> DEFINE Unheard ==
             /\ req[r].pc \in {"new", "admitted", "looked"}
             /\ req' \in [Requests -> RequestType]
             /\ req'[r].pc \notin {"answered", "done"}
             /\ \A o \in Requests \ {r} : req'[o] = req[o] /\ inflight'[o] = inflight[o]
             /\ observed' = observed
<1>3. Unheard
  <2>1. ASSUME NEW k \in Keys \cup {None}, Admit(r, k) \/ Refuse(r, k)
        PROVE  Unheard
    BY <1>2, <2>1, AdmitKeeps DEF Admit, Refuse, RequestType, IInv, RequestsOK
  <2>2. ASSUME NEW k \in Keys, ForwardPlain(r, k)
        PROVE  Unheard
    BY <1>2, <2>2, ForwardPlainKeeps DEF ForwardPlain, RequestType, IInv, RequestsOK
  <2>3. ASSUME NEW k \in Keys, NEW account \in {"personal", "team"}, LookUp(r, k, account)
        PROVE  Unheard
    BY <1>2, <2>3, LookUpKeeps DEF LookUp, RequestType, IInv, RequestsOK
  <2>4. ASSUME Inject(r)
        PROVE  Unheard
    <3> DEFINE q == Moved(NewRequest, "sent", req[r].key)
    <3>1. /\ req[r].pc = "looked" /\ req' = [req EXCEPT ![r] = q] /\ observed' = observed
          /\ \/ inflight' = inflight
             \/ \E i : inflight' = [inflight EXCEPT ![r] = i]
      BY <2>4 DEF Inject, Moved
    <3>2. q.pc = "sent"
      BY NewFine DEF Moved, RequestType
    <3> HIDE DEF q
    <3>3. req' \in [Requests -> RequestType]
      BY <2>4, InjectKeeps DEF IInv, RequestsOK
    <3> QED BY <1>2, <3>1, <3>2, <3>3 DEF IInv, RequestsOK
  <2> QED BY <2>1, <2>2, <2>3, <2>4 DEF Send
<1>4. Heard(req) \subseteq Heard(req')
  BY <1>3 DEF Heard
<1>5. Counted'
  BY <1>3 DEF Tally, Counted
<1> QED BY <1>1, <1>4, <1>5, EasesTally

LEMMA CompleteTally ==
  ASSUME IInv, Tally, IsFiniteSet(Requests), NEW r \in Requests, Complete(r)
  PROVE  Tally'
<1> DEFINE q == Moved(NewRequest, "done", NewRequest.key)
<1>1. /\ req' = [req EXCEPT ![r] = q] /\ inflight' = [inflight EXCEPT ![r] = None]
      /\ observed' = observed \ {r} /\ stores' = stores
  BY NewFine DEF Complete, Moved, RequestType, runtimeVars
<1>2. q.pc = "done"
  BY NewFine DEF Moved, RequestType
<1> HIDE DEF q
<1>3. Heard(req) \subseteq Heard(req') /\ Counted'
  BY <1>1, <1>2 DEF Heard, Tally, Counted, IInv, RequestsOK
<1> QED BY <1>1, <1>3, SameEases, EasesTally

LEMMA RespondTally ==
  ASSUME IInv, Tally, IsFiniteSet(Requests), Cardinality(Requests) <= ObservedLimit,
         NEW r \in Requests, Respond(r)
  PROVE  Tally'
<1> DEFINE q == Moved(req[r], "answered", req[r].key)
<1>1. /\ Answered(r)
      /\ Eases(stores, stores') \/ (inflight[r] # None /\ Strains(stores, stores'))
  BY RespondStrains
<1>2. /\ req[r] \in RequestType /\ req[r].pc \in {"sent", "answered"}
      /\ req \in [Requests -> RequestType]
  BY <1>1, RespondedKnown DEF IInv, RequestsOK
<1>3. q.pc = "answered"
  BY <1>2 DEF Moved, RequestType
<1>4. req' = [req EXCEPT ![r] = q] /\ inflight' = inflight
  BY <1>1, <1>2 DEF Answered, Moved, RequestType
<1>5. observed' = observed \cup {r} /\ r \notin observed
  <2>1. observed \subseteq Requests
    BY DEF IInv, ModesOK
  <2>2. Cardinality(observed) \in Nat /\ Cardinality(observed) <= Cardinality(Requests)
        /\ Cardinality(Requests) \in Nat
    BY <2>1, FS_Subset, FS_CardinalityType
  <2>3. ~(Cardinality(observed) > ObservedLimit)
    BY <2>2, RuntimeAssumption
  <2> QED BY <1>1, <2>3 DEF Answered, MarkObserved
<1> HIDE DEF q
<1>6. Counted'
  BY <1>2, <1>3, <1>4, <1>5 DEF Tally, Counted
<1>7. Heard(req) \subseteq Heard(req')
  BY <1>2, <1>3, <1>4 DEF Heard
<1>8. CASE Eases(stores, stores')
  BY <1>6, <1>7, <1>8, EasesTally
<1>9. CASE inflight[r] # None /\ Strains(stores, stores')
  <2> DEFINE n == Cardinality(Heard(req))
             m == Cardinality(Heard(req'))
  <2>1. req[r].pc # "answered"
    BY <1>5, <1>9 DEF Tally, Counted
  <2>2. r \notin Heard(req) /\ Heard(req') = Heard(req) \cup {r}
    BY <1>2, <1>3, <1>4, <2>1 DEF Heard
  <2>3. n \in Nat /\ m = n + 1
    BY <2>2, OneMoreHeard
  <2>4. Within(stores, n) /\ Stacked(stores, issued)
    BY DEF Tally, IInv, Shared, StoresOK
  <2>5. IInv'
    BY RequestKeeps
  <2>6. Stacked(stores', issued')
    BY <2>5 DEF IInv, Shared, StoresOK
  <2> HIDE DEF n, m
  <2>7. Within(stores', m)
    BY <1>9, <2>3, <2>4, <2>6, StrainsWithin
  <2> QED BY <1>6, <2>7 DEF Tally, m
<1> QED BY <1>1, <1>8, <1>9

LEMMA NextTally ==
  ASSUME IInv, Tally, [Next]_vars, IsFiniteSet(Requests), Cardinality(Requests) <= ObservedLimit
  PROVE  Tally'
<1>1. ASSUME Eases(stores, stores'), req' = req, inflight' = inflight, observed' = observed
      PROVE  Tally'
  <2>1. Heard(req) \subseteq Heard(req') /\ Counted'
    BY <1>1 DEF Heard, Tally, Counted
  <2> QED BY <1>1, <2>1, EasesTally
<1>2. CASE UNCHANGED vars
  BY <1>1, <1>2, SameEases DEF vars, runtimeVars, requestVars
<1>3. CASE Tick \/ Operate
  BY <1>1, <1>3, SameEases DEF Tick, Operate, SetInjection, SetFallback, runtimeVars, requestVars
<1>4. CASE Choose
  <2>1. UNCHANGED requestVars
    BY <1>4 DEF Choose, AutoHarvest, PickDue, PickNone, HarvestNow
  <2> QED BY <1>1, <1>4, <2>1, ChooseEases DEF requestVars
<1>5. ASSUME NEW p \in Probers, Round(p) PROVE Tally'
  <2>1. UNCHANGED requestVars
    BY <1>5 DEF Round, RefuseRound, SkipSatisfied, BeginRound, Judge, EndRound
  <2> QED BY <1>1, <1>5, <2>1, RoundEases DEF requestVars
<1>6. ASSUME NEW p \in Probers, Probe(p) PROVE Tally'
  <2>1. UNCHANGED requestVars
    BY <1>6 DEF Probe, ProbeFails, ProbeUnrecorded, ReplayUnrecorded, ProbeRejected,
       ProbeOverloaded, ProbeDegraded, ProbeIssues, ReplayFails, ReplayPasses, RecordPassed
  <2> QED BY <1>1, <1>6, <2>1, ProbeEases DEF requestVars
<1>7. CASE Restart
  <2>1. req' = req /\ inflight' = [r \in Requests |-> None]
    BY <1>7 DEF Restart
  <2>2. Heard(req) \subseteq Heard(req') /\ Counted'
    BY <2>1 DEF Heard, Counted
  <2> QED BY <1>7, <2>2, RestartEases, EasesTally
<1> QED BY <1>2, <1>3, <1>4, <1>5, <1>6, <1>7, SendTally, RespondTally, CompleteTally DEF Next

\* While the plugin remembers every response it dealt with, the strikes of a
\* store are never more than the requests answered: a chunk of a stream that
\* was counted is not counted again (runtime.rs: mark_observed, store.rs:
\* observe).
THEOREM StrikesCountRequests ==
  ASSUME IsFiniteSet(Requests), Cardinality(Requests) <= ObservedLimit
  PROVE  Spec => []StrikesNeedRequests
<1>1. Init => Tally
  <2> SUFFICES ASSUME Init PROVE Tally
    OBVIOUS
  <2>1. \A k \in Keys : stores[k] = <<>>
    BY DEF Init
  <2>2. \A r \in Requests : inflight[r] = None
    BY DEF Init
  <2> QED BY <2>1, <2>2 DEF Tally, Within, Counted
<1>2. IInv /\ Tally /\ [Next]_vars => Tally'
  BY NextTally
<1>3. IInv /\ Tally => StrikesNeedRequests
  <2> SUFFICES ASSUME IInv, Tally, NEW k \in Known
               PROVE  StoreOf(k).strikes
                        <= Cardinality({r \in Requests : req[r].pc \in {"answered", "done"}})
    BY DEF StrikesNeedRequests
  <2>1. k \in Keys /\ Len(stores[k]) \in 1..Len(stores[k])
    BY JobHasStore DEF Known, IInv
  <2> QED BY <2>1 DEF Tally, Within, StoreOf, Heard
<1> QED BY <1>1, <1>2, <1>3, IInvHolds, PTL DEF Spec
-----------------------------------------------------------------------------
(* Where a token may be.                                                   *)

\* The renewal of a store is another token than its active one.
Single(st) == st.active # None /\ st.ready # None => st.active.token # st.ready.token

\* A store keeps to the tokens it had, those of S, and stays single.
Drawn(new, old, S) ==
  /\ TokensIn(new) \subseteq TokensIn(old) \cup S
  /\ Single(old) => Single(new)

\* What comes, by `gains`, into a store: the token, the key, the place.
Gained(gains, k, g) == {t \in Tokens : <<k, g, t>> \in gains}

\* So does every store of after; one added to sts is empty.
Draws(sts, after, gains) ==
  \A k \in Keys : \A g \in 1..Len(after[k]) :
    \/ g \in 1..Len(sts[k]) /\ Drawn(after[k][g], sts[k][g], Gained(gains, k, g))
    \/ g \notin 1..Len(sts[k]) /\ TokensIn(after[k][g]) = {} /\ Single(after[k][g])

LEMMA TokensHeld ==
  ASSUME NEW st \in Store
  PROVE  /\ TokensIn(st) \in SUBSET Tokens /\ st \in Kept(TokensIn(st))
         /\ st.active # None => st.active.token \in TokensIn(st)
         /\ st.ready # None => st.ready.token \in TokensIn(st)
BY DEF TokensIn, Kept, Store, Snapshot

LEMMA PromoteDrawn ==
  ASSUME NEW st \in Store, NEW i
  PROVE  Drawn(Promote(st, i), st, {}) /\ Drawn(Acquire(st, i), st, {})
<1>1. TokensIn(Promote(st, i)) \subseteq TokensIn(st)
  BY TokensHeld, PromoteKept, KeptHolds
<1>2. Single(st) => Single(Promote(st, i))
  BY DEF Promote, Install, Single
<1> QED BY <1>1, <1>2 DEF Drawn, Acquire

LEMMA OfferDrawn ==
  ASSUME NEW st \in Store, NEW t \in Tokens, NEW i
  PROVE  Drawn(Offer(st, t, i), st, {t})
<1> DEFINE S == TokensIn(st) \cup {t}
<1>1. S \in SUBSET Tokens /\ st \in Kept(S) /\ t \in S
  BY TokensHeld, KeptMonotone
<1>2. TokensIn(Offer(st, t, i)) \subseteq S
  BY <1>1, OfferKept, KeptHolds
<1>3. ASSUME Single(st), st.active # None => st.active.token.fp # t.fp
      PROVE  Single(Promote(Enqueue(st, t), i))
  <2>1. Single(Enqueue(st, t)) /\ Enqueue(st, t) \in Store
    <3> DEFINE new == [token |-> t, version |-> 0]
    <3>1. new \in Snapshot /\ new.token = t
      BY DEF Snapshot
    <3>2. st.active # None => st.active.token # t
      BY <1>3
    <3>3. CASE Enqueue(st, t) = st
      BY <1>3, <3>3
    <3>4. CASE Enqueue(st, t) = [st EXCEPT !.ready = new]
      <4> HIDE DEF new
      <4> QED BY <3>1, <3>2, <3>4 DEF Single, Store
    <3> QED BY <3>3, <3>4 DEF Enqueue
  <2> QED BY <2>1, PromoteDrawn DEF Drawn
<1>4. Single(Install(st, t))
  BY DEF Install, Single
<1>5. Single(st) => Single(Offer(st, t, i))
  BY <1>3, <1>4 DEF Offer
<1> QED BY <1>2, <1>5 DEF Drawn

LEMMA ObserveDrawn ==
  ASSUME NEW st \in Store, NEW suspect \in BOOLEAN, NEW used
  PROVE  Drawn(Observe(st, suspect, used), st, {})
<1>1. TokensIn(Observe(st, suspect, used)) = TokensIn(st)
  BY TokensHeld, ObserveKept
<1>2. Single(st) => Single(Observe(st, suspect, used))
  BY DEF Observe, Single, Store
<1> QED BY <1>1, <1>2 DEF Drawn

\* The state withdrawn is gone from the store it was active in.
LEMMA RejectDrawn ==
  ASSUME NEW st \in Store, NEW used \in Snapshot, NEW i
  PROVE  /\ Drawn(RejectAndPromote(st, used, i), st, {})
         /\ IsCurrent(st, used) =>
              /\ used.token \in TokensIn(st)
              /\ Single(st) => used.token \notin TokensIn(RejectAndPromote(st, used, i))
<1> DEFINE S == IF st.ready = None THEN {} ELSE {st.ready.token}
           bare == Emptied(st)
<1>1. /\ TokensIn(st) \in SUBSET Tokens /\ st \in Kept(TokensIn(st))
      /\ st.active # None => st.active.token \in TokensIn(st)
      /\ st.ready # None => st.ready.token \in TokensIn(st)
  BY TokensHeld
<1>2. S \subseteq TokensIn(st) /\ S \in SUBSET Tokens
  BY <1>1
<1>3. bare \in Store /\ bare.active = None /\ bare.ready = st.ready
  BY DEF Emptied, Store
<1> HIDE DEF bare
<1>4. bare \in Kept(S) /\ Single(bare)
  BY <1>3 DEF Kept, Single
<1>5. TokensIn(Promote(bare, i)) \subseteq S
  BY <1>2, <1>4, PromoteKept, KeptHolds
<1>6. Single(Promote(bare, i))
  BY <1>3, <1>4, PromoteDrawn DEF Drawn
<1>7. Drawn(RejectAndPromote(st, used, i), st, {})
  BY <1>2, <1>5, <1>6 DEF RejectAndPromote, Drawn, bare
<1>8. ASSUME IsCurrent(st, used)
      PROVE  /\ used.token \in TokensIn(st)
             /\ Single(st) => used.token \notin TokensIn(RejectAndPromote(st, used, i))
  <2>1. st.active # None /\ st.active.token = used.token
    BY <1>8, TokenAssumption DEF IsCurrent, Store, Snapshot
  <2>2. RejectAndPromote(st, used, i) = Promote(bare, i)
    BY <1>8 DEF RejectAndPromote, bare
  <2>3. Single(st) => used.token \notin S
    BY <2>1 DEF Single
  <2> QED BY <1>1, <1>5, <2>1, <2>2, <2>3
<1> QED BY <1>7, <1>8

LEMMA SameDraws ==
  ASSUME NEW sts
  PROVE  Draws(sts, sts, {})
BY DEF Draws, Drawn

LEMMA UpdateDraws ==
  ASSUME NEW sts, NEW iss, Stacked(sts, iss), NEW k \in Keys,
         NEW g \in 1..Len(sts[k]), NEW st \in Kept(iss[k]), NEW gains,
         Drawn(st, sts[k][g], Gained(gains, k, g))
  PROVE  Draws(sts, UpdateStore(sts, k, g, st), gains)
<1> DEFINE after == UpdateStore(sts, k, g, st)
<1>1. /\ \A j \in Keys : Len(after[j]) = Len(sts[j])
      /\ \A j \in Keys : j # k => after[j] = sts[j]
      /\ \A h \in 1..Len(sts[k]) : after[k][h] = IF h = g THEN st ELSE sts[k][h]
  BY UpdateStacked DEF SameDepth
<1> HIDE DEF after
<1> SUFFICES ASSUME NEW j \in Keys, NEW h \in 1..Len(after[j])
             PROVE  /\ h \in 1..Len(sts[j])
                    /\ Drawn(after[j][h], sts[j][h], Gained(gains, j, h))
  BY DEF Draws, after
<1>2. CASE j = k /\ h = g
  BY <1>1, <1>2
<1>3. CASE ~(j = k /\ h = g)
  <2>1. h \in 1..Len(sts[j]) /\ after[j][h] = sts[j][h]
    BY <1>1, <1>3
  <2> QED BY <2>1 DEF Drawn
<1> QED BY <1>2, <1>3

\* Some of the jobs' stores are promoted.
LEMMA UpdateEachDraws ==
  ASSUME NEW sts, NEW iss, Stacked(sts, iss), NEW S, NEW after,
         after = [k \in Keys |-> IF k \in S
                                 THEN UpdateCurrent(sts, k, Promote(sts[k][Len(sts[k])], now))[k]
                                 ELSE sts[k]],
         iss \in [Keys -> SUBSET Tokens],
         \A k \in Keys \cap S : sts[k] # <<>>
  PROVE  Draws(sts, after, {})
<1> SUFFICES ASSUME NEW k \in Keys, NEW g \in 1..Len(after[k])
             PROVE  \/ g \in 1..Len(sts[k]) /\ Drawn(after[k][g], sts[k][g], Gained({}, k, g))
                    \/ g \notin 1..Len(sts[k]) /\ TokensIn(after[k][g]) = {} /\ Single(after[k][g])
  BY DEF Draws
<1>1. CASE k \in S
  <2> DEFINE st == Promote(sts[k][Len(sts[k])], now)
  <2>1. Len(sts[k]) \in 1..Len(sts[k])
    BY <1>1, StackFacts
  <2>2. st \in Kept(iss[k]) /\ sts[k][Len(sts[k])] \in Store
    BY <2>1, StackFacts, PromoteKept DEF Kept
  <2>3. Drawn(st, sts[k][Len(sts[k])], Gained({}, k, Len(sts[k])))
    BY <2>2, PromoteDrawn DEF Gained
  <2>4. after[k] = UpdateStore(sts, k, Len(sts[k]), st)[k]
    BY <1>1 DEF UpdateCurrent
  <2> HIDE DEF st
  <2> DEFINE new == UpdateStore(sts, k, Len(sts[k]), st)
  <2>5. Draws(sts, new, {})
    BY <2>1, <2>2, <2>3, UpdateDraws
  <2> HIDE DEF new
  <2> QED BY <2>4, <2>5 DEF Draws, new
<1>2. CASE k \notin S
  BY <1>2, SameDraws DEF Draws
<1> QED BY <1>1, <1>2

LEMMA EmptyDrawn ==
  ASSUME NEW blocks
  PROVE  TokensIn(NewStore(blocks)) = {} /\ Single(NewStore(blocks))
BY DEF TokensIn, Single, NewStore

LEMMA AppendDraws ==
  ASSUME NEW sts, NEW iss, Stacked(sts, iss), NEW k \in Keys, NEW st \in Kept(iss[k]),
         TokensIn(st) = {}, Single(st)
  PROVE  Draws(sts, Replaced(sts, k, st), {})
<1> DEFINE stack == Append(sts[k], st)
<1>1. sts \in [Keys -> Seq(Store)] /\ sts[k] \in Seq(Kept(iss[k]))
  BY DEF Stacked
<1>2. /\ Len(stack) = Len(sts[k]) + 1 /\ Len(sts[k]) \in Nat
      /\ \A h \in 1..Len(sts[k]) : stack[h] = sts[k][h]
      /\ stack[Len(sts[k]) + 1] = st
  BY <1>1, AppendProperties, LenProperties
<1>3. \A j \in Keys : Replaced(sts, k, st)[j] = IF j = k THEN stack ELSE sts[j]
  BY <1>1 DEF Replaced
<1> HIDE DEF stack
<1> DEFINE after == Replaced(sts, k, st)
<1> SUFFICES ASSUME NEW j \in Keys, NEW g \in 1..Len(after[j])
             PROVE  \/ g \in 1..Len(sts[j]) /\ Drawn(after[j][g], sts[j][g], Gained({}, j, g))
                    \/ g \notin 1..Len(sts[j]) /\ TokensIn(after[j][g]) = {} /\ Single(after[j][g])
  BY DEF Draws
<1> HIDE DEF after
<1>4. CASE j = k /\ g = Len(sts[k]) + 1
  <2>1. after[j][g] = st /\ g \notin 1..Len(sts[j])
    BY <1>2, <1>3, <1>4 DEF after
  <2> QED BY <2>1
<1>5. CASE ~(j = k /\ g = Len(sts[k]) + 1)
  <2>1. g \in 1..Len(sts[j]) /\ after[j][g] = sts[j][g]
    BY <1>2, <1>3, <1>5 DEF after
  <2> QED BY <2>1 DEF Drawn
<1> QED BY <1>4, <1>5

LEMMA RecordDraws ==
  ASSUME IInv, NEW k, NEW seen, NEW sts, Stacked(sts, issued), SameDepth(stores, sts),
         Record(k, sts, seen)
  PROVE  Draws(sts, stores', {})
<1>1. issued \in [Keys -> SUBSET Tokens] /\ Stacked(stores, issued)
  BY DEF IInv, Shared, StoresOK
<1>2. \A j \in Keys \cap Known : sts[j] # <<>>
  BY <1>1, StackFacts DEF IInv, Shared, StoresOK, SameDepth, Known
<1>3. stores' = [j \in Keys |-> IF j \in Known
                   THEN UpdateCurrent(sts, j, Promote(sts[j][Len(sts[j])], now))[j]
                   ELSE sts[j]]
  BY DEF Record, Swept
<1> QED BY <1>1, <1>2, <1>3, UpdateEachDraws

LEMMA ScannedDraws ==
  ASSUME IInv, NEW asked \in SUBSET Known, NEW passed \in SUBSET Known,
         Scanned(asked, passed)
  PROVE  Draws(stores, stores', {})
<1> DEFINE S == asked \cup {j \in passed : Reached(j)}
<1>1. S \subseteq Known
  OBVIOUS
<1>2. stores' = [k \in Keys |-> IF k \in S
                   THEN UpdateCurrent(stores, k, Promote(stores[k][Len(stores[k])], now))[k]
                   ELSE stores[k]]
  BY DEF Scanned, StoreOf
<1>3. \A k \in Keys \cap S : stores[k] # <<>>
  BY <1>1 DEF IInv, Shared, StoresOK, Known
<1> HIDE DEF S
<1> QED BY <1>2, <1>3, UpdateEachDraws DEF IInv, Shared, StoresOK

LEMMA EnsureDraws ==
  ASSUME IInv, NEW k \in Keys, NEW account, EnsureJob(k, account)
  PROVE  Draws(stores, stores', {})
<1>1. stores' = StoresWith(k, account)
  BY DEF EnsureJob
<1>2. CASE jobs[k] = None
  <2> DEFINE fresh == NewStore(Blocks(account))
  <2>1. TokensIn(fresh) = {} /\ Single(fresh)
    BY EmptyDrawn
  <2> HIDE DEF fresh
  <2>2. stores' = [stores EXCEPT ![k] = <<fresh>>]
    BY <1>1, <1>2 DEF StoresWith, fresh
  <2>3. stores' = [j \in Keys |-> IF j = k THEN <<fresh>> ELSE stores[j]]
    BY <2>2 DEF IInv, Shared, StoresOK, Stacked
  <2>4. stores[k] = <<>>
    BY <1>2 DEF IInv, Shared, StoresOK
  <2>5. ASSUME NEW j \in Keys, NEW g \in 1..Len(stores'[j])
        PROVE  \/ g \in 1..Len(stores[j]) /\ Drawn(stores'[j][g], stores[j][g], Gained({}, j, g))
               \/ /\ g \notin 1..Len(stores[j])
                  /\ TokensIn(stores'[j][g]) = {} /\ Single(stores'[j][g])
    <3>1. CASE j = k
      <4>1. stores'[j] = <<fresh>> /\ g = 1 /\ Len(stores[j]) = 0
        BY <2>3, <2>4, <3>1
      <4> QED BY <2>1, <4>1
    <3>2. CASE j # k
      BY <2>3, <3>2 DEF Drawn
    <3> QED BY <3>1, <3>2
  <2> QED BY <2>5 DEF Draws
<1>3. CASE jobs[k] # None
  BY <1>1, <1>3, SameDraws DEF StoresWith
<1> QED BY <1>2, <1>3

\* A store of k holds t.
InStores(sts, k, t) == \E g \in 1..Len(sts[k]) : t \in TokensIn(sts[k][g])

\* No token is twice in the stores of a key.
Apart(sts) ==
  \A k \in Keys : \A g \in 1..Len(sts[k]) :
    /\ Single(sts[k][g])
    /\ \A h \in 1..Len(sts[k]) : \A t \in TokensIn(sts[k][g]) \cap TokensIn(sts[k][h]) : g = h

Replays(q, k, t) == q.pc = "replay" /\ q.key = k /\ q.token = t

\* A token of a key is in one place at most: in one store of it, in the hands of
\* one thread that replays it, or withdrawn.
WithdrawnOut ==
  /\ withdrawn \in [Keys -> SUBSET Tokens]
  /\ \A k \in Keys : \A t \in withdrawn[k] : t \in issued[k] /\ ~InStores(stores, k, t)

ReplaysOnce ==
  \A k \in Keys, t \in Tokens, p \in Probers :
    Replays(prober[p], k, t) =>
      /\ ~InStores(stores, k, t) /\ t \notin withdrawn[k]
      /\ \A o \in Probers : Replays(prober[o], k, t) => o = p

Once == Apart(stores) /\ WithdrawnOut /\ ReplaysOnce

\* A step may gain these: each comes to one store, and was in no place.
Placeable(gains) ==
  \A k \in Keys, t \in Tokens : \A g : <<k, g, t>> \in gains =>
    /\ ~InStores(stores, k, t) /\ t \notin withdrawn[k]
    /\ \A p \in Probers : ~Replays(prober'[p], k, t)
    /\ \A h : <<k, h, t>> \in gains => h = g

\* No thread begins to replay.
NoNewReplay == \A p \in Probers : prober'[p].pc = "replay" => prober'[p] = prober[p]

LEMMA NowhereElse ==
  ASSUME NEW sts, NEW after, NEW gains, Draws(sts, after, gains),
         NEW k \in Keys, NEW t, InStores(after, k, t)
  PROVE  InStores(sts, k, t) \/ \E g : t \in Tokens /\ <<k, g, t>> \in gains
<1>1. PICK g \in 1..Len(after[k]) : t \in TokensIn(after[k][g])
  BY DEF InStores
<1>2. g \in 1..Len(sts[k]) /\ Drawn(after[k][g], sts[k][g], Gained(gains, k, g))
  BY <1>1 DEF Draws
<1> QED BY <1>1, <1>2 DEF Drawn, Gained, InStores

LEMMA NothingComes ==
  ASSUME NEW sts, NEW after, Draws(sts, after, {}), NEW k \in Keys, NEW t, ~InStores(sts, k, t)
  PROVE  ~InStores(after, k, t)
<1> DEFINE gains == {}
<1>1. Draws(sts, after, gains) /\ \A g : <<k, g, t>> \notin gains
  OBVIOUS
<1> HIDE DEF gains
<1> QED BY <1>1, NowhereElse

\* Whatever a step draws from the stores, and gains in them, stays apart.
LEMMA ApartStays ==
  ASSUME Apart(stores), NEW gains, Draws(stores, stores', gains), Placeable(gains)
  PROVE  Apart(stores')
<1> SUFFICES ASSUME NEW k \in Keys, NEW g \in 1..Len(stores'[k])
             PROVE  /\ Single(stores'[k][g])
                    /\ \A h \in 1..Len(stores'[k]) :
                         \A t \in TokensIn(stores'[k][g]) \cap TokensIn(stores'[k][h]) : g = h
  BY DEF Apart
<1>1. Single(stores'[k][g])
  BY DEF Apart, Draws, Drawn
<1>2. ASSUME NEW h \in 1..Len(stores'[k]),
             NEW t \in TokensIn(stores'[k][g]) \cap TokensIn(stores'[k][h])
      PROVE  g = h
  <2>1. /\ g \in 1..Len(stores[k])
        /\ t \in TokensIn(stores[k][g]) \/ (t \in Tokens /\ <<k, g, t>> \in gains)
    BY <1>2 DEF Draws, Drawn, Gained
  <2>2. /\ h \in 1..Len(stores[k])
        /\ t \in TokensIn(stores[k][h]) \/ (t \in Tokens /\ <<k, h, t>> \in gains)
    BY <1>2 DEF Draws, Drawn, Gained
  <2>3. CASE t \in Tokens /\ (<<k, g, t>> \in gains \/ <<k, h, t>> \in gains)
    <3>1. ~InStores(stores, k, t)
      BY <2>3 DEF Placeable
    <3> QED BY <2>1, <2>2, <3>1 DEF InStores, Placeable
  <2>4. CASE ~(t \in Tokens /\ (<<k, g, t>> \in gains \/ <<k, h, t>> \in gains))
    BY <2>1, <2>2, <2>4 DEF Apart
  <2> QED BY <2>3, <2>4
<1> QED BY <1>1, <1>2

\* The steps that withdraw nothing and replay nothing new.
LEMMA OnceStays ==
  ASSUME Once, NEW gains, Draws(stores, stores', gains), Placeable(gains), NoNewReplay,
         withdrawn' = withdrawn, \A k \in Keys : issued[k] \subseteq issued'[k]
  PROVE  Once'
<1>1. Apart(stores')
  BY ApartStays DEF Once
<1>2. ASSUME NEW k \in Keys, NEW t \in withdrawn[k]
      PROVE  t \in issued'[k] /\ ~InStores(stores', k, t)
  BY <1>2, NowhereElse DEF Once, WithdrawnOut, Placeable
<1>3. ASSUME NEW k \in Keys, NEW t \in Tokens, NEW p \in Probers, Replays(prober'[p], k, t)
      PROVE  /\ ~InStores(stores', k, t) /\ t \notin withdrawn[k]
             /\ \A o \in Probers : Replays(prober'[o], k, t) => o = p
  <2>1. \A o \in Probers : Replays(prober'[o], k, t) => Replays(prober[o], k, t)
    BY DEF NoNewReplay, Replays
  <2>2. /\ ~InStores(stores, k, t) /\ t \notin withdrawn[k]
        /\ \A o \in Probers : Replays(prober[o], k, t) => o = p
    BY <1>3, <2>1 DEF Once, ReplaysOnce
  <2>3. ~InStores(stores', k, t)
    BY <1>3, <2>2, NowhereElse DEF Placeable
  <2> QED BY <2>1, <2>2, <2>3
<1>4. WithdrawnOut'
  BY <1>2 DEF Once, WithdrawnOut, InStores
<1>5. ReplaysOnce'
  BY <1>3 DEF ReplaysOnce, InStores, Replays
<1>6. Apart(stores)'
  BY <1>1 DEF Apart, Single
<1> QED BY <1>4, <1>5, <1>6 DEF Once

LEMMA QuietStays ==
  ASSUME Once, Draws(stores, stores', {}), NoNewReplay, UNCHANGED <<issued, withdrawn>>
  PROVE  Once'
<1>1. Placeable({})
  BY DEF Placeable
<1> QED BY <1>1, OnceStays

\* Whoever chooses a job replays nothing yet.
LEMMA ChooseOnce ==
  ASSUME IInv, Once, Choose
  PROVE  Once'
<1>0. prober \in [Probers -> ProberType] /\ Worker \in Probers /\ Operators \subseteq Probers
  BY DEF IInv, ProbersOK, Probers
<1>1. ASSUME NEW p \in Probers, NEW k, TakeUp(p, k)
      PROVE  NoNewReplay
  <2> DEFINE n == Len(stores[k])
             q == Picked(IdleProber, k, n)
  <2>1. prober' = [prober EXCEPT ![p] = q]
    BY <1>1 DEF TakeUp, Picked
  <2> HIDE DEF n
  <2>2. q.pc = "picked"
    BY IdleFine DEF Picked, ProberType
  <2> HIDE DEF q
  <2> QED BY <1>0, <2>1, <2>2 DEF NoNewReplay
<1>2. ASSUME NEW k \in Keys, NEW account, AutoHarvest(k, account)
      PROVE  Once'
  <2>1. Draws(stores, stores', {})
    BY <1>2, EnsureDraws DEF AutoHarvest
  <2>2. NoNewReplay /\ UNCHANGED <<issued, withdrawn>>
    BY <1>2 DEF AutoHarvest, NoNewReplay, history
  <2> QED BY <2>1, <2>2, QuietStays
<1>3. ASSUME NEW k \in Keys, PickDue(k)
      PROVE  Once'
  <2>1. k \in Known
    BY <1>3 DEF PickDue, Eligible, Scope, DefaultJobs
  <2>2. PICK passed \in SUBSET (Scope \ {k}), asked \in SUBSET DefaultJobs :
          Scanned(asked \cup {k}, passed)
    BY <1>3 DEF PickDue
  <2>3. asked \cup {k} \in SUBSET Known /\ passed \in SUBSET Known
    BY <2>1 DEF Scope, DefaultJobs
  <2>4. Draws(stores, stores', {})
    BY <2>2, <2>3, ScannedDraws
  <2>5. NoNewReplay /\ UNCHANGED <<issued, withdrawn>>
    BY <1>0, <1>1, <1>3 DEF PickDue, history
  <2> QED BY <2>4, <2>5, QuietStays
<1>4. ASSUME PickNone
      PROVE  Once'
  <2>1. PICK asked \in SUBSET DefaultJobs : Scanned(asked, Known)
    BY <1>4 DEF PickNone
  <2>2. asked \in SUBSET Known /\ Known \in SUBSET Known
    BY DEF DefaultJobs
  <2>3. Draws(stores, stores', {})
    BY <2>1, <2>2, ScannedDraws
  <2>4. NoNewReplay /\ UNCHANGED <<issued, withdrawn>>
    BY <1>4 DEF PickNone, NoNewReplay, history
  <2> QED BY <2>3, <2>4, QuietStays
<1>5. ASSUME NEW p \in Operators, NEW k \in Keys, HarvestNow(p, k)
      PROVE  Once'
  <2>1. Draws(stores, stores', {})
    BY <1>5, SameDraws DEF HarvestNow, runtimeVars
  <2>2. NoNewReplay /\ UNCHANGED <<issued, withdrawn>>
    BY <1>0, <1>1, <1>5 DEF HarvestNow, history
  <2> QED BY <2>1, <2>2, QuietStays
<1> QED BY <1>2, <1>3, <1>4, <1>5 DEF Choose

\* A round calls, judges and ends without a state in hand.
LEMMA RoundOnce ==
  ASSUME IInv, Once, NEW p \in Probers, Round(p)
  PROVE  Once'
<1>0. prober \in [Probers -> ProberType] /\ prober[p] \in ProberType /\ Worker \in Probers
  BY DEF IInv, ProbersOK, Probers
<1>1. Stacked(stores, issued)
  BY DEF IInv, Shared, StoresOK
<1>2. ASSUME NEW o \in Probers, NEW q, prober' = [prober EXCEPT ![o] = q], q.pc # "replay"
      PROVE  NoNewReplay
  BY <1>0, <1>2 DEF NoNewReplay
<1>3. ASSUME NEW o \in Probers, prober' = [prober EXCEPT ![o] = IdleProber]
      PROVE  NoNewReplay
  BY <1>2, <1>3, IdleFine
<1>4. ASSUME NEW k \in Known, SkipSatisfied(k)
      PROVE  Once'
  <2>1. /\ k \in Keys /\ Len(stores[k]) \in 1..Len(stores[k])
        /\ Acquire(StoreOf(k), now) \in Kept(issued[k]) /\ StoreOf(k) \in Store
    BY JobHasStore, AcquireKept DEF Known, IInv, Kept
  <2>2. stores' = UpdateStore(stores, k, Len(stores[k]), Acquire(StoreOf(k), now))
    BY <1>4 DEF SkipSatisfied, UpdateCurrent
  <2>3. Drawn(Acquire(StoreOf(k), now), stores[k][Len(stores[k])], Gained({}, k, Len(stores[k])))
    BY <2>1, PromoteDrawn DEF StoreOf, Gained
  <2>4. Draws(stores, stores', {})
    BY <1>1, <2>1, <2>2, <2>3, UpdateDraws
  <2>5. NoNewReplay /\ UNCHANGED <<issued, withdrawn>>
    BY <1>0, <1>3, <1>4 DEF SkipSatisfied, history
  <2> QED BY <2>4, <2>5, QuietStays
<1>5. ASSUME BeginRound(p)
      PROVE  Once'
  <2> DEFINE k == prober[p].key
             n == IF AcquireResult(Held(p), now) # None THEN HarvestAttempts ELSE FreshBudget
             q == Begun(prober[p], n, now)
  <2>1. prober[p].pc # "idle"
    BY <1>5 DEF BeginRound
  <2>2. /\ k \in Keys /\ prober[p].store \in 1..Len(stores[k])
        /\ Acquire(Held(p), now) \in Kept(issued[k]) /\ Held(p) \in Store
    BY <2>1, AtWork, AcquireKept DEF Kept
  <2>3. stores' = UpdateStore(stores, k, prober[p].store, Acquire(Held(p), now))
    BY <1>5 DEF BeginRound
  <2>4. Drawn(Acquire(Held(p), now), stores[k][prober[p].store], Gained({}, k, prober[p].store))
    BY <2>2, PromoteDrawn DEF Held, Gained
  <2>5. Draws(stores, stores', {})
    BY <1>1, <2>2, <2>3, <2>4, UpdateDraws
  <2>6. prober' = [prober EXCEPT ![p] = q]
    BY <1>0, <1>5 DEF BeginRound, Begun
  <2> HIDE DEF n
  <2>7. q.pc = "attempt"
    BY <1>0 DEF Begun, ProberType
  <2> HIDE DEF q
  <2>8. NoNewReplay /\ UNCHANGED <<issued, withdrawn>>
    BY <1>2, <1>5, <2>6, <2>7 DEF BeginRound
  <2> QED BY <2>5, <2>8, QuietStays
<1>6. ASSUME Judge(p)
      PROVE  Once'
  <2> DEFINE pc == IF GoesOn(p) THEN "attempt" ELSE "end"
             n == IF GoesOn(p) THEN prober[p].attempt + 1 ELSE prober[p].attempt
             worse == Degraded(p)
             q == Judged(prober[p], pc, n, worse)
  <2>1. prober' = [prober EXCEPT ![p] = q]
    BY <1>0, <1>6 DEF Judge, Judged
  <2>2. pc \in {"attempt", "end"}
    OBVIOUS
  <2> HIDE DEF pc, n, worse
  <2>3. q.pc = pc
    BY <1>0 DEF Judged, ProberType
  <2> HIDE DEF q
  <2>4. NoNewReplay /\ UNCHANGED <<issued, withdrawn>>
    BY <1>2, <1>6, <2>1, <2>2, <2>3 DEF Judge
  <2>5. Draws(stores, stores', {})
    BY <1>6, SameDraws DEF Judge, runtimeVars
  <2> QED BY <2>4, <2>5, QuietStays
<1>7. ASSUME RefuseRound(p) \/ EndRound(p)
      PROVE  Once'
  <2>1. NoNewReplay /\ UNCHANGED <<issued, withdrawn>>
    BY <1>3, <1>7 DEF RefuseRound, EndRound, history
  <2>2. Draws(stores, stores', {})
    BY <1>7, SameDraws DEF RefuseRound, EndRound
  <2> QED BY <2>1, <2>2, QuietStays
<1> QED BY <1>4, <1>5, <1>6, <1>7 DEF Round

\* What the upstream has not issued yet is in no place.
LEMMA NewIsNowhere ==
  ASSUME IInv, Once, NEW t \in Tokens, Issuable(t), NEW k \in Keys
  PROVE  /\ ~InStores(stores, k, t) /\ t \notin withdrawn[k]
         /\ \A p \in Probers : ~Replays(prober[p], k, t)
<1>1. t \notin issued[k]
  BY DEF Issuable
<1>2. ASSUME NEW g \in 1..Len(stores[k]) PROVE t \notin TokensIn(stores[k][g])
  <2>1. TokensIn(stores[k][g]) \subseteq issued[k]
    BY StackFacts, KeptHolds DEF IInv, Shared, StoresOK
  <2> QED BY <1>1, <2>1
<1>3. \A p \in Probers : ~Replays(prober[p], k, t)
  BY <1>1, NoneApart DEF IInv, ProbersOK, ProberFine, Replays
<1> QED BY <1>1, <1>2, <1>3 DEF Once, WithdrawnOut, InStores

\* A state is replayed when it is new, and leaves the thread's hands for its store.
LEMMA ProbeOnce ==
  ASSUME IInv, Once, NEW p \in Probers, Probe(p)
  PROVE  Once'
<1> DEFINE k == prober[p].key
<1>0. /\ prober \in [Probers -> ProberType] /\ prober[p] \in ProberType
      /\ Stacked(stores, issued) /\ SameDepth(stores, stores)
  BY DEF IInv, ProbersOK, Shared, StoresOK, SameDepth
<1>1. ASSUME NEW result, Finish(p, result)
      PROVE  NoNewReplay /\ prober'[p].pc = "judge"
  <2> DEFINE q == Finished(prober[p], result)
  <2>1. prober' = [prober EXCEPT ![p] = q]
    BY <1>0, <1>1 DEF Finish, Finished
  <2>2. q.pc = "judge"
    BY <1>0 DEF Finished, ProberType
  <2> HIDE DEF q
  <2> QED BY <1>0, <2>1, <2>2 DEF NoNewReplay
<1>2. ASSUME NEW result, NEW seen, Finish(p, result), Record(k, stores, seen),
             UNCHANGED <<issued, withdrawn>>
      PROVE  Once'
  BY <1>0, <1>1, <1>2, RecordDraws, QuietStays
<1>3. ASSUME NEW result, Finish(p, result), UNCHANGED <<stores, issued, withdrawn>>
      PROVE  Once'
  BY <1>1, <1>3, SameDraws, QuietStays
<1>4. ASSUME NEW t \in Tokens, ProbeIssues(p, t)
      PROVE  Once'
  <2> DEFINE q == Replaying(prober[p], t)
  <2>1. /\ prober' = [prober EXCEPT ![p] = q] /\ UNCHANGED <<stores, withdrawn>>
        /\ Issue(k, t) /\ Issuable(t) /\ prober[p].pc = "attempt"
    BY <1>0, <1>4 DEF ProbeIssues, Replaying, runtimeVars
  <2>2. k \in Keys
    BY <2>1, AtWork
  <2>3. q.pc = "replay" /\ q.token = t /\ q.key = k
    BY <1>0 DEF Replaying, ProberType
  <2> HIDE DEF q
  <2>5. \A j \in Keys : issued[j] \subseteq issued'[j]
    BY <2>1, <2>2, IssueGrows DEF IInv
  <2>6. \A j \in Keys : /\ ~InStores(stores, j, t) /\ t \notin withdrawn[j]
                        /\ \A o \in Probers : ~Replays(prober[o], j, t)
    BY <2>1, NewIsNowhere
  <2>8. \A o \in Probers : prober'[o] = IF o = p THEN q ELSE prober[o]
    BY <1>0, <2>1
  <2>9. Apart(stores)' /\ WithdrawnOut'
    <3>1. Apart(stores)'
      BY <2>1 DEF Once, Apart, Single
    <3>2. WithdrawnOut'
      BY <2>1, <2>5 DEF Once, WithdrawnOut, InStores
    <3> QED BY <3>1, <3>2
  <2>10. ASSUME NEW j \in Keys, NEW u \in Tokens, NEW o \in Probers, Replays(prober'[o], j, u)
         PROVE  /\ ~InStores(stores, j, u) /\ u \notin withdrawn[j]
                /\ \A n \in Probers : Replays(prober'[n], j, u) => n = o
    <3>1. CASE u = t
      <4>1. \A n \in Probers : Replays(prober'[n], j, u) => n = p
        BY <2>6, <2>8, <3>1
      <4> QED BY <2>6, <2>10, <3>1, <4>1
    <3>2. CASE u # t
      <4>1. \A n \in Probers : Replays(prober'[n], j, u) => Replays(prober[n], j, u)
        BY <2>3, <2>8, <3>2 DEF Replays
      <4> QED BY <2>10, <4>1 DEF Once, ReplaysOnce
    <3> QED BY <3>1, <3>2
  <2>11. ReplaysOnce'
    BY <2>1, <2>10 DEF ReplaysOnce, InStores, Replays
  <2> QED BY <2>9, <2>11 DEF Once
<1>5. ASSUME ReplayPasses(p)
      PROVE  Once'
  <2> DEFINE t == prober[p].token
             g == prober[p].store
             st == Offer(Held(p), t, now)
             gains == {<<k, g, t>>}
             q == Passed(prober[p])
  <2>1. /\ prober[p].pc = "replay" /\ stores' = UpdateStore(stores, k, g, st)
        /\ prober' = [prober EXCEPT ![p] = q] /\ UNCHANGED <<issued, withdrawn>>
    BY <1>0, <1>5 DEF ReplayPasses, Passed
  <2>2. /\ k \in Keys /\ g \in 1..Len(stores[k])
        /\ ProberFine(prober[p], stores, issued)
        /\ Held(p) \in Kept(issued[k]) /\ issued[k] \in SUBSET Tokens
    BY <2>1, AtWork
  <2>3. t \in issued[k] /\ t \in Tokens
    BY <2>1, <2>2 DEF ProberFine
  <2>4. st \in Kept(issued[k]) /\ Held(p) \in Store
    BY <2>2, <2>3, OfferKept DEF Kept
  <2>5. Gained(gains, k, g) = {t}
    BY <2>3 DEF Gained
  <2>6. Drawn(st, stores[k][g], Gained(gains, k, g))
    BY <2>3, <2>4, <2>5, OfferDrawn DEF Held
  <2>7. Replays(prober[p], k, t)
    BY <2>1 DEF Replays
  <2>8. NoNewReplay /\ prober'[p].pc = "passed"
    <3>1. q.pc = "passed"
      BY <1>0, PassedRecord
    <3> HIDE DEF q
    <3> QED BY <1>0, <2>1, <3>1 DEF NoNewReplay
  <2>9. Placeable(gains)
    <3>1. NoNewReplay /\ prober'[p].pc = "passed"
      BY <2>8
    <3>2. \A o \in Probers : ~Replays(prober'[o], k, t)
      <4> SUFFICES ASSUME NEW o \in Probers, Replays(prober'[o], k, t) PROVE FALSE
        OBVIOUS
      <4>1. Replays(prober[o], k, t) /\ o # p
        BY <3>1 DEF NoNewReplay, Replays
      <4> QED BY <2>2, <2>3, <2>7, <4>1 DEF Once, ReplaysOnce
    <3>3. ~InStores(stores, k, t) /\ t \notin withdrawn[k]
      BY <2>2, <2>3, <2>7 DEF Once, ReplaysOnce
    <3> QED BY <3>2, <3>3 DEF Placeable
  <2> HIDE DEF st, gains
  <2>10. Draws(stores, stores', gains)
    BY <1>0, <2>1, <2>2, <2>4, <2>6, UpdateDraws
  <2> QED BY <2>1, <2>9, <2>10, <2>8, OnceStays
<1>6. ASSUME NEW result, ProbeFails(p, result) PROVE Once'
  BY <1>2, <1>6 DEF ProbeFails
<1>7. ASSUME NEW result, ProbeUnrecorded(p, result) \/ ReplayUnrecorded(p, result) PROVE Once'
  BY <1>3, <1>7 DEF ProbeUnrecorded, ReplayUnrecorded, runtimeVars
<1>8. ASSUME NEW status, NEW retryAfter, ProbeRejected(p, status, retryAfter) PROVE Once'
  BY <1>3, <1>8 DEF ProbeRejected
<1>9. ASSUME ProbeOverloaded(p) \/ ProbeDegraded(p) \/ ReplayFails(p) PROVE Once'
  BY <1>2, <1>9 DEF ProbeOverloaded, ProbeDegraded, ReplayFails
<1>10. ASSUME RecordPassed(p) PROVE Once'
  BY <1>2, <1>10 DEF RecordPassed, history
<1> QED BY <1>4, <1>5, <1>6, <1>7, <1>8, <1>9, <1>10 DEF Probe

\* A request is sent with what is in a store.
LEMMA SendOnce ==
  ASSUME IInv, Once, NEW r \in Requests, Send(r)
  PROVE  Once'
<1>1. Stacked(stores, issued)
  BY DEF IInv, Shared, StoresOK
<1>2. NoNewReplay /\ UNCHANGED <<issued, withdrawn>>
  BY DEF Send, Admit, Refuse, ForwardPlain, LookUp, Inject, NoNewReplay, history
<1>3. ASSUME stores' = stores
      PROVE  Draws(stores, stores', {})
  BY <1>3, SameDraws
<1>4. ASSUME NEW k \in Known, stores' = UpdateCurrent(stores, k, Acquire(StoreOf(k), now))
      PROVE  Draws(stores, stores', {})
  <2>1. /\ k \in Keys /\ Len(stores[k]) \in 1..Len(stores[k])
        /\ Acquire(StoreOf(k), now) \in Kept(issued[k]) /\ StoreOf(k) \in Store
    BY JobHasStore, AcquireKept DEF Known, IInv, Kept
  <2>2. stores' = UpdateStore(stores, k, Len(stores[k]), Acquire(StoreOf(k), now))
    BY <1>4 DEF UpdateCurrent
  <2>3. Drawn(Acquire(StoreOf(k), now), stores[k][Len(stores[k])], Gained({}, k, Len(stores[k])))
    BY <2>1, PromoteDrawn DEF StoreOf, Gained
  <2> QED BY <1>1, <2>1, <2>2, <2>3, UpdateDraws
<1>5. ASSUME NEW k, Admit(r, k) \/ Refuse(r, k)
      PROVE  Draws(stores, stores', {})
  BY <1>3, <1>4, <1>5 DEF Admit, Refuse
<1>6. ASSUME NEW k \in Keys, NEW account, LookUp(r, k, account)
      PROVE  Draws(stores, stores', {})
  BY <1>6, EnsureDraws DEF LookUp
<1>7. ASSUME NEW k, ForwardPlain(r, k)
      PROVE  Draws(stores, stores', {})
  BY <1>3, <1>7 DEF ForwardPlain, runtimeVars
<1>8. ASSUME Inject(r)
      PROVE  Draws(stores, stores', {})
  <2> DEFINE k == req[r].key
             g == req[r].store
             st == Acquire(stores[k][g], now)
  <2>1. k \in Keys /\ g \in 1..Len(stores[k])
    BY <1>8 DEF Inject, IInv, RequestsOK, RequestFine
  <2>2. st \in Kept(issued[k]) /\ stores[k][g] \in Store
    BY <2>1, StackFacts, AcquireKept DEF IInv, Shared, StoresOK, Kept
  <2>3. stores' = stores \/ stores' = UpdateStore(stores, k, g, st)
    BY <1>8 DEF Inject
  <2>4. Drawn(st, stores[k][g], Gained({}, k, g))
    BY <2>2, PromoteDrawn DEF Gained
  <2> HIDE DEF st
  <2> QED BY <1>1, <1>3, <2>1, <2>2, <2>3, <2>4, UpdateDraws
<1>9. Draws(stores, stores', {})
  BY <1>5, <1>6, <1>7, <1>8 DEF Send
<1> QED BY <1>2, <1>9, QuietStays

\* The signal takes the state it is about out of every store.
LEMMA WithdrawsOnce ==
  ASSUME IInv, Once, NEW r \in Requests, NEW status, NEW retryAfter,
         RespondWithdraws(r, status, retryAfter)
  PROVE  Once'
<1> DEFINE k == req[r].key
           used == inflight[r].snapshot
           cur == StoreOf(k)
           st == RejectAndPromote(cur, used, now)
<1>1. Answered(r) /\ inflight[r] # None /\ issued' = issued
  BY DEF RespondWithdraws
<1>2. k \in Keys /\ Stacked(stores, issued) /\ NoNewReplay
  BY <1>1, RespondedKnown DEF Answered, NoNewReplay, IInv, Shared, StoresOK
<1>3. CASE k \notin Known
  <2>1. UNCHANGED <<stores, withdrawn>>
    BY <1>3 DEF RespondWithdraws
  <2> QED BY <1>1, <1>2, <2>1, SameDraws, QuietStays
<1>4. CASE k \in Known
  <2>1. /\ Len(stores[k]) \in 1..Len(stores[k])
        /\ cur \in Kept(issued[k]) /\ cur \in Store
        /\ cur = stores[k][Len(stores[k])]
        /\ issued[k] \in SUBSET Tokens
    BY <1>4, JobHasStore DEF Known, IInv, Kept, StoreOf
  <2>2. used \in Snapshot
    BY <1>1, NoneAssumption DEF IInv, RequestsOK, Injected
  <2>3. stores' = UpdateStore(stores, k, Len(stores[k]), st)
    BY <1>4 DEF RespondWithdraws, UpdateCurrent
  <2>4. st \in Kept(issued[k])
    BY <2>1, RejectKept
  <2>5. /\ Drawn(st, cur, {})
        /\ IsCurrent(cur, used) =>
             used.token \in TokensIn(cur) /\ (Single(cur) => used.token \notin TokensIn(st))
    BY <2>1, <2>2, RejectDrawn
  <2>6. withdrawn' = IF IsCurrent(cur, used)
                     THEN [withdrawn EXCEPT ![k] = @ \cup {used.token}] ELSE withdrawn
    BY <1>4 DEF RespondWithdraws
  <2> HIDE DEF st
  <2>7. Drawn(st, stores[k][Len(stores[k])], Gained({}, k, Len(stores[k])))
    BY <2>1, <2>5 DEF Gained
  <2>8. Draws(stores, stores', {})
    BY <1>2, <2>1, <2>3, <2>4, <2>7, UpdateDraws
  <2>9. CASE ~IsCurrent(cur, used)
    BY <1>1, <1>2, <2>6, <2>8, <2>9, QuietStays
  <2>10. CASE IsCurrent(cur, used)
    <3> DEFINE t == used.token
               n == Len(stores[k])
    <3>1. t \in TokensIn(stores[k][n]) /\ t \in issued[k] /\ t \in Tokens
      <4>1. TokensIn(cur) \subseteq issued[k]
        BY <2>1, KeptHolds
      <4> QED BY <2>1, <2>5, <2>10, <4>1
    <3>2. InStores(stores, k, t)
      BY <2>1, <3>1 DEF InStores
    <3>3. ~InStores(stores', k, t)
      <4> SUFFICES ASSUME NEW g \in 1..Len(stores'[k]), t \in TokensIn(stores'[k][g])
                   PROVE  FALSE
        BY DEF InStores
      <4>1. g \in 1..Len(stores[k]) /\ t \in TokensIn(stores[k][g])
        BY <1>2, <2>8 DEF Draws, Drawn, Gained
      <4>2. g = n
        BY <1>2, <2>1, <3>1, <4>1 DEF Once, Apart
      <4>3. stores'[k][n] = st
        BY <1>2, <2>1, <2>3, <2>4, UpdateStacked
      <4>4. Single(cur)
        BY <1>2, <2>1 DEF Once, Apart
      <4> QED BY <2>5, <2>10, <4>2, <4>3, <4>4
    <3>4. withdrawn' = [j \in Keys |-> IF j = k THEN withdrawn[j] \cup {t} ELSE withdrawn[j]]
      BY <2>6, <2>10 DEF Once, WithdrawnOut
    <3>5. withdrawn' \in [Keys -> SUBSET Tokens]
      BY <3>1, <3>4 DEF Once, WithdrawnOut
    <3>6. ASSUME NEW j \in Keys, NEW u \in withdrawn'[j]
          PROVE  u \in issued[j] /\ ~InStores(stores', j, u)
      <4>1. CASE j = k /\ u = t
        BY <3>1, <3>3, <4>1
      <4>2. CASE ~(j = k /\ u = t)
        <5>1. u \in withdrawn[j]
          BY <3>4, <3>6, <4>2
        <5>2. u \in issued[j] /\ ~InStores(stores, j, u)
          BY <5>1 DEF Once, WithdrawnOut
        <5> QED BY <2>8, <5>2, NothingComes
      <4> QED BY <4>1, <4>2
    <3>7. WithdrawnOut'
      BY <1>1, <3>5, <3>6 DEF WithdrawnOut, InStores
    <3>8. Placeable({})
      BY DEF Placeable
    <3>9. Apart(stores')
      BY <2>8, <3>8, ApartStays DEF Once
    <3>10. Apart(stores)'
      BY <3>9 DEF Apart, Single
    <3>11. ASSUME NEW j \in Keys, NEW u \in Tokens, NEW p \in Probers, Replays(prober'[p], j, u)
           PROVE  /\ ~InStores(stores', j, u) /\ u \notin withdrawn'[j]
                  /\ \A o \in Probers : Replays(prober'[o], j, u) => o = p
      <4>1. \A o \in Probers : Replays(prober'[o], j, u) => Replays(prober[o], j, u)
        BY <1>2 DEF NoNewReplay, Replays
      <4>2. /\ ~InStores(stores, j, u) /\ u \notin withdrawn[j]
            /\ \A o \in Probers : Replays(prober[o], j, u) => o = p
        BY <3>11, <4>1 DEF Once, ReplaysOnce
      <4>3. ~InStores(stores', j, u)
        BY <2>8, <4>2, NothingComes
      <4>4. u \notin withdrawn'[j]
        BY <3>2, <3>4, <4>2
      <4> QED BY <4>1, <4>2, <4>3, <4>4
    <3>12. ReplaysOnce'
      BY <3>11 DEF ReplaysOnce, InStores, Replays
    <3> QED BY <3>7, <3>10, <3>12 DEF Once
  <2> QED BY <2>9, <2>10
<1> QED BY <1>3, <1>4

\* A state that comes with a response is new where it is offered.
LEMMA StateOnce ==
  ASSUME IInv, Once, NEW r \in Requests, NEW status, NEW retryAfter, NEW t \in Tokens,
         RespondState(r, status, retryAfter, t)
  PROVE  Once'
<1> DEFINE k == req[r].key
           cur == StoreOf(k)
           n == Len(stores[k])
<1>1. Answered(r) /\ Issue(k, t) /\ withdrawn' = withdrawn
  BY DEF RespondState
<1>2. k \in Keys /\ Stacked(stores, issued) /\ NoNewReplay
  BY <1>1, RespondedKnown DEF Answered, NoNewReplay, IInv, Shared, StoresOK
<1>3. /\ issued' \in [Keys -> SUBSET Tokens] /\ Stacked(stores, issued') /\ t \in issued'[k]
      /\ \A j \in Keys : issued[j] \subseteq issued'[j]
  BY <1>1, <1>2, IssueGrows DEF IInv
<1>4. Placeable({})
  BY DEF Placeable
<1>5. ASSUME k \in Known
      PROVE  /\ n \in 1..n /\ cur = stores[k][n] /\ cur \in Store
             /\ cur \in Kept(issued'[k]) /\ issued'[k] \in SUBSET Tokens
  <2>1. n \in 1..n /\ cur = stores[k][n]
    BY <1>5, JobHasStore DEF Known, IInv, StoreOf
  <2>2. cur \in Kept(issued'[k])
    BY <1>2, <1>3, <2>1, StackFacts
  <2> QED BY <1>2, <1>3, <2>1, <2>2 DEF Kept
<1>6. CASE k \notin Known
  <2>1. stores' = stores
    BY <1>6 DEF RespondState
  <2> QED BY <1>1, <1>2, <1>3, <1>4, <2>1, SameDraws, OnceStays
<1>7. CASE k \in Known /\ inflight[r] # None
  <2> DEFINE suspect == ~Accept(cur.blocks, t, now)
             st == Observe(cur, suspect, inflight[r].snapshot)
  <2>1. stores' = UpdateStore(stores, k, n, st)
    BY <1>7 DEF RespondState, UpdateCurrent
  <2>2. suspect \in BOOLEAN
    BY DEF Accept
  <2> HIDE DEF suspect
  <2>3. st \in Kept(issued'[k])
    BY <1>5, <1>7, <2>2, ObserveKept
  <2>4. Drawn(st, stores[k][n], Gained({}, k, n))
    BY <1>5, <1>7, <2>2, ObserveDrawn DEF Gained
  <2> HIDE DEF st
  <2>5. Draws(stores, stores', {})
    BY <1>2, <1>3, <1>5, <1>7, <2>1, <2>3, <2>4, UpdateDraws
  <2> QED BY <1>1, <1>2, <1>3, <1>4, <2>5, OnceStays
<1>8. CASE k \in Known /\ inflight[r] = None
  <2> DEFINE st == Offer(cur, t, now)
             gains == {<<k, n, t>>}
  <2>1. stores' = UpdateStore(stores, k, n, st) /\ Issuable(t)
    BY <1>8 DEF RespondState, UpdateCurrent
  <2>2. st \in Kept(issued'[k])
    BY <1>3, <1>5, <1>8, OfferKept
  <2>3. Gained(gains, k, n) = {t}
    BY DEF Gained
  <2>4. Drawn(st, stores[k][n], Gained(gains, k, n))
    BY <1>5, <1>8, <2>3, OfferDrawn
  <2>5. Placeable(gains)
    <3>1. /\ ~InStores(stores, k, t) /\ t \notin withdrawn[k]
          /\ \A p \in Probers : ~Replays(prober[p], k, t)
      BY <1>2, <2>1, NewIsNowhere
    <3>2. \A p \in Probers : ~Replays(prober'[p], k, t)
      BY <1>2, <3>1 DEF NoNewReplay, Replays
    <3> QED BY <3>1, <3>2 DEF Placeable
  <2> HIDE DEF st, gains
  <2>6. Draws(stores, stores', gains)
    BY <1>2, <1>3, <1>5, <1>8, <2>1, <2>2, <2>4, UpdateDraws
  <2> QED BY <1>1, <1>2, <1>3, <2>5, <2>6, OnceStays
<1> QED BY <1>6, <1>7, <1>8

LEMMA RespondOnce ==
  ASSUME IInv, Once, NEW r \in Requests, Respond(r)
  PROVE  Once'
<1> DEFINE k == req[r].key
           cur == StoreOf(k)
           n == Len(stores[k])
<1>1. PICK status \in Statuses, retryAfter \in RetryAfters :
        \/ RespondPlain(r, status, retryAfter)
        \/ RespondWithdraws(r, status, retryAfter)
        \/ RespondReplaces(r, status, retryAfter)
        \/ \E t \in Tokens : RespondState(r, status, retryAfter, t)
        \/ RespondGarbled(r, status, retryAfter)
  BY DEF Respond
<1>2. Answered(r)
  BY <1>1 DEF RespondPlain, RespondWithdraws, RespondReplaces, RespondState, RespondGarbled
<1>3. k \in Keys /\ Stacked(stores, issued) /\ NoNewReplay
  BY <1>2, RespondedKnown DEF Answered, NoNewReplay, IInv, Shared, StoresOK
<1>4. ASSUME k \in Known
      PROVE  /\ n \in 1..n /\ cur = stores[k][n]
             /\ cur \in Kept(issued[k]) /\ cur \in Store
  BY <1>4, JobHasStore DEF Known, IInv, Kept, StoreOf
<1>5. ASSUME stores' = stores, UNCHANGED <<issued, withdrawn>>
      PROVE  Once'
  BY <1>3, <1>5, SameDraws, QuietStays
<1>6. CASE RespondPlain(r, status, retryAfter)
  BY <1>5, <1>6 DEF RespondPlain
<1>7. CASE RespondReplaces(r, status, retryAfter)
  <2>1. CASE k \in Known
    <3> DEFINE st == NewStore(cur.blocks)
    <3>1. stores' = Replaced(stores, k, st)
      BY <1>7, <2>1 DEF RespondReplaces, Replaced
    <3>2. cur.blocks \in Nat
      BY <1>4, <2>1 DEF Store
    <3>3. st \in Kept(issued[k]) /\ TokensIn(st) = {} /\ Single(st)
      BY <3>2, NewStoreKept, EmptyDrawn
    <3> HIDE DEF st
    <3>4. Draws(stores, stores', {})
      BY <1>3, <3>1, <3>3, AppendDraws
    <3>5. UNCHANGED <<issued, withdrawn>>
      BY <1>7 DEF RespondReplaces
    <3> QED BY <1>3, <3>4, <3>5, QuietStays
  <2>2. CASE k \notin Known
    BY <1>5, <1>7, <2>2 DEF RespondReplaces
  <2> QED BY <2>1, <2>2
<1>8. CASE RespondGarbled(r, status, retryAfter)
  <2>1. CASE k \in Known
    <3> DEFINE st == Observe(cur, TRUE, inflight[r].snapshot)
    <3>1. stores' = UpdateStore(stores, k, n, st) /\ UNCHANGED <<issued, withdrawn>>
      BY <1>8, <2>1 DEF RespondGarbled, UpdateCurrent
    <3>2. st \in Kept(issued[k])
      BY <1>4, <2>1, ObserveKept
    <3>3. Drawn(st, stores[k][n], Gained({}, k, n))
      BY <1>4, <2>1, ObserveDrawn DEF Gained
    <3> HIDE DEF st
    <3>4. Draws(stores, stores', {})
      BY <1>3, <1>4, <2>1, <3>1, <3>2, <3>3, UpdateDraws
    <3> QED BY <1>3, <3>1, <3>4, QuietStays
  <2>2. CASE k \notin Known
    BY <1>5, <1>8, <2>2 DEF RespondGarbled
  <2> QED BY <2>1, <2>2
<1> QED BY <1>1, <1>6, <1>7, <1>8, WithdrawsOnce, StateOnce

LEMMA OnceHolds ==
  ASSUME MaxRestarts = 0
  PROVE  Spec => []Once
<1>1. Init => Once
  <2> SUFFICES ASSUME Init PROVE Once
    OBVIOUS
  <2>1. \A k \in Keys : stores[k] = <<>> /\ withdrawn[k] = {}
    BY DEF Init
  <2>2. \A p \in Probers : prober[p].pc = "idle"
    BY DEF Init, IdleProber
  <2>3. withdrawn \in [Keys -> SUBSET Tokens]
    BY DEF Init
  <2> QED BY <2>1, <2>2, <2>3 DEF Once, Apart, WithdrawnOut, ReplaysOnce, Replays
<1>2. IInv /\ Once /\ [Next]_vars => Once'
  <2> SUFFICES ASSUME IInv, Once, [Next]_vars PROVE Once'
    OBVIOUS
  <2>1. ASSUME UNCHANGED <<stores, prober, issued, withdrawn>> PROVE Once'
    BY <2>1, SameDraws, QuietStays DEF NoNewReplay
  <2>2. CASE Tick \/ Operate \/ UNCHANGED vars
    BY <2>1, <2>2 DEF Tick, Operate, SetInjection, SetFallback, vars, runtimeVars, history
  <2>3. ASSUME NEW r \in Requests, Complete(r) PROVE Once'
    BY <2>1, <2>3 DEF Complete, runtimeVars, history
  <2>4. ASSUME Restart PROVE FALSE
    <3>1. restarts \in Nat /\ restarts < MaxRestarts
      BY <2>4 DEF Restart, IInv, Clock
    <3> QED BY <3>1
  <2> QED BY <2>2, <2>3, <2>4, ChooseOnce, RoundOnce, ProbeOnce, SendOnce, RespondOnce DEF Next
<1> QED BY <1>1, <1>2, IInvHolds, PTL DEF Spec

\* Only an injection sends a request with a state, one of a store of its key.
LEMMA OnlyInjectsInject ==
  ASSUME IInv, [Next]_vars, NEW r \in Requests, Injects(r)
  PROVE  InStores(stores, req[r].key, inflight'[r].snapshot.token) /\ req[r].key \in Keys
<1>1. inflight[r] = None /\ inflight'[r] # None
  BY DEF Injects
<1>2. ASSUME UNCHANGED vars PROVE FALSE
  BY <1>1, <1>2 DEF vars, requestVars
<1>3. ASSUME Tick \/ Choose \/ Operate PROVE FALSE
  BY <1>1, <1>3 DEF Tick, Choose, Operate, AutoHarvest, PickDue, PickNone, HarvestNow,
     SetInjection, SetFallback, requestVars
<1>4. ASSUME Restart PROVE FALSE
  BY <1>1, <1>4 DEF Restart
<1>5. ASSUME NEW p \in Probers, Round(p) PROVE FALSE
  BY <1>1, <1>5 DEF Round, RefuseRound, SkipSatisfied, BeginRound, Judge, EndRound, requestVars
<1>6. ASSUME NEW p \in Probers, Probe(p) PROVE FALSE
  BY <1>1, <1>6 DEF Probe, ProbeFails, ProbeUnrecorded, ReplayUnrecorded, ProbeRejected,
     ProbeOverloaded, ProbeDegraded, ProbeIssues, ReplayFails, ReplayPasses,
     RecordPassed, requestVars
<1>7. ASSUME NEW o \in Requests, Respond(o) PROVE FALSE
  <2>1. Answered(o)
    BY <1>7 DEF Respond, RespondPlain, RespondWithdraws, RespondReplaces, RespondState,
       RespondGarbled
  <2> QED BY <1>1, <2>1 DEF Answered
<1>8. ASSUME NEW o \in Requests, Complete(o) PROVE FALSE
  BY <1>1, <1>8 DEF Complete, IInv, RequestsOK
<1>9. ASSUME NEW o \in Requests, Send(o)
      PROVE  o = r /\ Inject(r)
  <2>1. CASE Inject(o)
    <3>1. \/ inflight' = inflight
          \/ \E i : inflight' = [inflight EXCEPT ![o] = i]
      BY <2>1 DEF Inject
    <3> QED BY <1>1, <2>1, <3>1 DEF IInv, RequestsOK
  <2>2. CASE ~Inject(o)
    BY <1>1, <1>9, <2>2 DEF Send, Admit, Refuse, ForwardPlain, LookUp
  <2> QED BY <2>1, <2>2
<1>10. Inject(r)
  BY <1>2, <1>3, <1>4, <1>5, <1>6, <1>7, <1>8, <1>9 DEF Next
<1> DEFINE k == req[r].key
           g == req[r].store
           st == stores[k][g]
<1>11. k \in Keys /\ g \in 1..Len(stores[k])
  BY <1>10 DEF Inject, IInv, RequestsOK, RequestFine
<1>12. st \in Store /\ st \in Kept(TokensIn(st)) /\ TokensIn(st) \in SUBSET Tokens
  BY <1>11, StackFacts, TokensHeld DEF IInv, Shared, StoresOK, Kept
<1>13. inflight'[r].snapshot = AcquireResult(st, now) /\ AcquireResult(st, now) # None
  BY <1>1, <1>10 DEF Inject, IInv, RequestsOK
<1>14. inflight'[r].snapshot.token \in TokensIn(st)
  BY <1>12, <1>13, AcquireKept
<1> QED BY <1>11, <1>14 DEF InStores

\* A state that the upstream has withdrawn is in no store of its account and
\* model any more, neither in the queue of the one it was active in, nor in one
\* that requests and threads hold on to, nor about to come back by a replay: so
\* no request is sent with it, unless a restart restores it from the file
\* (store.rs: reject_and_promote; runtime.rs:2810).
THEOREM WithdrawnStaysOut ==
  ASSUME MaxRestarts = 0
  PROVE  Spec => WithdrawnNotInjected
<1>1. ASSUME IInv, Once, [Next]_vars, NEW r \in Requests, Injects(r)
      PROVE  inflight'[r].snapshot.token \notin withdrawn[req[r].key]
  BY <1>1, OnlyInjectsInject DEF Once, WithdrawnOut
<1>2. ASSUME IInv, Once, [Next]_vars
      PROVE  \/ UNCHANGED vars
             \/ \A r \in Requests :
                  Injects(r) => inflight'[r].snapshot.token \notin withdrawn[req[r].key]
  BY <1>1, <1>2
<1>3. [][IInv /\ Once /\ [Next]_vars]_vars => WithdrawnNotInjected
  BY <1>2, PTL DEF WithdrawnNotInjected
<1> QED BY <1>3, IInvHolds, OnceHolds, PTL DEF Spec
=============================================================================
