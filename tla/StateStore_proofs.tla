-------------------------- MODULE StateStore_proofs --------------------------
(***************************************************************************)
(* Proofs about StateStore, for every set of tokens, every clock and every *)
(* bound.  The argument: whatever method is called, the store is left as   *)
(* it was, or gets a queued renewal, or a new count of strikes, or has its *)
(* active snapshot dropped, or gets a different token installed under the  *)
(* next version (the Effect lemmas).  IInv adds to the properties that no  *)
(* version beyond the counter is in use or revoked.                        *)
(***************************************************************************)
EXTENDS StateStore, TLAPS

IInv ==
  /\ TypeOK
  /\ store.version <= MaxVersion
  /\ revoked \subseteq 0..store.version
  /\ VersionNamesToken
  /\ ReadyDiffers
  /\ StrikesEarned
  /\ RevokedStaysOut

-----------------------------------------------------------------------------
(* The operations on a store value.                                        *)

\* t goes into the slot of st under the next version; it is not the token there.
Installs(st, after, t) ==
  /\ st.active # None => st.active.token.fp # t.fp
  /\ after = Install(st, t)

\* Installing a token yields a store with that token under the next version.
LEMMA InstallFields ==
  ASSUME NEW st \in Store, NEW t \in Tokens
  PROVE  /\ Install(st, t) \in Store
         /\ Install(st, t).active = [token |-> t, version |-> st.version + 1]
         /\ Install(st, t).active # None
         /\ Install(st, t).active \in Snapshot
         /\ Install(st, t).ready = None
         /\ Install(st, t).strikes = 0
         /\ Install(st, t).version = st.version + 1
<1> DEFINE new == [token |-> t, version |-> st.version + 1]
<1>1. new \in Snapshot
  BY DEF Snapshot, Store
<1>2. new # None
  BY <1>1, NoneAssumption
<1>3. st.version + 1 \in Nat
  BY DEF Store
<1> HIDE DEF new
<1>4. Install(st, t) = [blocks |-> st.blocks, active |-> new, ready |-> None,
                        version |-> st.version + 1, strikes |-> 0]
  BY DEF Install, new
<1>5. Install(st, t) \in Store
  BY <1>1, <1>3, <1>4 DEF Store
<1> QED BY <1>1, <1>2, <1>4, <1>5 DEF new

\* promote() does nothing or installs the queued renewal.
LEMMA PromoteEffect ==
  ASSUME NEW st \in Store, NEW i
  PROVE  \/ Promote(st, i) = st
         \/ \E t \in Tokens : /\ st.ready # None /\ t = st.ready.token
                            /\ Installs(st, Promote(st, i), t)
<1>1. CASE ShouldPromote(st, i)
  <2>1. st.ready # None
    BY <1>1 DEF ShouldPromote, ReadyUsable
  <2>2. st.ready.token \in Tokens
    BY <2>1 DEF Store, Snapshot
  <2>3. Installs(st, Promote(st, i), st.ready.token)
    BY <1>1 DEF Installs, Promote, ShouldPromote
  <2> QED BY <2>1, <2>2, <2>3
<1>2. CASE ~ShouldPromote(st, i)
  BY <1>2 DEF Promote
<1> QED BY <1>1, <1>2

\* Enqueue only touches the queue.
LEMMA EnqueueFields ==
  ASSUME NEW st \in Store, NEW t \in Tokens
  PROVE  /\ Enqueue(st, t) \in Store
         /\ Enqueue(st, t).active = st.active
         /\ Enqueue(st, t).version = st.version
         /\ Enqueue(st, t).strikes = st.strikes
         /\ \/ Enqueue(st, t).ready = st.ready
            \/ Enqueue(st, t).ready # None /\ Enqueue(st, t).ready.token = t
<1> DEFINE new == [token |-> t, version |-> 0]
<1>1. new \in Snapshot /\ new # None /\ new.token = t
  BY NoneAssumption DEF Snapshot
<1>2. CASE Enqueue(st, t) = st
  BY <1>2
<1>3. CASE Enqueue(st, t) = [st EXCEPT !.ready = new]
  BY <1>1, <1>3 DEF Store
<1> QED BY <1>2, <1>3 DEF Enqueue

\* The slot, its version and its strikes are as before; what is queued is not
\* the active token.
Quiet(st, after) ==
  /\ after \in Store
  /\ after.active = st.active
  /\ after.version = st.version
  /\ after.strikes = st.strikes
  /\ after.active # None /\ after.ready # None =>
       after.active.token.fp # after.ready.token.fp

DiffersIn(st) ==
  st.active # None /\ st.ready # None => st.active.token.fp # st.ready.token.fp

\* offer() leaves the slot alone or installs a token that is not there.
LEMMA OfferEffect ==
  ASSUME NEW st \in Store, DiffersIn(st), NEW t \in Tokens, NEW i
  PROVE  \/ Quiet(st, Offer(st, t, i))
         \/ \E u \in Tokens : Installs(st, Offer(st, t, i), u)
<1>1. CASE Offer(st, t, i) = st
  BY <1>1 DEF Quiet, DiffersIn
<1>2. CASE Offer(st, t, i) # st
  <2>1. st.active # None => st.active.token.fp # t.fp
    BY <1>2 DEF Offer
  <2>2. CASE ~Usable(st, i)
    BY <1>2, <2>1, <2>2 DEF Offer, Installs
  <2>3. CASE Usable(st, i)
    <3> DEFINE q == Enqueue(st, t)
    <3>1. Offer(st, t, i) = Promote(q, i)
      BY <1>2, <2>3 DEF Offer
    <3>2. /\ q \in Store /\ q.active = st.active
          /\ q.version = st.version /\ q.strikes = st.strikes
          /\ q.ready = st.ready \/ q.ready.token = t
      BY EnqueueFields
    <3>3. q.blocks = st.blocks
      BY DEF Enqueue, Store
    <3> HIDE DEF q
    <3>4. CASE Promote(q, i) = q
      BY <2>1, <3>1, <3>2, <3>4 DEF Quiet, DiffersIn
    <3>5. ASSUME NEW u \in Tokens, Installs(q, Promote(q, i), u)
          PROVE  Installs(st, Offer(st, t, i), u)
      BY <3>1, <3>2, <3>3, <3>5 DEF Installs, Install
    <3> QED BY <3>2, <3>4, <3>5, PromoteEffect
  <2> QED BY <2>2, <2>3
<1> QED BY <1>1, <1>2

\* reject_and_promote() by the current snapshot empties the slot or installs
\* the queued renewal, which is another token.
LEMMA RejectEffect ==
  ASSUME NEW st \in Store, DiffersIn(st), NEW used, NEW i, IsCurrent(st, used)
  PROVE  \/ RejectAndPromote(st, used, i) = Emptied(st)
         \/ \E t \in Tokens : Installs(st, RejectAndPromote(st, used, i), t)
<1> DEFINE e == Emptied(st)
<1>1. e \in Store /\ e.ready = st.ready /\ e.version = st.version /\ e.blocks = st.blocks
  BY DEF Emptied, Store
<1>2. RejectAndPromote(st, used, i) = Promote(e, i)
  BY DEF RejectAndPromote
<1> HIDE DEF e
<1>3. ASSUME NEW t \in Tokens, e.ready # None, t = e.ready.token,
             Installs(e, Promote(e, i), t)
      PROVE  Installs(st, RejectAndPromote(st, used, i), t)
  BY <1>1, <1>2, <1>3 DEF Installs, Install, DiffersIn
<1> QED BY <1>1, <1>2, <1>3, PromoteEffect DEF e

-----------------------------------------------------------------------------
(* Steps, by their effect on the store.                                    *)

\* A step that leaves the slot alone preserves the invariant.
LEMMA QuietStep ==
  ASSUME IInv, Quiet(store, store'), now' \in Times,
         held' \subseteq held \cup ({store.active} \ {None}),
         UNCHANGED <<blame, revoked>>
  PROVE  IInv'
<1>1. held' \subseteq Snapshot
  BY DEF IInv, TypeOK, Store
<1>2. TypeOK'
  BY <1>1 DEF IInv, TypeOK, Quiet
<1>3. InUse' \subseteq InUse
  BY DEF InUse, Quiet
<1>4. VersionNamesToken'
  BY <1>3 DEF IInv, VersionNamesToken, Quiet
<1>5. ReadyDiffers' /\ RevokedStaysOut' /\ StrikesEarned'
  BY DEF IInv, Quiet, ReadyDiffers, RevokedStaysOut, StrikesEarned
<1> QED BY <1>2, <1>4, <1>5 DEF IInv, Quiet

\* So does a step that installs another token, whatever is revoked with it.
LEMMA InstallStep ==
  ASSUME IInv, Room, NEW t \in Tokens, Installs(store, store', t),
         UNCHANGED <<now, blame>>,
         held' \subseteq held \cup {store'.active},
         revoked' \subseteq 0..store.version
  PROVE  IInv'
<1> DEFINE new == store'.active
<1>1. /\ store' \in Store /\ store'.version = store.version + 1
      /\ new \in Snapshot /\ new # None /\ new.version = store.version + 1
      /\ store'.ready = None /\ store'.strikes = 0
  <2>1. store \in Store /\ store' = Install(store, t)
    BY DEF Installs, IInv, TypeOK
  <2>2. store'.active = [token |-> t, version |-> store.version + 1]
    BY <2>1, InstallFields
  <2>3. new.version = store.version + 1
    BY <2>2
  <2> HIDE DEF new
  <2>4. new \in Snapshot /\ new # None
    BY <2>1, InstallFields DEF new
  <2> QED BY <2>1, <2>3, <2>4, InstallFields
<1>2. store.version \in Nat /\ store.version + 1 <= MaxVersion
  BY BoundAssumption DEF Room, IInv, TypeOK, Store
<1> HIDE DEF new
<1>3. TypeOK'
  <2>1. held' \subseteq Snapshot
    BY <1>1 DEF IInv, TypeOK, new
  <2>2. revoked' \subseteq Nat
    BY <1>2
  <2> QED BY <1>1, <2>1, <2>2 DEF IInv, TypeOK
<1>4. InUse' \subseteq held \cup {new}
  BY DEF InUse, new
<1>5. \A s \in held : s.version \in Nat /\ s.version <= store.version
  BY DEF IInv, TypeOK, VersionNamesToken, InUse, Snapshot
<1>6. VersionNamesToken'
  <2>1. \A s \in InUse' : s.version <= store'.version
    BY <1>1, <1>2, <1>4, <1>5
  <2>2. \A s, u \in held : s.version = u.version => s = u
    BY DEF IInv, VersionNamesToken, InUse
  <2>3. \A s, u \in InUse' : s.version = u.version => s = u
    BY <1>1, <1>2, <1>4, <1>5, <2>2
  <2> QED BY <2>1, <2>3 DEF VersionNamesToken
<1>7. ReadyDiffers'
  BY <1>1 DEF ReadyDiffers
<1>8. StrikesEarned'
  <2>1. new.version \in Versions
    BY <1>1, <1>2 DEF Versions
  <2>2. blame[new.version] \in Nat
    BY <2>1 DEF IInv, TypeOK
  <2> QED BY <1>1, <2>2 DEF StrikesEarned, new
<1>9. RevokedStaysOut'
  BY <1>1, <1>2 DEF RevokedStaysOut, new
<1>10. revoked' \subseteq 0..store'.version /\ store'.version <= MaxVersion
  BY <1>1, <1>2
<1> QED BY <1>3, <1>6, <1>7, <1>8, <1>9, <1>10 DEF IInv

\* So does a step that empties the slot.
LEMMA EmptyStep ==
  ASSUME IInv, store' = Emptied(store), UNCHANGED <<now, held, blame>>,
         revoked' \subseteq 0..store.version
  PROVE  IInv'
<1>1. /\ store' \in Store /\ store'.version = store.version
      /\ store'.active = None /\ store'.strikes = 0
  BY DEF IInv, TypeOK, Emptied, Store
<1>2. TypeOK'
  <2>1. revoked' \subseteq Nat
    BY DEF IInv, TypeOK, Store
  <2> QED BY <1>1, <2>1 DEF IInv, TypeOK
<1>3. InUse' \subseteq InUse
  BY <1>1 DEF InUse
<1>4. VersionNamesToken'
  BY <1>1, <1>3 DEF IInv, VersionNamesToken
<1>5. ReadyDiffers' /\ StrikesEarned' /\ RevokedStaysOut'
  BY <1>1 DEF ReadyDiffers, StrikesEarned, RevokedStaysOut
<1> QED BY <1>1, <1>2, <1>4, <1>5 DEF IInv

LEMMA InitInv == Init => IInv
<1> SUFFICES ASSUME Init PROVE IInv
  OBVIOUS
<1>1. PICK b \in {t.blocks : t \in Tokens} : store = NewStore(b)
  BY DEF Init
<1>2. b \in Nat
  BY TokenAssumption
<1>3. /\ store \in Store /\ store.active = None /\ store.version = 0
  BY <1>1, <1>2 DEF NewStore, Store
<1>4. TypeOK
  BY <1>3 DEF Init, TypeOK
<1>5. VersionNamesToken
  BY <1>3 DEF Init, VersionNamesToken, InUse
<1> QED BY <1>3, <1>4, <1>5, BoundAssumption
        DEF IInv, Init, ReadyDiffers, StrikesEarned, RevokedStaysOut

LEMMA NextInv == IInv /\ [Next]_vars => IInv'
<1> SUFFICES ASSUME IInv, [Next]_vars PROVE IInv'
  OBVIOUS
<1> USE DEF IInv
<1>1. store \in Store /\ DiffersIn(store) /\ Quiet(store, store)
  BY DEF TypeOK, ReadyDiffers, DiffersIn, Quiet
<1>2. CASE Clock
  BY <1>1, <1>2, QuietStep DEF Clock
<1>3. CASE CallAcquire
  <2>1. held' \subseteq held \cup ({store'.active} \ {None})
    BY <1>3 DEF CallAcquire, AcquireResult, Acquire
  <2>2. CASE store' = store
    BY <1>1, <1>3, <2>1, <2>2, QuietStep DEF CallAcquire, TypeOK
  <2>3. ASSUME NEW t \in Tokens, Installs(store, store', t)
        PROVE  IInv'
    BY <1>3, <2>1, <2>3, InstallStep DEF CallAcquire
  <2> QED BY <1>1, <1>3, <2>2, <2>3, PromoteEffect DEF CallAcquire, Acquire
<1>4. ASSUME NEW t \in Tokens, CallOffer(t)
      PROVE  IInv'
  <2>1. CASE Quiet(store, store')
    BY <1>4, <2>1, QuietStep DEF CallOffer, TypeOK
  <2>2. ASSUME NEW u \in Tokens, Installs(store, store', u)
        PROVE  IInv'
    BY <1>4, <2>2, InstallStep DEF CallOffer
  <2> QED BY <1>1, <1>4, <2>1, <2>2, OfferEffect DEF CallOffer
<1>5. ASSUME NEW used \in held, NEW suspect \in BOOLEAN, CallObserve(used, suspect)
      PROVE  IInv'
  <2>1. store' = Observe(store, suspect, used) /\ UNCHANGED <<now, held, revoked>>
    BY <1>5 DEF CallObserve
  <2>2. used.version \in Versions
    BY BoundAssumption DEF TypeOK, VersionNamesToken, InUse, Snapshot, Store, Versions
  <2>3. /\ blame' \in [Versions -> Nat]
        /\ suspect => blame'[used.version] = blame[used.version] + 1
        /\ \A v \in Versions : blame'[v] >= blame[v]
    <3>1. CASE suspect
      BY <1>5, <2>2, <3>1 DEF CallObserve, TypeOK
    <3>2. CASE ~suspect
      BY <1>5, <3>2 DEF CallObserve, TypeOK
    <3> QED BY <3>1, <3>2
  <2>4. /\ store' \in Store /\ store'.active = store.active
        /\ store'.ready = store.ready /\ store'.version = store.version
    BY <1>1, <2>1 DEF Observe, Store
  <2>5. TypeOK'
    BY <2>1, <2>3, <2>4 DEF TypeOK
  <2>6. VersionNamesToken' /\ ReadyDiffers' /\ RevokedStaysOut'
    BY <2>1, <2>4 DEF VersionNamesToken, InUse, ReadyDiffers, RevokedStaysOut
  <2>7. StrikesEarned'
    <3> SUFFICES ASSUME store.active # None
                 PROVE  store'.strikes <= blame'[store.active.version]
      BY <2>4 DEF StrikesEarned
    <3>1. store.active.version \in Versions /\ store.strikes \in Nat
      BY BoundAssumption DEF TypeOK, VersionNamesToken, InUse, Snapshot, Store, Versions
    <3>2. store.strikes <= blame[store.active.version]
      BY DEF StrikesEarned
    <3>3. /\ blame[store.active.version] \in Nat /\ blame'[store.active.version] \in Nat
          /\ blame'[store.active.version] >= blame[store.active.version]
      BY <2>3, <3>1 DEF TypeOK
    <3>4. CASE IsCurrent(store, used)
      <4>1. store'.strikes = IF suspect THEN store.strikes + 1 ELSE 0
        BY <1>1, <2>1, <3>4 DEF Observe, Store
      <4>2. store.active.version = used.version
        BY <3>4 DEF IsCurrent
      <4> QED BY <2>3, <3>1, <3>2, <3>3, <4>1, <4>2
    <3>5. CASE ~IsCurrent(store, used)
      <4>1. store' = store
        BY <2>1, <3>5 DEF Observe
      <4> QED BY <3>1, <3>2, <3>3, <4>1
    <3> QED BY <3>4, <3>5
  <2> QED BY <2>1, <2>4, <2>5, <2>6, <2>7
<1>6. CASE CallNeedsRefresh
  <2>1. CASE store' = store
    BY <1>1, <1>6, <2>1, QuietStep DEF CallNeedsRefresh, TypeOK
  <2>2. ASSUME NEW t \in Tokens, Installs(store, store', t)
        PROVE  IInv'
    BY <1>6, <2>2, InstallStep DEF CallNeedsRefresh
  <2> QED BY <1>1, <1>6, <2>1, <2>2, PromoteEffect DEF CallNeedsRefresh
<1>7. ASSUME NEW used \in held, CallReject(used)
      PROVE  IInv'
  <2>1. CASE ~IsCurrent(store, used)
    BY <1>1, <1>7, <2>1, QuietStep DEF CallReject, RejectAndPromote, TypeOK
  <2>2. CASE IsCurrent(store, used)
    <3>1. used.version \in 0..store.version
      BY DEF VersionNamesToken, InUse, TypeOK, Snapshot, Store
    <3>2. revoked' \subseteq 0..store.version
      BY <1>7, <2>2, <3>1 DEF CallReject
    <3>3. CASE store' = Emptied(store)
      BY <1>7, <3>2, <3>3, EmptyStep DEF CallReject
    <3>4. ASSUME NEW t \in Tokens, Installs(store, store', t)
          PROVE  IInv'
      BY <1>7, <3>2, <3>4, InstallStep DEF CallReject
    <3> QED BY <1>1, <1>7, <2>2, <3>3, <3>4, RejectEffect DEF CallReject
  <2> QED BY <2>1, <2>2
<1>8. CASE UNCHANGED vars
  BY <1>1, <1>8, QuietStep DEF vars, TypeOK
<1> QED BY <1>2, <1>3, <1>4, <1>5, <1>6, <1>7, <1>8 DEF Next

-----------------------------------------------------------------------------
(* Theorems.                                                               *)

LEMMA Invariance == Spec => []IInv
BY InitInv, NextInv, PTL DEF Spec

\* Every store the code can reach is well formed (store.rs:24-32).
THEOREM TypeCorrect == Spec => []TypeOK
<1>1. IInv => TypeOK
  BY DEF IInv
<1> QED BY <1>1, Invariance, PTL

\* A version stands for one token for ever, and no version in use is beyond
\* the counter: late feedback can be matched by version (store.rs:117, 168).
THEOREM VersionIdentity == Spec => []VersionNamesToken
<1>1. IInv => VersionNamesToken
  BY DEF IInv
<1> QED BY <1>1, Invariance, PTL

\* The queue never holds the active token (store.rs:65-71, 204-207).
THEOREM QueueDiffers == Spec => []ReadyDiffers
<1>1. IInv => ReadyDiffers
  BY DEF IInv
<1> QED BY <1>1, Invariance, PTL

\* No snapshot is struck for an answer to another one (store.rs:100-124).
THEOREM StrikesAreEarned == Spec => []StrikesEarned
<1>1. IInv => StrikesEarned
  BY DEF IInv
<1> QED BY <1>1, Invariance, PTL

\* A withdrawn version is never active again (store.rs:166-181).
THEOREM RevocationIsFinal == Spec => []RevokedStaysOut
<1>1. IInv => RevokedStaysOut
  BY DEF IInv
<1> QED BY <1>1, Invariance, PTL

\* What promote() may do to a snapshot that still works.
LEMMA PromoteHealthy ==
  ASSUME NEW st \in Store, NEW i, Usable(st, i), ~(st.strikes >= StrikeLimit)
  PROVE  \/ Promote(st, i).active = st.active
         \/ /\ RefreshDue(st, i)
            /\ Promote(st, i).active # None
            /\ Promote(st, i).active.token.issued > st.active.token.issued
<1>1. CASE ~ShouldPromote(st, i)
  BY <1>1 DEF Promote
<1>2. CASE ShouldPromote(st, i)
  <2>1. RefreshDue(st, i) /\ st.ready.token.issued > st.active.token.issued
    BY <1>2 DEF ShouldPromote
  <2>2. st.ready.token \in Tokens
    BY <1>2 DEF ShouldPromote, ReadyUsable, Store, Snapshot
  <2>3. Promote(st, i) = Install(st, st.ready.token)
    BY <1>2 DEF Promote
  <2>4. Promote(st, i).active # None /\ Promote(st, i).active.token = st.ready.token
    <3>1. Install(st, st.ready.token).active
             = [token |-> st.ready.token, version |-> st.version + 1]
      BY <2>2, InstallFields
    <3>2. Install(st, st.ready.token).active # None
      BY <2>2, InstallFields
    <3> QED BY <2>3, <3>1, <3>2
  <2> QED BY <2>1, <2>4
<1> QED BY <1>1, <1>2

\* A working snapshot is replaced only when its refresh is due, and then only by
\* a token issued later, unless a request that carried it was answered with
\* the withdrawal signal (store.rs:89-96, 214-223).
THEOREM HealthyIsKept == Spec => HealthyStays
<1> DEFINE Kept(s, a) == \/ a.active = s.active
                         \/ /\ RefreshDue(s, now)
                            /\ a.active # None
                            /\ a.active.token.issued > s.active.token.issued
           Rejected == \E used \in held : CallReject(used) /\ IsCurrent(store, used)
<1>1. ASSUME IInv, [Next]_vars, Usable(store, now),
             ~(store.strikes >= StrikeLimit), ~Rejected
      PROVE  Kept(store, store')
  <2>1. store \in Store
    BY <1>1 DEF IInv, TypeOK
  <2>2. Kept(store, Promote(store, now))
    BY <1>1, <2>1, PromoteHealthy
  <2>3. CASE Clock \/ UNCHANGED vars
    BY <2>3 DEF Clock, vars
  <2>4. CASE CallAcquire \/ CallNeedsRefresh
    BY <2>2, <2>4 DEF CallAcquire, Acquire, CallNeedsRefresh
  <2>5. ASSUME NEW t \in Tokens, CallOffer(t)
        PROVE  Kept(store, store')
    <3> DEFINE q == Enqueue(store, t)
    <3>1. store' = Offer(store, t, now)
      BY <2>5 DEF CallOffer
    <3>2. CASE store' = store
      BY <3>2
    <3>3. CASE store' # store
      <4>1. store' = Promote(q, now)
        BY <1>1, <3>1, <3>3 DEF Offer
      <4>2. /\ q \in Store /\ q.active = store.active
            /\ q.strikes = store.strikes /\ q.blocks = store.blocks
        BY <2>1, EnqueueFields DEF Enqueue, Store
      <4> HIDE DEF q
      <4>3. Usable(q, now) /\ ~(q.strikes >= StrikeLimit)
        BY <1>1, <4>2 DEF Usable
      <4>4. Kept(q, Promote(q, now))
        BY <4>2, <4>3, PromoteHealthy
      <4> QED BY <4>1, <4>2, <4>4 DEF RefreshDue
    <3> QED BY <3>2, <3>3
  <2>6. ASSUME NEW used \in held, NEW suspect \in BOOLEAN, CallObserve(used, suspect)
        PROVE  Kept(store, store')
    BY <2>1, <2>6 DEF CallObserve, Observe, Store
  <2>7. ASSUME NEW used \in held, CallReject(used)
        PROVE  Kept(store, store')
    BY <1>1, <2>7 DEF CallReject, RejectAndPromote
  <2> QED BY <1>1, <2>3, <2>4, <2>5, <2>6, <2>7 DEF Next
<1>2. IInv /\ [Next]_vars =>
        [ \/ ~Usable(store, now)
          \/ store.strikes >= StrikeLimit
          \/ Rejected
          \/ Kept(store, store') ]_vars
  BY <1>1
<1> QED BY <1>2, Invariance, PTL DEF Spec, HealthyStays

\* A queued renewal that could serve does not wait behind a slot that cannot, or
\* should not.
NotIdle(st, i) == ReadyUsable(st, i) => Usable(st, i) /\ st.strikes < StrikeLimit

\* promote() leaves no renewal idle.
LEMMA PromotedIsNotIdle ==
  ASSUME NEW st \in Store, DiffersIn(st), NEW i
  PROVE  NotIdle(Promote(st, i), i)
<1>1. CASE ShouldPromote(st, i)
  <2>1. st.ready.token \in Tokens
    BY <1>1 DEF ShouldPromote, ReadyUsable, Store, Snapshot
  <2>2. Promote(st, i).ready = None
    BY <1>1, <2>1, InstallFields DEF Promote
  <2> QED BY <2>2 DEF NotIdle, ReadyUsable
<1>2. CASE ~ShouldPromote(st, i)
  <2>1. Promote(st, i) = st
    BY <1>2 DEF Promote
  <2>2. ReadyUsable(st, i) => Usable(st, i) /\ ~(st.strikes >= StrikeLimit)
    BY <1>2 DEF ShouldPromote, DiffersIn, ReadyUsable
  <2>3. st.strikes \in Nat
    BY DEF Store
  <2> QED BY <2>1, <2>2, <2>3 DEF NotIdle, StrikeLimit
<1> QED BY <1>1, <1>2

\* An offer that changes the store leaves no renewal idle.
LEMMA OfferIsNotIdle ==
  ASSUME NEW st \in Store, DiffersIn(st), NEW t \in Tokens, NEW i, Offer(st, t, i) # st
  PROVE  NotIdle(Offer(st, t, i), i)
<1>1. st.active # None => st.active.token.fp # t.fp
  BY DEF Offer
<1>2. CASE ~Usable(st, i)
  <2>1. Offer(st, t, i) = Install(st, t)
    BY <1>2 DEF Offer
  <2> QED BY <2>1, InstallFields DEF NotIdle, ReadyUsable
<1>3. CASE Usable(st, i)
  <2> DEFINE q == Enqueue(st, t)
  <2>1. Offer(st, t, i) = Promote(q, i)
    BY <1>3 DEF Offer
  <2>2. q \in Store /\ q.active = st.active /\ (q.ready = st.ready \/ q.ready.token = t)
    BY EnqueueFields
  <2> HIDE DEF q
  <2>3. DiffersIn(q)
    BY <1>1, <2>2 DEF DiffersIn
  <2> QED BY <2>1, <2>2, <2>3, PromotedIsNotIdle
<1> QED BY <1>2, <1>3

\* After a call that looks at the queue no usable renewal waits behind a slot that
\* is empty, expired or struck out, whatever the clock did in the meantime
\* (the promote() calls at store.rs:50, 96, 129 and 177).
THEOREM NothingStaysIdle == Spec => NothingIdle
<1> DEFINE Looks == \/ CallAcquire \/ CallNeedsRefresh
                    \/ \E t \in Tokens : CallOffer(t)
                    \/ \E used \in held : CallReject(used) /\ IsCurrent(store, used)
<1>1. ASSUME IInv, Looks, ~UNCHANGED vars
      PROVE  NotIdle(store', now)
  <2>1. store \in Store /\ DiffersIn(store)
    BY <1>1 DEF IInv, TypeOK, ReadyDiffers, DiffersIn
  <2>2. CASE CallAcquire \/ CallNeedsRefresh
    BY <2>1, <2>2, PromotedIsNotIdle DEF CallAcquire, CallNeedsRefresh, Acquire
  <2>3. ASSUME NEW t \in Tokens, CallOffer(t)
        PROVE  NotIdle(store', now)
    BY <1>1, <2>1, <2>3, OfferIsNotIdle DEF CallOffer, vars
  <2>4. ASSUME NEW used \in held, CallReject(used), IsCurrent(store, used)
        PROVE  NotIdle(store', now)
    <3>1. Emptied(store) \in Store /\ DiffersIn(Emptied(store))
      BY <2>1 DEF Emptied, Store, DiffersIn
    <3>2. store' = Promote(Emptied(store), now) 
      BY <2>4 DEF CallReject, RejectAndPromote
    <3> QED BY <3>1, <3>2, PromotedIsNotIdle
  <2> QED BY <1>1, <2>2, <2>3, <2>4
<1>2. IInv =>
        [ CallAcquire \/ CallNeedsRefresh \/ (\E t \in Tokens : CallOffer(t))
          \/ (\E used \in held : CallReject(used) /\ IsCurrent(store, used))
          => (ReadyUsable(store', now) =>
                Usable(store', now) /\ store'.strikes < StrikeLimit) ]_vars
  BY <1>1 DEF NotIdle
<1> QED BY <1>2, Invariance, PTL DEF Spec, NothingIdle

\* The store implements the slot of numbered tokens its readers rely on.
THEOREM ImplementsSlot == Spec => IsSlot
<1>1. Init => Slot!Init
  BY DEF Init, NewStore, Slot!Init
<1>2. IInv /\ [Next]_vars => [Slot!Next]_(Slot!slotVars)
  <2> SUFFICES ASSUME IInv, [Next]_vars
               PROVE  [Slot!Next]_(Slot!slotVars)
    OBVIOUS
  <2>1. store \in Store /\ DiffersIn(store)
    BY DEF IInv, TypeOK, ReadyDiffers, DiffersIn
  <2>2. ASSUME NEW t \in Tokens, Installs(store, store', t)
        PROVE  Slot!Fill(t)
    BY <2>1, <2>2, InstallFields DEF Installs, Slot!Fill
  <2>3. CASE store' = Emptied(store)
    BY <2>3 DEF Emptied, Slot!Drop, Slot!Next, Slot!slotVars
  <2>4. CASE store'.active = store.active /\ store'.version = store.version
    BY <2>4 DEF Slot!slotVars
  <2>5. CASE Clock \/ UNCHANGED vars
    BY <2>4, <2>5 DEF Clock, vars
  <2>6. CASE CallAcquire \/ CallNeedsRefresh
    BY <2>1, <2>2, <2>4, <2>6, PromoteEffect
       DEF CallAcquire, Acquire, CallNeedsRefresh, Slot!Next
  <2>7. ASSUME NEW t \in Tokens, CallOffer(t)
        PROVE  [Slot!Next]_(Slot!slotVars)
    BY <2>1, <2>2, <2>4, <2>7, OfferEffect DEF CallOffer, Quiet, Slot!Next
  <2>8. ASSUME NEW used \in held, NEW suspect \in BOOLEAN, CallObserve(used, suspect)
        PROVE  [Slot!Next]_(Slot!slotVars)
    BY <2>1, <2>4, <2>8 DEF CallObserve, Observe, Store
  <2>9. ASSUME NEW used \in held, CallReject(used)
        PROVE  [Slot!Next]_(Slot!slotVars)
    <3>1. CASE IsCurrent(store, used)
      BY <2>1, <2>2, <2>3, <2>9, <3>1, RejectEffect DEF CallReject, Slot!Next
    <3>2. CASE ~IsCurrent(store, used)
      BY <2>4, <2>9, <3>2 DEF CallReject, RejectAndPromote
    <3> QED BY <3>1, <3>2
  <2> QED BY <2>5, <2>6, <2>7, <2>8, <2>9 DEF Next
<1> QED BY <1>1, <1>2, Invariance, PTL DEF Spec, IsSlot, Slot!Spec
=============================================================================
