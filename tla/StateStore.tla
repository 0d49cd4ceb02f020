------------------------------ MODULE StateStore ------------------------------
(***************************************************************************)
(* One StateStore shared by the request path, the harvester and the status *)
(* pages.  Each action is one method call, atomic under the store's mutex. *)
(* Callers keep the snapshots they acquired for as long as they like, so   *)
(* feedback (observe, reject_and_promote) may arrive for a snapshot that   *)
(* has long been replaced.  now_seconds() reads the system clock, which    *)
(* may be set to any instant at any time, backwards included.              *)
(***************************************************************************)
EXTENDS StoreOps

CONSTANTS
  Times,        \* the instants the system clock may show
  MaxVersion,   \* bound: snapshots one store numbers
  MaxBlame      \* bound: suspect answers observed per snapshot

ASSUME BoundAssumption == Times \subseteq Int /\ MaxVersion \in Nat /\ MaxBlame \in Nat

VARIABLES
  store,     \* the Inner behind the mutex
  now,       \* the system clock
  held,      \* snapshots handed out by acquire() and still in use somewhere
  blame,     \* history: suspect answers to requests that carried a version
  revoked    \* history: versions withdrawn by reject_and_promote()

vars == <<store, now, held, blame, revoked>>

Versions == 0..MaxVersion

TypeOK ==
  /\ store \in Store
  /\ now \in Times
  /\ held \subseteq Snapshot
  /\ blame \in [Versions -> Nat]
  /\ revoked \subseteq Nat

Init ==
  /\ \E b \in {t.blocks : t \in Tokens} : store = NewStore(b)
  /\ now \in Times
  /\ held = {}
  /\ blame = [v \in Versions |-> 0]
  /\ revoked = {}

-----------------------------------------------------------------------------
Clock ==
  /\ \E i \in Times : i # now /\ now' = i
  /\ UNCHANGED <<store, held, blame, revoked>>

\* A method that may install a token stays within the version bound.
Room == store.version < MaxVersion

CallAcquire ==
  /\ Room
  /\ store' = Acquire(store, now)
  /\ held' = held \cup ({AcquireResult(store, now)} \ {None})
  /\ UNCHANGED <<now, blame, revoked>>

CallOffer(t) ==
  /\ Room
  /\ store' = Offer(store, t, now)
  /\ UNCHANGED <<now, held, blame, revoked>>

CallObserve(used, suspect) ==
  /\ blame[used.version] < MaxBlame
  /\ store' = Observe(store, suspect, used)
  /\ blame' = IF suspect THEN [blame EXCEPT ![used.version] = @ + 1] ELSE blame
  /\ UNCHANGED <<now, held, revoked>>

CallNeedsRefresh ==
  /\ Room
  /\ store' = Promote(store, now)
  /\ UNCHANGED <<now, held, blame, revoked>>

CallReject(used) ==
  /\ Room
  /\ store' = RejectAndPromote(store, used, now)
  /\ revoked' = IF IsCurrent(store, used) THEN revoked \cup {used.version} ELSE revoked
  /\ UNCHANGED <<now, held, blame>>

Next ==
  \/ Clock
  \/ CallAcquire
  \/ \E t \in Tokens : CallOffer(t)
  \/ \E used \in held, suspect \in BOOLEAN : CallObserve(used, suspect)
  \/ CallNeedsRefresh
  \/ \E used \in held : CallReject(used)

Spec == Init /\ [][Next]_vars

-----------------------------------------------------------------------------
(* Properties.                                                             *)

InUse == held \cup ({store.active} \ {None})

\* A version stands for one token for ever: late feedback that names a version
\* can only mean the token its request really carried (store.rs:117, 168).
VersionNamesToken ==
  /\ \A s, u \in InUse : s.version = u.version => s = u
  /\ \A s \in InUse : s.version <= store.version

\* The queued renewal is never the active token itself: otherwise a revoked
\* token would be promoted right back (store.rs:65-71, 176-177, 204-207).
ReadyDiffers ==
  store.active # None /\ store.ready # None =>
    store.active.token.fp # store.ready.token.fp

\* The strikes of the active snapshot were all earned by answers to requests
\* that carried it (the comment of observe(), store.rs:100-103).
StrikesEarned ==
  store.active # None => store.strikes <= blame[store.active.version]

\* A withdrawn snapshot is never active again: the same token may only come
\* back under a new version, after a new offer.
RevokedStaysOut ==
  store.active # None => store.active.version \notin revoked

\* A snapshot that still works, within its refresh margin and without two
\* strikes, leaves the slot only by being rejected; when a refresh is due it
\* leaves only for a token issued later (store.rs:89-96, 214-223).
HealthyStays ==
  [][ \/ ~Usable(store, now)
      \/ store.strikes >= StrikeLimit
      \/ \E used \in held : CallReject(used) /\ IsCurrent(store, used)
      \/ store'.active = store.active
      \/ /\ RefreshDue(store, now)
         /\ store'.active # None
         /\ store'.active.token.issued > store.active.token.issued
    ]_vars

\* A call that changes the store leaves no usable renewal in the queue while
\* the slot is unusable or struck out: the next request is never sent without
\* a state, or with a bad one, when a good one is at hand (the promote() calls
\* at store.rs:50, 96, 129 and 177).
NothingIdle ==
  [][ CallAcquire \/ CallNeedsRefresh \/ (\E t \in Tokens : CallOffer(t))
      \/ (\E used \in held : CallReject(used) /\ IsCurrent(store, used))
      => (ReadyUsable(store', now) =>
            Usable(store', now) /\ store'.strikes < StrikeLimit)
    ]_vars

\* Through its active snapshot and its version counter the store is a slot of
\* numbered tokens.
Slot == INSTANCE SnapshotSlot WITH slot <- store.active, number <- store.version
IsSlot == Slot!Spec
=============================================================================
