------------------------------- MODULE StoreOps -------------------------------
(***************************************************************************)
(* The operations of fixgpt-core's StateStore as functions of a store      *)
(* value, the instant `now` and their argument.  A store keeps one active  *)
(* snapshot, one queued renewal ("ready"), the version counter and the     *)
(* strikes of the active snapshot.  Each method of the Rust type takes the *)
(* store's mutex for its whole body, so one method is one function here:   *)
(* the operator named for the method is the store the method leaves        *)
(* behind, and the operators ending in Result are what it returns.         *)
(*                                                                         *)
(* A token is a record: fp (its fingerprint), issued (issued_at) and       *)
(* blocks (the number of cipher blocks, which tells a personal state from  *)
(* a team state).  `candidates` counts calls for the status page only and  *)
(* is left out.                                                            *)
(***************************************************************************)
EXTENDS Integers

CONSTANTS
  None,            \* Rust's Option::None
  Tokens,          \* every turn-state value the upstream may issue
  TTL,             \* StatePolicy.ttl_seconds
  RefreshBefore,   \* StatePolicy.refresh_before_seconds
  Skew             \* the 30 seconds of clock skew written into accept()

\* The strikes at which an active snapshot is given up (store.rs:135, 221).
StrikeLimit == 2

Snapshot == [token : Tokens, version : Nat]

Store == [blocks  : Nat,
          active  : Snapshot \cup {None},
          ready   : Snapshot \cup {None},
          version : Nat,
          strikes : Nat]

ASSUME TokenAssumption ==
  /\ \A t \in Tokens : t.issued \in Int /\ t.blocks \in Nat
  \* A fingerprint is the SHA-256 of the value: it identifies the token.
  /\ \A s, t \in Tokens : s.fp = t.fp => s = t

ASSUME NoneAssumption == None \notin Snapshot

ASSUME TimeAssumption ==
  /\ TTL \in Nat /\ RefreshBefore \in Nat /\ Skew \in Nat
  /\ Skew <= RefreshBefore /\ RefreshBefore <= TTL

NewStore(blocks) ==
  [blocks |-> blocks, active |-> None, ready |-> None,
   version |-> 0, strikes |-> 0]

-----------------------------------------------------------------------------
(* StatePolicy::accept and the conditions the methods share.               *)

Accept(blocks, t, now) ==
  /\ t.blocks = blocks
  /\ t.issued <= now + Skew
  /\ now < t.issued + (TTL - Skew)

Usable(st, now) == st.active # None /\ Accept(st.blocks, st.active.token, now)
ReadyUsable(st, now) == st.ready # None /\ Accept(st.blocks, st.ready.token, now)

RefreshDue(st, now) ==
  st.active # None /\ now + RefreshBefore > st.active.token.issued + TTL

\* Only the version is compared.
IsCurrentByVersion(st, used) ==
  st.active # None /\ st.active.version = used.version

\* `used` is the very snapshot that is active now.
IsCurrent(st, used) ==
  /\ st.active # None
  /\ st.active.version = used.version
  /\ st.active.token.fp = used.token.fp

-----------------------------------------------------------------------------
(* promote(): the queued renewal takes over.                               *)

\* A renewal takes over as soon as it is newer, due or not.
ShouldPromoteEager(st, now) ==
  /\ ReadyUsable(st, now)
  /\ st.active # None => st.active.token.fp # st.ready.token.fp
  /\ \/ ~Usable(st, now)
     \/ st.strikes >= StrikeLimit
     \/ st.ready.token.issued > st.active.token.issued

ShouldPromote(st, now) ==
  /\ ReadyUsable(st, now)
  /\ st.active # None => st.active.token.fp # st.ready.token.fp
  /\ \/ ~Usable(st, now)
     \/ st.strikes >= StrikeLimit
     \/ RefreshDue(st, now) /\ st.ready.token.issued > st.active.token.issued

\* The version counter is not advanced.
InstallSameVersion(st, t) ==
  [st EXCEPT !.active  = [token |-> t, version |-> st.version],
             !.ready   = None,
             !.strikes = 0]

\* The strikes of the previous snapshot are kept.
InstallKeepStrikes(st, t) ==
  [st EXCEPT !.version = st.version + 1,
             !.active  = [token |-> t, version |-> st.version + 1],
             !.ready   = None]

\* A token becomes active under the next version; the queue and the strikes
\* are cleared.  offer() and promote() do this with the same assignments.
Install(st, t) ==
  [blocks  |-> st.blocks,
   active  |-> [token |-> t, version |-> st.version + 1],
   ready   |-> None,
   version |-> st.version + 1,
   strikes |-> 0]

Promote(st, now) ==
  IF ShouldPromote(st, now) THEN Install(st, st.ready.token) ELSE st

-----------------------------------------------------------------------------
(* The methods.                                                            *)

Acquire(st, now) == Promote(st, now)
AcquireResult(st, now) ==
  LET after == Promote(st, now)
  IN  IF Usable(after, now) THEN after.active ELSE None

\* The queue keeps the newest renewal; a queued snapshot has no version yet.
Enqueue(st, t) ==
  IF st.ready = None \/ t.issued >= st.ready.token.issued
  THEN [st EXCEPT !.ready = [token |-> t, version |-> 0]]
  ELSE st

\* The token that is already active is queued behind itself.
OfferSame(st, t, now) ==
  IF ~Accept(st.blocks, t, now) THEN st
  ELSE IF ~Usable(st, now) THEN Install(st, t)
  ELSE Promote(Enqueue(st, t), now)

Offer(st, t, now) ==
  IF ~Accept(st.blocks, t, now) THEN st
  ELSE IF st.active # None /\ st.active.token.fp = t.fp THEN st
  ELSE IF ~Usable(st, now) THEN Install(st, t)
  ELSE Promote(Enqueue(st, t), now)
OfferResult(st, t, now) == Accept(st.blocks, t, now)

\* A response to a request that carried `used`; `suspect` says that the value
\* in the response does not parse or is not acceptable.
Observe(st, suspect, used) ==
  IF IsCurrent(st, used)
  THEN [st EXCEPT !.strikes = IF suspect THEN st.strikes + 1 ELSE 0]
  ELSE st

NeedsRefreshResult(st, now) ==
  LET after == Promote(st, now)
  IN  \/ ~Usable(after, now)
      \/ after.strikes >= StrikeLimit
      \/ RefreshDue(after, now)

Emptied(st) ==
  [blocks |-> st.blocks, active |-> None, ready |-> st.ready,
   version |-> st.version, strikes |-> 0]

\* The degradation signal counts as one more suspicious response.
RejectStrikes(st, used, now) ==
  IF IsCurrent(st, used)
  THEN Promote([st EXCEPT !.strikes = st.strikes + 1], now)
  ELSE st

\* The queued renewal is not looked at after the active snapshot is dropped.
RejectOnly(st, used, now) ==
  IF IsCurrent(st, used) THEN Emptied(st) ELSE st

RejectAndPromote(st, used, now) ==
  IF IsCurrent(st, used)
  THEN Promote(Emptied(st), now)
  ELSE st
=============================================================================
