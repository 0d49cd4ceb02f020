------------------------------- MODULE LimitOps -------------------------------
(***************************************************************************)
(* fixgpt-core's CredentialLimit as functions of a limit value: what the   *)
(* upstream's 401, 403 and 429 leave behind, and what they forbid.         *)
(***************************************************************************)
EXTENDS Integers

CONSTANT RejectCooldown    \* REJECT_COOLDOWN_SECONDS, every caller's cooldown

ASSUME CooldownAssumption == RejectCooldown \in Nat

\* RejectedStatus: the statuses that are a verdict on the credential.
Verdicts == {401, 403}
RejectedStatus == Verdicts \cup {429}

Limit == [blocked : BOOLEAN, status : RejectedStatus \cup {0}, until : Int]

NewLimit == [blocked |-> FALSE, status |-> 0, until |-> 0]

Longer(a, b) == IF a > b THEN a ELSE b

\* A later, shorter Retry-After overwrites the deadline.
LimitedShortens(l, status, retryAfter, now) ==
  IF status \in Verdicts
  THEN [blocked |-> TRUE, status |-> status, until |-> l.until]
  ELSE [blocked |-> l.blocked,
        status  |-> IF l.blocked THEN l.status ELSE 429,
        until   |-> now + Longer(retryAfter, RejectCooldown)]

\* A 429 takes the place of an earlier verdict's status.
LimitedForgets(l, status, retryAfter, now) ==
  IF status \in Verdicts
  THEN [blocked |-> TRUE, status |-> status, until |-> l.until]
  ELSE [blocked |-> l.blocked,
        status  |-> 429,
        until   |-> Longer(l.until, now + Longer(retryAfter, RejectCooldown))]

\* reject(): the limit after one more rejection.
Limited(l, status, retryAfter, now) ==
  IF status \in Verdicts
  THEN [blocked |-> TRUE, status |-> status, until |-> l.until]
  ELSE [blocked |-> l.blocked,
        status  |-> IF l.blocked THEN l.status ELSE 429,
        until   |-> Longer(l.until, now + Longer(retryAfter, RejectCooldown))]

\* The deadline itself is still withheld.
RejectingInclusive(l, now) == l.blocked \/ now <= l.until

\* rejection(): is some request to be withheld, and with which status.
Rejecting(l, now) == l.blocked \/ now < l.until
RejectionStatus(l, now) == IF l.blocked THEN l.status ELSE 429
=============================================================================
