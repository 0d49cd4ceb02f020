---------------------------- MODULE CredentialLimit ----------------------------
(***************************************************************************)
(* One CredentialLimit over its life: rejections arrive from the harvester *)
(* and from business responses, in any order and with any Retry-After,     *)
(* while requests ask at any time whether they are withheld.               *)
(***************************************************************************)
EXTENDS LimitOps

CONSTANTS
  RetryAfters,   \* Retry-After values, 0 when the header is missing
  MaxTime        \* bound: the last instant of the clock

ASSUME RetryAssumption == RetryAfters \subseteq Nat /\ MaxTime \in Nat

VARIABLES
  limit,      \* the CredentialLimit
  now,
  answers     \* history: rejections so far, as <<status, deadline>>

vars == <<limit, now, answers>>

TypeOK ==
  /\ limit \in Limit
  /\ now \in 0..MaxTime
  /\ answers \subseteq RejectedStatus \X Int

Init ==
  /\ limit = NewLimit
  /\ now = 0
  /\ answers = {}

Tick ==
  /\ now < MaxTime
  /\ now' = now + 1
  /\ UNCHANGED <<limit, answers>>

\* The instant a rejection asks callers to wait for; a verdict names none.
Deadline(status, retryAfter) ==
  IF status \in Verdicts THEN 0 ELSE now + Longer(retryAfter, RejectCooldown)

Reject(status, retryAfter) ==
  /\ limit' = Limited(limit, status, retryAfter, now)
  /\ answers' = answers \cup {<<status, Deadline(status, retryAfter)>>}
  /\ UNCHANGED now

Next ==
  \/ Tick
  \/ \E status \in RejectedStatus, retryAfter \in RetryAfters : Reject(status, retryAfter)

Spec == Init /\ [][Next]_vars

-----------------------------------------------------------------------------
\* Every deadline the upstream ever set is respected: no later answer, longer
\* or shorter, opens the credential before it, and nothing at all opens it
\* after a verdict (credential.rs:59-76, 82-91).
DeadlinesHonoured ==
  \A a \in answers : a[1] \in Verdicts \/ now < a[2] => Rejecting(limit, now)

\* A credential is withheld for a reason: a verdict, or a deadline ahead.
WithheldForAReason ==
  Rejecting(limit, now) =>
    \E a \in answers : a[1] \in Verdicts \/ (a[1] = 429 /\ now < a[2])

\* The status shown is one the upstream gave, and a verdict is never shown as
\* a rate limit that would pass by itself (credential.rs:67-69, 83-88).
StatusIsTheVerdict ==
  Rejecting(limit, now) =>
    /\ \E a \in answers : a[1] = RejectionStatus(limit, now)
    /\ (\E a \in answers : a[1] \in Verdicts) => RejectionStatus(limit, now) \in Verdicts

=============================================================================
