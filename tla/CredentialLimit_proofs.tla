------------------------ MODULE CredentialLimit_proofs ------------------------
(***************************************************************************)
(* Proofs about CredentialLimit for every cooldown and every Retry-After.  *)
(* The invariants speak about all answers of the past while the limit      *)
(* keeps three fields; Summary says how those fields sum the answers up.   *)
(***************************************************************************)
EXTENDS CredentialLimit, TLAPS

Summary ==
  /\ limit.blocked <=> \E a \in answers : a[1] \in Verdicts
  /\ limit.blocked => limit.status \in Verdicts /\ \E a \in answers : a[1] = limit.status
  /\ \A a \in answers : IF a[1] \in Verdicts THEN a[2] = 0 ELSE a[2] <= limit.until
  /\ \/ limit.until = 0
     \/ \E a \in answers : a[1] = 429 /\ a[2] = limit.until

IInv == TypeOK /\ Summary

\* What one more rejection does to the fields.
LEMMA LimitedFields ==
  ASSUME NEW l \in Limit, NEW status \in RejectedStatus, NEW r \in Nat, NEW i \in Nat
  PROVE  LET after == Limited(l, status, r, i) IN
         /\ after \in Limit
         /\ status \in Verdicts =>
              after.blocked /\ after.status = status /\ after.until = l.until
         /\ status \notin Verdicts =>
              /\ after.blocked = l.blocked
              /\ l.blocked => after.status = l.status
              /\ after.until >= l.until
              /\ after.until >= i + Longer(r, RejectCooldown)
              /\ \/ after.until = l.until
                 \/ after.until = i + Longer(r, RejectCooldown)
<1> DEFINE d == i + Longer(r, RejectCooldown)
<1>1. d \in Int
  BY CooldownAssumption DEF Longer
<1>2. l.until \in Int /\ l.blocked \in BOOLEAN /\ l.status \in RejectedStatus \cup {0}
  BY DEF Limit
<1>3. CASE status \in Verdicts
  BY <1>2, <1>3 DEF Limited, Limit
<1>4. CASE status \notin Verdicts
  <2> DEFINE u == Longer(l.until, d)
  <2>1. u \in Int /\ u >= l.until /\ u >= d /\ (u = l.until \/ u = d)
    BY <1>1, <1>2 DEF Longer
  <2>2. Limited(l, status, r, i)
          = [blocked |-> l.blocked,
             status |-> IF l.blocked THEN l.status ELSE 429, until |-> u]
    BY <1>4 DEF Limited
  <2>3. 429 \in RejectedStatus
    BY DEF RejectedStatus
  <2> HIDE DEF u, d
  <2>4. Limited(l, status, r, i) \in Limit
    BY <1>2, <2>1, <2>2, <2>3 DEF Limit
  <2> QED BY <1>4, <2>1, <2>2, <2>4 DEF d
<1> QED BY <1>3, <1>4

LEMMA InitInv == Init => IInv
<1> SUFFICES ASSUME Init PROVE IInv
  OBVIOUS
<1>1. limit \in Limit
  BY DEF Init, NewLimit, Limit
<1>2. now \in 0..MaxTime
  BY RetryAssumption DEF Init
<1>3. limit.blocked = FALSE /\ limit.until = 0
  BY DEF Init, NewLimit
<1> QED BY <1>1, <1>2, <1>3 DEF Init, IInv, TypeOK, Summary

LEMMA NextInv == IInv /\ [Next]_vars => IInv'
<1> SUFFICES ASSUME IInv, [Next]_vars PROVE IInv'
  OBVIOUS
<1>1. CASE Tick
  BY <1>1, RetryAssumption DEF Tick, IInv, TypeOK, Summary
<1>2. CASE UNCHANGED vars
  BY <1>2 DEF vars, IInv, TypeOK, Summary
<1>3. ASSUME NEW status \in RejectedStatus, NEW r \in RetryAfters, Reject(status, r)
      PROVE  IInv'
  <2> DEFINE a0 == <<status, Deadline(status, r)>>
  <2>1. r \in Nat /\ now \in Nat /\ limit \in Limit
    BY RetryAssumption DEF IInv, TypeOK
  <2>2. limit' = Limited(limit, status, r, now) /\ answers' = answers \cup {a0}
    BY <1>3 DEF Reject
  <2>3. Deadline(status, r) \in Int
    BY <2>1, CooldownAssumption DEF Deadline, Longer
  <2>4. TypeOK'
    <3>1. limit' \in Limit
      BY <2>1, <2>2, LimitedFields
    <3> QED BY <1>3, <2>2, <2>3, <3>1 DEF Reject, IInv, TypeOK
  <2>5. Summary'
    <3>1. a0 \in answers' /\ a0[1] = status /\ a0[2] = Deadline(status, r)
      BY <2>2
    <3>2. \A a \in answers' : a \in answers \/ a = a0
      BY <2>2
    <3>3. answers \subseteq answers'
      BY <2>2
    <3> HIDE DEF a0
    <3>4. CASE status \in Verdicts
      <4>1. limit'.blocked /\ limit'.status = status /\ limit'.until = limit.until
        BY <2>1, <2>2, <3>4, LimitedFields
      <4>2. Deadline(status, r) = 0
        BY <3>4 DEF Deadline
      <4> QED BY <3>1, <3>2, <3>3, <3>4, <4>1, <4>2 DEF IInv, Summary
    <3>5. CASE status \notin Verdicts
      <4>1. status = 429
        BY <3>5 DEF RejectedStatus
      <4>2. Deadline(status, r) = now + Longer(r, RejectCooldown)
        BY <3>5 DEF Deadline
      <4>3. /\ limit'.blocked = limit.blocked
            /\ limit.blocked => limit'.status = limit.status
            /\ limit'.until >= limit.until
            /\ limit'.until >= a0[2]
            /\ limit'.until = limit.until \/ limit'.until = a0[2]
        BY <2>1, <2>2, <3>1, <3>5, <4>2, LimitedFields
      <4>4. \A a \in answers : a[2] \in Int
        BY DEF IInv, TypeOK
      <4>5. limit.until \in Int /\ limit'.until \in Int
        BY <2>1, <2>4 DEF TypeOK, Limit
      <4>6. limit'.blocked <=> \E a \in answers' : a[1] \in Verdicts
        BY <3>1, <3>2, <3>3, <3>5, <4>3 DEF IInv, Summary
      <4>7. limit'.blocked => /\ limit'.status \in Verdicts
                              /\ \E a \in answers' : a[1] = limit'.status
        BY <3>3, <4>3 DEF IInv, Summary
      <4>8. \A a \in answers' : IF a[1] \in Verdicts THEN a[2] = 0 ELSE a[2] <= limit'.until
        <5> SUFFICES ASSUME NEW a \in answers'
                     PROVE  IF a[1] \in Verdicts THEN a[2] = 0 ELSE a[2] <= limit'.until
          OBVIOUS
        <5>1. CASE a \in answers
          BY <4>3, <4>4, <4>5, <5>1 DEF IInv, Summary
        <5>2. CASE a = a0
          BY <3>1, <3>5, <4>3, <5>2
        <5> QED BY <3>2, <5>1, <5>2
      <4>9. \/ limit'.until = 0
            \/ \E a \in answers' : a[1] = 429 /\ a[2] = limit'.until
        BY <3>1, <3>3, <4>1, <4>3 DEF IInv, Summary
      <4> QED BY <4>6, <4>7, <4>8, <4>9 DEF Summary
    <3> QED BY <3>4, <3>5
  <2> QED BY <2>4, <2>5 DEF IInv
<1> QED BY <1>1, <1>2, <1>3 DEF Next

LEMMA Invariance == Spec => []IInv
BY InitInv, NextInv, PTL DEF Spec

\* No answer shortens what an earlier one asked for, and nothing lifts a
\* verdict (credential.rs:59-76, 82-91).
THEOREM DeadlinesAreHonoured == Spec => []DeadlinesHonoured
<1>1. IInv => DeadlinesHonoured
  <2> SUFFICES ASSUME IInv, NEW a \in answers, a[1] \in Verdicts \/ now < a[2]
               PROVE  Rejecting(limit, now)
    BY DEF DeadlinesHonoured
  <2>1. now \in Int /\ limit.until \in Int /\ a[2] \in Int
    BY RetryAssumption DEF IInv, TypeOK, Limit
  <2> QED BY <2>1 DEF IInv, Summary, Rejecting
<1> QED BY <1>1, Invariance, PTL

\* A credential that was never rejected, or whose deadlines have passed, is
\* open (credential.rs:82-91).
THEOREM WithheldOnlyForAReason == Spec => []WithheldForAReason
<1>1. IInv => WithheldForAReason
  <2>1. ASSUME IInv PROVE now >= 0 /\ now \in Int
    BY <2>1, RetryAssumption DEF IInv, TypeOK
  <2> QED BY <2>1 DEF IInv, Summary, WithheldForAReason, Rejecting
<1> QED BY <1>1, Invariance, PTL

\* The status shown for a withheld credential is one the upstream gave, and
\* after a verdict it is a verdict (credential.rs:67-69, 83-88).
THEOREM StatusIsHonest == Spec => []StatusIsTheVerdict
<1>1. IInv => StatusIsTheVerdict
  <2> SUFFICES ASSUME IInv, Rejecting(limit, now) PROVE
               /\ \E a \in answers : a[1] = RejectionStatus(limit, now)
               /\ (\E a \in answers : a[1] \in Verdicts) =>
                    RejectionStatus(limit, now) \in Verdicts
    BY DEF StatusIsTheVerdict
  <2>1. now >= 0 /\ now \in Int
    BY RetryAssumption DEF IInv, TypeOK
  <2> QED BY <2>1 DEF IInv, Summary, Rejecting, RejectionStatus
<1> QED BY <1>1, Invariance, PTL
=============================================================================
