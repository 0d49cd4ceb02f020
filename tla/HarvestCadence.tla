---------------------------- MODULE HarvestCadence ----------------------------
(***************************************************************************)
(* What the upstream sees of the harvesters, without the reasons of their  *)
(* choices.  The worker chooses among the jobs that have rested; operators *)
(* begin a round whenever they like.  Whoever does, the job is left alone  *)
(* for a Gap from the beginning of the round on.  Only time wears a rest   *)
(* down, or the upstream's own word on that job.                           *)
(***************************************************************************)
EXTENDS Naturals

CONSTANTS None, Keys, Worker, Operators, Gap

VARIABLES
  chosen,    \* the job the worker is about to take up, or None
  serving,   \* the job each harvester has a round of, or None
  owed,      \* what is left of the Gap that began with the round of each
  rest       \* how long each job is still to be left alone

cadenceVars == <<chosen, serving, owed, rest>>

AllHarvesters == {Worker} \cup Operators

Worn(n) == IF n > 0 THEN n - 1 ELSE 0

\* Only the rest of k may be another one.
OnlyRests(k) == rest' = [rest EXCEPT ![k] = rest'[k]]

Postponed == rest' \in [Keys -> Nat] /\ \A k \in Keys : rest'[k] >= rest[k]

Init ==
  /\ chosen = None
  /\ serving = [h \in AllHarvesters |-> None]
  /\ owed = [h \in AllHarvesters |-> 0]
  /\ rest = [k \in Keys |-> 0]

\* The job has rested; others may be put off on the way to it.
Choose(k) ==
  /\ chosen = None /\ serving[Worker] = None
  /\ rest[k] = 0
  /\ chosen' = k
  /\ Postponed /\ rest'[k] = 0
  /\ UNCHANGED <<serving, owed>>

LetGo ==
  /\ chosen # None /\ chosen' = None
  /\ UNCHANGED <<serving, owed, rest>>

\* h comes to k: the worker to the job it chose, an operator to any.
ComesTo(h, k) ==
  /\ serving[h] = None
  /\ IF h = Worker THEN chosen = k /\ chosen' = None ELSE UNCHANGED chosen
  /\ OnlyRests(k) /\ rest'[k] \in Nat /\ rest'[k] >= Gap

\* The credential turns out to be rejected.
TurnBack(h, k) ==
  /\ ComesTo(h, k)
  /\ UNCHANGED <<serving, owed>>

Begin(h, k) ==
  /\ ComesTo(h, k)
  /\ serving' = [serving EXCEPT ![h] = k]
  /\ owed' = [owed EXCEPT ![h] = Gap]

End(h, k) ==
  /\ serving[h] = k
  /\ serving' = [serving EXCEPT ![h] = None]
  /\ OnlyRests(k) /\ rest'[k] \in Nat /\ rest'[k] >= owed[h]
  /\ owed' = [owed EXCEPT ![h] = 0]
  /\ UNCHANGED chosen

\* A job, or several of them, are put off.
Postpone ==
  /\ UNCHANGED <<chosen, serving, owed>>
  /\ Postponed

\* The upstream withdraws the state of k, or rejects its credential.
Heard(k) ==
  /\ UNCHANGED <<chosen, serving, owed>>
  /\ OnlyRests(k) /\ rest'[k] \in Nat

TimePasses ==
  /\ rest' = [k \in Keys |-> Worn(rest[k])]
  /\ owed' = [h \in AllHarvesters |-> Worn(owed[h])]
  /\ UNCHANGED <<chosen, serving>>

Next ==
  \/ Postpone
  \/ TimePasses
  \/ LetGo
  \/ \E k \in Keys :
       \/ Heard(k)
       \/ Choose(k)
       \/ \E h \in AllHarvesters : TurnBack(h, k) \/ Begin(h, k) \/ End(h, k)

Spec == Init /\ [][Next]_cadenceVars
=============================================================================
