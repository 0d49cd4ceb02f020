------------------------------ MODULE RuntimeClaims ------------------------------
(***************************************************************************)
(* What the repository's documents and comments say of the service and its *)
(* code does otherwise.  TLC refutes each of these.                        *)
(***************************************************************************)
EXTENDS RuntimeSafety

-----------------------------------------------------------------------------
(* Harvest rounds.                                                         *)

\* An attempt that the upstream refused, for the credential (401, 403, 429) or
\* for overload (5xx), ends the round at once (README.md:21, runtime.rs:59-60,
\* 1397).  An overload only sets the pause, which the round does not look at;
\* and of a rejected replay only the text of the error is kept.
RefusalEndsRound ==
  [][\A p \in Probers :
       prober[p].pc = "judge" /\ prober[p].result \in {"rejected", "overloaded"}
         => prober'[p].pc # "attempt"]_vars

-----------------------------------------------------------------------------
(* The request path.                                                       *)

\* The degradation signal costs the job only the state its request used
\* (runtime.rs:2825-2826).  One that used none costs it all.
OnlyUsedIsDropped ==
  [][\A r \in Requests :
       LET k    == req[r].key
           used == IF inflight[r] = None THEN {} ELSE {inflight[r].snapshot.token}
       IN  (Answers(r) /\ k \in Known) =>
             UsableTokens(StoreOf(k)) \ used \subseteq TokensIn(StoreOf(k)')]_vars
=============================================================================
