----------------------------- MODULE RuntimeSafety -----------------------------
(***************************************************************************)
(* What the service of Runtime promises, whatever the threads, requests    *)
(* and operators do in whatever order.                                     *)
(***************************************************************************)
EXTENDS Runtime

-----------------------------------------------------------------------------
(* Helpers.                                                                *)

\* The stores made for k: the job's own and those it was separated from.
StoresMade(k) == {stores[k][g] : g \in DOMAIN stores[k]}
TokensIn(st) == {st[f].token : f \in {f \in {"active", "ready"} : st[f] # None}}
UsableTokens(st) == {t \in TokensIn(st) : Accept(st.blocks, t, now)}

\* The state the job of k would serve, and whether the file holds just that.
Served(k) == AcquireResult(StoreOf(k), now)
InFile(k) == IF Served(k) = None THEN disk[k] = None
             ELSE disk[k] # None /\ disk[k].token = Served(k).token

\* The response to r is dealt with in this step.
Answers(r) == r \notin observed /\ r \in observed'

\* r is sent with a state in this step.
Injects(r) == inflight[r] = None /\ inflight'[r] # None

-----------------------------------------------------------------------------
(* Types.                                                                  *)

JobType == [account : {"personal", "team"}, next : Nat, limit : Limit,
            seen : {"none", "failed", "degraded", "verified", "revoked"}]

ProberType ==
  [pc : {"idle", "picked", "attempt", "replay", "passed", "judge", "end"},
   key : Keys \cup {None}, store : Nat, start : Nat, budget : Nat, attempt : Nat,
   result : {"none", "settled", "rejected", "overloaded", "degraded", "failed",
             "unavailable", "unrecorded"},
   degraded : BOOLEAN, token : Tokens \cup {None}]

RequestType ==
  [pc : {"new", "admitted", "refused", "looked", "sent", "answered", "done"},
   key : Keys \cup {None}, store : Nat, limit : Limit]

SavedState == [token : Tokens, account : {"personal", "team"}]

ASSUME NoneApart == None \notin JobType /\ None \notin Tokens /\ None \notin SavedState

\* Every variable has its type, a job has a store, a thread at work has a job
\* and a store made for it, and attempts stay within the budget of the round
\* (Job::new, ProbeJob, probe_job's 1..=budget).
TypeOK ==
  /\ now \in Nat /\ pauseUntil \in Nat /\ restarts \in Nat
  /\ enabled \in BOOLEAN /\ gentle \in BOOLEAN
  /\ fallback \in {"strict", "passthrough"}
  /\ jobs \in [Keys -> JobType \cup {None}]
  /\ \A k \in Keys :
       /\ StoresMade(k) \subseteq Store
       /\ (jobs[k] = None) <=> (stores[k] = <<>>)
       /\ disk[k] = None \/ disk[k] \in SavedState
  /\ \A p \in Probers :
       /\ prober[p] \in ProberType
       /\ prober[p].pc # "idle" => prober[p].store \in DOMAIN stores[prober[p].key]
       /\ prober[p].attempt <= prober[p].budget
       /\ (prober[p].pc = "replay") <=> (prober[p].token # None)
  /\ \A r \in Requests :
       /\ req[r] \in RequestType
       /\ req[r].pc = "looked" => req[r].store \in DOMAIN stores[req[r].key]
       /\ inflight[r] = None \/ inflight[r] \in [key : Keys, snapshot : Snapshot]
       /\ modes[r] \in {None, "injected", "fallback-passthrough", "upstream-rejected"}
  /\ observed \subseteq Requests

-----------------------------------------------------------------------------
(* What holds.                                                             *)

\* A state lives only with the account and model it was issued to: in the
\* stores, in the file, and in the requests it is injected into (README.md:20).
StatesStayHome ==
  /\ \A k \in Keys :
       /\ \A st \in StoresMade(k) : TokensIn(st) \subseteq issued[k]
       /\ disk[k] # None => disk[k].token \in issued[k]
  /\ \A r \in Requests :
       inflight[r] # None =>
         /\ inflight[r].key = req[r].key
         /\ inflight[r].snapshot.token \in issued[req[r].key]

\* A verdict or a deadline of the upstream on a job is never softened while
\* the plugin runs: not by a later answer, by a new store, by the end of a
\* round or by a change of the account (CredentialLimit::reject, ensure_job).
LimitNeverLoosens ==
  [][\A k \in Known :
       \/ restarts' # restarts
       \/ /\ jobs'[k] # None
          /\ jobs[k].limit.blocked => jobs'[k].limit.blocked
          /\ jobs'[k].limit.until >= jobs[k].limit.until]_vars

\* A round stops for a rejection, whoever heard of it: once the credential is
\* rejected a thread makes at most the call under way and the replay of the
\* state this call brings (the check after each attempt of probe_job).
NoHammering == \A p \in Probers : late[p] <= 2

\* A response costs the job no usable state but the one its request carried,
\* even after the job has got another store whose versions start anew
\* (reject_and_promote compares the fingerprint too).
AnswerCostsOnlyUsed ==
  [][\A r \in Requests :
       LET k == req[r].key IN
       (Answers(r) /\ inflight[r] # None /\ k \in Known) =>
         UsableTokens(StoreOf(k)) \ {inflight[r].snapshot.token}
           \subseteq TokensIn(StoreOf(k)')]_vars

\* The strikes of a state come from different requests: a streamed response
\* counts once however many chunks it has (runtime.rs:618-621).
StrikesNeedRequests ==
  \A k \in Known :
    StoreOf(k).strikes <= Cardinality({r \in Requests : req[r].pc \in {"answered", "done"}})

\* A state the upstream has withdrawn is not sent again
\* (runtime.rs:2810: going on with it is lasting degradation).
WithdrawnNotInjected ==
  [][\A r \in Requests :
       Injects(r) => inflight'[r].snapshot.token \notin withdrawn[req[r].key]]_vars

\* A restart finds a usable state for each one saved that is still acceptable
\* for the account it was saved with (restore_jobs; runtime.rs:46).
RestartKeepsStates ==
  [][\A k \in Keys :
       (restarts' # restarts /\ disk[k] # None
          /\ Accept(Blocks(disk[k].account), disk[k].token, now))
       => /\ jobs'[k] # None
          /\ AcquireResult(StoreOf(k)', now) # None]_vars

\* A state whose replay passed is not withheld.  The job can serve as soon as it
\* is offered, if the round's store is still the job's; whatever other threads,
\* requests and operators do before it is saved, a job that can serve goes on
\* doing so until time passes, a response is dealt with or the plugin restarts;
\* and once the thread has saved, the file holds what each job serves (offer at
\* runtime.rs:1632, record_observation and save_states after it).
VerifiedServes ==
  [][/\ \A p \in Probers, k \in Known :
          (/\ prober[p].pc = "replay" /\ prober'[p].pc = "passed"
           /\ prober[p].key = k /\ prober[p].store = Len(stores[k])
           /\ Accept(StoreOf(k).blocks, prober[p].token, now))
          => Served(k)' # None
     /\ \A k \in Known :
          (/\ Served(k) # None /\ now' = now /\ restarts' = restarts
           /\ ~ \E r \in Requests : Answered(r))
          => Served(k)' # None
     /\ \A p \in Probers, k \in Known :
          (prober[p].pc = "passed" /\ prober'[p].pc = "judge") => InFile(k)']_vars
=============================================================================
