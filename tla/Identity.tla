-------------------------------- MODULE Identity --------------------------------
(***************************************************************************)
(* Whose job is it?  The host names a credential by its id or its index,   *)
(* in the metadata of a request and in the list that the scan reads; a     *)
(* request for which it names none goes by its own id.  Jobs, their probes *)
(* and the state file all go by these names.                               *)
(***************************************************************************)
EXTENDS Answers

CONSTANTS
  IdOf, IndexOf      \* the host's id and index of each credential

NotGiven == "absent"

\* A request: the credential the host selected (which the plugin does not see),
\* what the metadata say of it, the id of the request, the model.  A job of the
\* scan stems from an entry of the list.
RequestPiece ==
  [kind : {"request"}, owner : DOMAIN IdOf, id : STRING, index : STRING, rid : STRING, model : STRING]
FilePiece ==
  [kind : {"file"}, owner : DOMAIN IdOf, id : STRING, index : STRING, model : STRING]

Given(name) == name \notin {NotGiven, ""}

\* What the host says of a credential, if anything, is true.
Truly(p) ==
  /\ p.id \in {NotGiven, "", IdOf[p.owner]}
  /\ p.index \in {NotGiven, "", IndexOf[p.owner]}

\* The ids and indexes of the host tell its credentials apart; an entry of the
\* list has a name, or is passed over (codex_auth_files); the id of a request is
\* no name of a credential, and requests of two credentials have two.
ASSUME NamesAssumption ==
  /\ DOMAIN IndexOf = DOMAIN IdOf
  /\ \A o \in DOMAIN IdOf :
       /\ Given(IdOf[o]) /\ Given(IndexOf[o])
       /\ \A other \in DOMAIN IdOf \ {o} :
            {IdOf[o], IndexOf[o]} \cap {IdOf[other], IndexOf[other]} = {}
  /\ Of("request") \subseteq RequestPiece /\ Of("file") \subseteq FilePiece
  /\ \A p \in Of("request") \cup Of("file") : Truly(p)
  /\ \A f \in Of("file") : Given(f.id) \/ (f.id = NotGiven /\ Given(f.index))
  /\ \A r \in Of("request") :
       /\ Given(r.rid)
       /\ \A o \in DOMAIN IdOf : r.rid \notin {IdOf[o], IndexOf[o]}
       /\ \A other \in Of("request") : other.rid = r.rid => other.owner = r.owner

\* Mutant: a request without a name goes by the empty one.
RequestKeyBlank(r) ==
  <<IF r.id # NotGiven THEN r.id ELSE IF Given(r.index) THEN r.index ELSE "", r.model>>

\* request_key(): an id that is there but empty hides the index.
RequestKey(r) ==
  <<IF Given(r.id) THEN r.id
    ELSE IF r.id = NotGiven /\ Given(r.index) THEN r.index ELSE r.rid, r.model>>

\* codex_auth_files(), maybe_auto_harvest()
FileKey(f) == <<IF f.id # NotGiven THEN f.id ELSE f.index, f.model>>

Key(p) == IF p.kind = "request" THEN RequestKey(p) ELSE FileKey(p)

\* The names a job is made with: auth_id(), auth_index().
JobId(p) ==
  IF p.kind = "file" THEN FileKey(p)[1] ELSE IF Given(p.id) THEN p.id ELSE ""
JobIndex(p) == IF Given(p.index) THEN p.index ELSE NotGiven

\* resolve_auth_id_values(): the credential a probe is sent with, as the host
\* understands the name; nobody's when there is none.
Nobody == "nobody"
OwnerOf(name) ==
  IF \E o \in DOMAIN IdOf : name \in {IdOf[o], IndexOf[o]}
  THEN CHOOSE o \in DOMAIN IdOf : name \in {IdOf[o], IndexOf[o]} ELSE Nobody
ProbedWith(p) ==
  IF JobId(p) # "" THEN OwnerOf(JobId(p))
  ELSE IF JobIndex(p) # NotGiven THEN OwnerOf(JobIndex(p)) ELSE Nobody

\* save_states() writes the names of the job, restore_jobs_at() makes the key.
RestoredKey(p) == <<JobId(p), p.model>>

-----------------------------------------------------------------------------
Named == Of("request") \cup Of("file")

\* Whose state a request is served with is a matter of these names alone.
\*   - Requests and scans that share a job are of one credential and one model,
\*     and the job is harvested with that credential or with none: no state
\*     reaches another account by way of a name.
\*   - The state that the background harvest of a credential found is the one
\*     that requests with its id are served with.
\*   - A saved state is found again after a restart by requests of the same id.
\* (request_key, codex_auth_files, resolve_auth_id_values, restore_jobs_at;
\* README.md:20)
KeysTellCredentialsApart ==
  piece.kind \in {"request", "file"} =>
    /\ ProbedWith(piece) \in {piece.owner, Nobody}
    /\ \A p \in Named :
         Key(p) = Key(piece) =>
           p.model = piece.model /\ ProbedWith(p) \in {piece.owner, Nobody}
    /\ piece.kind = "file" /\ piece.id # NotGiven =>
         \A r \in Of("request") :
           r.owner = piece.owner /\ r.model = piece.model /\ Given(r.id) => Key(r) = Key(piece)
    /\ piece.kind = "request" /\ Given(piece.id) => RestoredKey(piece) = Key(piece)
=============================================================================
