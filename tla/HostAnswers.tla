------------------------------ MODULE HostAnswers ------------------------------
(***************************************************************************)
(* What a call to the host comes to (host.rs), and what a harvest round    *)
(* concludes from a call that failed (probe_once, probe_job).  All it has  *)
(* of the failure is a text, kept here as those words in it that are       *)
(* looked for.                                                             *)
(***************************************************************************)
EXTENDS Answers

\* What tells in a text that the credential is gone: the codes of
\* credential_unavailable(), and the phrases.
Codes == {"auth_unavailable", "auth_not_found", "token_revoked", "refresh_token_invalidated"}
Phrases == {"no auth available", "invalidated oauth token"}

\* An answer of the host: is there a host to call, what it returns, the buffer
\* it hands over, and the envelope in it, whose code is "none" if it has none.
HostAnswer ==
  [kind     : {"host"},
   callable : BOOLEAN,
   rc       : {0, 1},
   buffer   : {"null", "empty", "bytes"},
   envelope : {"garbled", "ok", "error"},
   code     : Codes \cup {"none", "other"},
   says     : SUBSET (Codes \cup Phrases)]  \* in the message, or the garbled text

ASSUME HostAssumption == Of("host") \subseteq HostAnswer

HasBytes(a) == a.callable /\ a.buffer = "bytes"

-----------------------------------------------------------------------------
\* request(): without bytes the return code tells, with bytes they do.
Delivered(a) == a.callable /\ (a.rc = 0 \/ HasBytes(a))

\* Mutant: of an error only the message is kept.
WordsUncoded(a) == a.says

\* request_json(): the code of an error is put before the message, and what is
\* not JSON is quoted.
Words(a) == a.says \cup (IF a.envelope = "error" THEN {a.code} \cap Codes ELSE {})

\* A delivery without bytes is not JSON, and a failure to deliver says nothing.
RequestJson(a) ==
  IF Delivered(a) /\ HasBytes(a)
  THEN [ok |-> a.envelope = "ok", text |-> IF a.envelope = "ok" THEN {} ELSE Words(a)]
  ELSE [ok |-> FALSE, text |-> {}]

\* credential_unavailable()
Unavailable(text) == text \cap (Codes \cup Phrases) # {}

\* probe_once() marks the egress node as failed, probe_job() gives the round up.
BlamesEgress(a) == ~RequestJson(a).ok /\ ~Unavailable(RequestJson(a).text)
GivesUpRound(a) == ~RequestJson(a).ok /\ Unavailable(RequestJson(a).text)

-----------------------------------------------------------------------------
\* When the host says that the credential is gone, in the code of its error or
\* anywhere in the words, with whatever return code, the round ends and the
\* egress node is not blamed; after any other failure the node is, and the round
\* goes on (runtime.rs:387-391, 1493-1506, host.rs:83-92).
GoneCredentialIsSeen ==
  piece.kind = "host" /\ ~RequestJson(piece).ok =>
    LET told == /\ HasBytes(piece)
                /\ \/ piece.envelope = "error" /\ piece.code \in Codes
                   \/ piece.says # {}
    IN  /\ told <=> GivesUpRound(piece)
        /\ told <=> ~BlamesEgress(piece)
=============================================================================
