------------------------------- MODULE MCAnswers -------------------------------
(* One credential, and beside it the reading of what comes from outside:    *)
(* a piece is read, or the upstream rejects the credential, in any order.   *)
EXTENDS CredentialLimit, TurnState, Scoring, HostAnswers, Identity

\* Every length from below the personal shape to above the team shape.
Header(b, c, p, m) ==
  [kind |-> "header", blanks |-> b, spaced |-> FALSE, core |-> c, pads |-> p,
   clean |-> TRUE, marked |-> m, timely |-> TRUE]
Headers ==
  {Header(0, c, p, TRUE) : c \in 286..334, p \in 0..3}
    \cup {Header(20, c, 0, m) : c \in 288..294, m \in BOOLEAN}

Groups == [letters : BOOLEAN, value : {7, 356}]
TextsRead == {[kind |-> "text", groups |-> g] : g \in UNION {[1..n -> Groups] : n \in 0..4}}

\* The ends of the range of lengths and the minimum of each, to the number.
Tallies ==
  {[kind |-> "tally", expected |-> e, parsed |-> p] :
     e \in {292, 293, 300, 331, 332}, p \in (0..9) \cup (78..82) \cup (159..185) \cup {292, 332}}

HostAnswersRead ==
  {[kind |-> "host", callable |-> c, rc |-> rc, buffer |-> b,
    envelope |-> e, code |-> code, says |-> says] :
     c \in BOOLEAN, rc \in {0, 1}, b \in {"null", "empty", "bytes"},
     e \in {"garbled", "ok", "error"}, code \in {"none", "other", "token_revoked"},
     says \in {{}, {"no auth available"}}}

\* Two credentials; the host names them by id, by index, by both or not at all.
MCIdOf == [a |-> "id of a", b |-> "id of b"]
MCIndexOf == [a |-> "index of a", b |-> "index of b"]
Models == {"astra", "sol"}
Requests ==
  {[kind |-> "request", owner |-> o, id |-> id, index |-> ix, rid |-> rid, model |-> m] :
     o \in {"a", "b"}, id \in {NotGiven, ""} \cup {MCIdOf[x] : x \in {"a", "b"}},
     ix \in {NotGiven, ""} \cup {MCIndexOf[x] : x \in {"a", "b"}},
     rid \in {"request 1", "request 2"}, m \in Models}
Files ==
  {[kind |-> "file", owner |-> o, id |-> id, index |-> ix, model |-> m] :
     o \in {"a", "b"}, id \in {NotGiven} \cup {MCIdOf[x] : x \in {"a", "b"}},
     ix \in {NotGiven} \cup {MCIndexOf[x] : x \in {"a", "b"}}, m \in Models}

\* As NamesAssumption has them.
NamedPieces ==
  {r \in Requests : Truly(r) /\ (r.owner = "a" <=> r.rid = "request 1")}
    \cup {f \in Files : Truly(f) /\ (f.id # NotGiven \/ f.index # NotGiven)}

MCPieces == Headers \cup TextsRead \cup Tallies \cup HostAnswersRead \cup NamedPieces

MCInit == Init /\ AnswersInit

MCNext ==
  \/ Next /\ UNCHANGED piece
  \/ (Read \/ Done) /\ UNCHANGED vars

AnswersSpec == MCInit /\ [][MCNext]_<<vars, piece>>
=============================================================================
