----------------------------- MODULE MCEgressPool -----------------------------
(* Two nodes; the pool file is missing or half written (no pool), or a later  *)
(* version of it puts another node behind the same url.  Two threads.        *)
EXTENDS EgressPool

A == [url |-> "a", label |-> "A"]
B == [url |-> "b", label |-> "B"]
NewB == [url |-> "b", label |-> "new B"]

MCUrls == {"a", "b"}
MCLabels == {"A", "B", "new B"}
MCPools == {<<>>, <<A, B>>, <<A, NewB>>}
=============================================================================
