------------------------------ MODULE MCRuntime ------------------------------
(* Small instances of the service.  One unit of the clock stands for about  *)
(* ten minutes of the code's constants where those matter to a run; their   *)
(* order (a cooldown is shorter than the pause, the margin of renewal is    *)
(* shorter than the life of a state) is kept.                               *)
EXTENDS RuntimeClaims

Token(name, at, size) == [fp |-> name, issued |-> at, blocks |-> size]

OneToken == {Token("a", 0, 10)}
TwoTokens == {Token("a", 0, 10), Token("b", 0, 10)}
TeamToken == {Token("t", 0, 12)}

AllPersonal == [a \in Auths |-> "personal"]
AllTeam == [a \in Auths |-> "team"]
=============================================================================
