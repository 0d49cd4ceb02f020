-------------------------------- MODULE Answers --------------------------------
(***************************************************************************)
(* What the plugin is handed to read, piece after piece and in any order:  *)
(* headers and texts of the upstream's answers, answers of the host.  The  *)
(* modules that extend this one say how a piece of each kind is read.      *)
(***************************************************************************)
CONSTANT Pieces         \* each has a kind

VARIABLE piece          \* the one being read, if any

Nothing == [kind |-> "nothing"]

AnswersInit == piece = Nothing

Read ==
  /\ piece = Nothing
  /\ piece' \in Pieces

Done == piece' = Nothing

Reading == AnswersInit /\ [][Read \/ Done]_piece

Of(kind) == {p \in Pieces : p.kind = kind}
=============================================================================
