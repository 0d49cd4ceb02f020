----------------------------- MODULE MCStateStore -----------------------------
(* A small instance of StateStore: three tokens of the store's shape, one   *)
(* of another shape, and a clock that passes every boundary of accept() and *)
(* of the refresh margin.                                                   *)
EXTENDS StateStore

Token(fp, issued, blocks) == [fp |-> fp, issued |-> issued, blocks |-> blocks]

MCTokens == {Token("a", 0, 10), Token("b", 1, 10), Token("c", 2, 10), Token("team", 1, 12)}
MCTimes == 0..5
=============================================================================
