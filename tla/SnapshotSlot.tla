----------------------------- MODULE SnapshotSlot -----------------------------
(***************************************************************************)
(* What the readers of a StateStore may rely on, without the queue, the    *)
(* strikes or the clock: a slot that holds at most one numbered token.     *)
(* The slot is emptied or refilled; a token that enters it is another one  *)
(* than the one it replaces and gets the next number, so a number never    *)
(* comes back and a late answer can tell whether "its" token is still the  *)
(* one in the slot.                                                        *)
(***************************************************************************)
EXTENDS Naturals

CONSTANTS None, Tokens

VARIABLES
  slot,      \* None, or the token in the slot with its number
  number     \* the last number given out

slotVars == <<slot, number>>

Init ==
  /\ slot = None
  /\ number = 0

Fill(t) ==
  /\ slot # None => slot.token # t
  /\ number' = number + 1
  /\ slot' = [token |-> t, version |-> number + 1]

Drop ==
  /\ slot # None
  /\ slot' = None
  /\ UNCHANGED number

Next ==
  \/ \E t \in Tokens : Fill(t)
  \/ Drop

Spec == Init /\ [][Next]_slotVars
=============================================================================
