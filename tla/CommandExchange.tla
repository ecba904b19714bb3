-------------------------- MODULE CommandExchange --------------------------
(***************************************************************************)
(* What the Bluetooth link promises of a PLAY/PAUSE request: there is at   *)
(* most one at a time, it is repeated at most MaxTries times whoever asks  *)
(* for the repetition, and it ends.                                        *)
(***************************************************************************)
EXTENDS Naturals

CONSTANT MaxTries

VARIABLES
  pending,  \* a command waits for its acknowledgement
  want,     \* the playing state asked for
  tries     \* how often the command has been repeated

vars == <<pending, want, tries>>

Init == ~pending /\ want = FALSE /\ tries = 0

Ask(play) ==
  /\ ~pending
  /\ pending' = TRUE /\ want' = play /\ tries' = 0

Repeat(play) ==
  /\ pending /\ tries < MaxTries
  /\ want' = play /\ tries' = tries + 1
  /\ UNCHANGED pending

End ==
  /\ pending
  /\ pending' = FALSE /\ tries' = 0
  /\ UNCHANGED want

Next == \/ \E play \in BOOLEAN : Ask(play) \/ Repeat(play)
        \/ End

SafeSpec == Init /\ [][Next]_vars
Spec == SafeSpec /\ WF_vars(End)
=============================================================================
