----------------------------- MODULE MCDspTask -----------------------------
(***************************************************************************)
(* What happens in the behaviours TLC looks at: two browsers and a file    *)
(* that is replaced; a user at the knob beside one browser; delayed        *)
(* actions.                                                                *)
(***************************************************************************)
EXTENDS DspTask

CONSTANTS c1, c2, Turns

Scenario(turns, readers, rewrites, sleepers) ==
  [turns |-> turns, readers |-> readers, rewrites |-> rewrites, sleepers |-> sleepers]

MCScenarios ==
  {Scenario(0, {c1, c2}, TRUE, FALSE), Scenario(Turns, {c1}, FALSE, FALSE),
   Scenario(1, {}, FALSE, TRUE)}

MCDelays == 1..3
=============================================================================
