------------------------------ MODULE ByteFifo ------------------------------
(***************************************************************************)
(* What the ring buffer of the audio engine promises to the stream that    *)
(* fills it and to the decoder that empties it: bytes come out in the      *)
(* order in which they went in, none twice and none left out.  The bytes   *)
(* of a play are numbered from 0.                                          *)
(***************************************************************************)
EXTENDS Naturals, Sequences

CONSTANT Capacity   \* the most bytes that can wait

VARIABLES
  sent,             \* bytes put in so far
  taken,            \* bytes consumed, or dropped by a reset
  block             \* the bytes the decoder is working on

Init == sent = 0 /\ taken = 0 /\ block = <<>>

Put ==
  /\ sent' > sent /\ sent' <= taken + Capacity
  /\ UNCHANGED <<taken, block>>

\* The decoder gets some of the bytes that wait, the oldest first.
Offer ==
  /\ block = <<>>
  /\ \E n \in 1..(sent - taken) : block' = [i \in 1..n |-> taken + i - 1]
  /\ UNCHANGED <<sent, taken>>

\* It consumes some of what it was given and lets go of the rest.
Take ==
  /\ taken' \in {taken} \cup {taken + i : i \in DOMAIN block} /\ block' = <<>>
  /\ UNCHANGED sent

Reset == taken' = sent /\ block' = <<>> /\ UNCHANGED sent

Next == Put \/ Offer \/ Take \/ Reset
=============================================================================
