----------------------------- MODULE MCBtLink -----------------------------
(* Instances of BtLink small enough for TLC. *)
EXTENDS BtLink

FewLines == {"CONNECTED", "DISCONNECTED"}

\* Of the lines with the same effect (CONNECTED, STATUS, META) one is enough, MAC has
\* none, and a stop made on the phone (STOPPED) is the mirror image of a start.
LineKinds == {"CONNECTED", "DISCONNECTED", "PLAYING"}

=============================================================================
