--------------------------- MODULE MCAudioBuffer ---------------------------
(* Small instances of AudioBuffer for TLC. *)
EXTENDS AudioBuffer
=============================================================================
