---------------------------- MODULE MCTdaConfig ----------------------------
(* Small instances of TdaConfig for TLC. *)
EXTENDS TdaConfig

MainLevels == {30}

\* Where the volume itself is of no interest: the level a save sets anyway.
SavedLevel == {87}
=============================================================================
