---------------------------- MODULE MCWebImport ----------------------------
(* An instance of WebImport small enough for TLC. *)
EXTENDS WebImport

CONSTANTS u1, u2

TwoUploads == {u1, u2}

\* The pairs whose meeting differs: which of the two comes first is left open anyway, and
\* what arrives in part may turn out to be in neither format.
Pairs == { [u \in TwoUploads |-> IF u = u1 THEN p[1] ELSE p[2]] :
             p \in {<<"csv", "json">>, <<"csv", "wifi">>, <<"json", "board">>} }
=============================================================================
