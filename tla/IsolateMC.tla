----------------------------- MODULE IsolateMC -----------------------------
(* Isolate on a small instance, for TLC.                                   *)
EXTENDS Isolate

CONSTANTS q1, q2, q3, k1

TwoQueries == {q1, q2}
ThreeQueries == {q1, q2, q3}
OneCatalog == {k1}
=============================================================================
