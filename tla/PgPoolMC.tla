------------------------------ MODULE PgPoolMC ------------------------------
(* PgPool on a small instance, for TLC.                                    *)
EXTENDS PgPool

CONSTANTS q1, q2, q3, k1

ThreeQueries == {q1, q2, q3}
TwoQueries == {q1, q2}
OneCatalog == {k1}
=============================================================================
