---------------------------- MODULE MysqlPoolMC ----------------------------
(* MysqlPool on a small instance, for TLC.                                 *)
EXTENDS MysqlPool

CONSTANTS q1, q2, k1

TwoQueries == {q1, q2}
OneCatalog == {k1}
=============================================================================
