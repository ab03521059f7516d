----------------------------- MODULE PgClientMC -----------------------------
(* PgClient on a small instance, for TLC.                                  *)
EXTENDS PgClient

CONSTANTS q1, q2, q3, k1

ThreeQueries == {q1, q2, q3}
TwoQueries == {q1, q2}
OneCatalog == {k1}
AllStatements == {"read", "bad", "fail", "write", "flip", "begin", "end"}
FewStatements == {"read", "fail", "bad"}
=============================================================================
