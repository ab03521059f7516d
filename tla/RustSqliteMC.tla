---------------------------- MODULE RustSqliteMC ----------------------------
(* RustSqlite on a small instance, for TLC.                                *)
EXTENDS RustSqlite

CONSTANTS q1, q2, k1

TwoQueries == {q1, q2}
OneCatalog == {k1}
\* A partial write stands for the second write, too.
SomeStatements == [q \in TwoQueries |->
  IF q = q1 THEN {"write", "begin"} ELSE {"read", "partial", "end"}]
AllEngines == {"sqlite", "libsql", "remote"}
=============================================================================
