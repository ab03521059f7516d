------------------------------ MODULE ServerMC ------------------------------
(* Server on small inputs, for TLC.                                        *)
EXTENDS Server

Ints == {Least, -SafeMax - 1, -SafeMax, 0, SafeMax, SafeMax + 1, Unsigned}
SomeResults == UNION {[1..n -> Ints] : n \in 0..3} \union {<<0, 0, 0, 0>>}

Characters == {"a", "=", "{", ",", "\"", "\\", "NULL"}
ShortWords == {Absent, <<>>} \union {<<ch>> : ch \in Characters}
Words == ShortWords \union (Characters \X Characters)
SomeArrays ==
  LET Flat(words) == [flat |-> TRUE, rows |-> <<words>>]
      shapes == {Flat(<<>>)} \union {Flat(<<w>>) : w \in Words}
                  \union {Flat(<<v, w>>) : v, w \in ShortWords}
                  \union {[flat |-> FALSE, rows |-> <<<<v>>, <<w>>>>] : v, w \in ShortWords}
  IN {[flat |-> a.flat, rows |-> a.rows, bounds |-> b] : a \in shapes, b \in BOOLEAN}

\* Up to two foreign keys of tables t and u, with one column or two.
Keys ==
  {[name |-> n, table |-> t, ref |-> r, columns |-> <<"a">>, refColumns |-> <<"x">>] :
     n \in 1..2, t \in {"t", "u"}, r \in {"r1", "r2"}}
  \union {[name |-> n, table |-> t, ref |-> r, columns |-> <<"a", "b">>, refColumns |-> <<"y", "x">>] :
     n \in 1..2, t \in {"t", "u"}, r \in {"r1", "r2"}}
\* A name is once in a table.
SomeSchemas ==
  LET twice == {pair \in Keys \X Keys : pair[1] # pair[2] /\ pair[1].name = pair[2].name
                                           /\ pair[1].table = pair[2].table}
  IN {{k, l} : k, l \in Keys} \ {{k, l} : <<k, l>> \in twice}

Index(n, columns) == [name |-> n, table |-> "t", ref |-> "", columns |-> columns, refColumns |-> columns]
SomeIndexSets ==
  LET indexes == {Index(n, c) : n \in 1..2, c \in {<<"a">>, <<"a", "b">>, <<"b", "a">>, <<Expression>>,
                                                   <<"a", Expression>>}}
      twice == {pair \in indexes \X indexes : pair[1] # pair[2] /\ pair[1].name = pair[2].name}
  IN {{}} \union ({{k, l} : k, l \in indexes} \ {{k, l} : <<k, l>> \in twice})
=============================================================================
