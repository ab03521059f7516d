------------------------------ MODULE Answers ------------------------------
(***************************************************************************)
(* What the Rust servers make of what a database returns: rows and their   *)
(* cap, integers and array texts as JSON, descriptions of tables, error    *)
(* messages. Pure definitions, used by Server.                             *)
(*                                                                         *)
(* What the engines return (catalog rows, array texts, messages) is        *)
(* external. Names are numbers, in their sorting order. Left out: floats,  *)
(* dates, JSON and binary columns, columns' types and defaults.            *)
(***************************************************************************)
EXTENDS Integers, Sequences, FiniteSetsExt, SequencesExt

Engines == {"postgres", "mysql", "sqlite", "libsql"}

-----------------------------------------------------------------------------
(* Rows and integers.                                                      *)

\* A 64-bit integer is modelled with Width bits, of which JavaScript keeps
\* SafeMax exactly. MySQL has unsigned ones, too.
Width == 5
SafeMax == 7
Least == -(2^(Width - 1))
Unsigned == 2^Width - 1

\* i.abs(): of an i64 the least one has none, in a release build. The MySQL
\* and Postgres adapters parse into an i128.
AbsOf(engine, i) ==
  IF i < 0 /\ ~(i = Least /\ engine \in {"sqlite", "libsql"}) THEN -i ELSE i

\* to_json of an integer: a number, or its text.
Integer(engine, i) == [kind |-> IF AbsOf(engine, i) <= SafeMax THEN "number" ELSE "string", of |-> i]

Full_OffByOne(rows, maxRows) == Len(rows) > maxRows    \* mutant
Full(rows, maxRows) == Len(rows) >= maxRows

\* run_query's loop: what is answered of the first n rows, for every n.
Fetched(engine, result, maxRows) ==
  LET Loop[n \in 0..Len(result)] ==
        IF n = 0 THEN [rows |-> <<>>, truncated |-> FALSE]
        ELSE IF Full(Loop[n - 1].rows, maxRows) THEN [Loop[n - 1] EXCEPT !.truncated = TRUE]
        ELSE [Loop[n - 1] EXCEPT !.rows = Append(@, Integer(engine, result[n]))]
  IN Loop

RunQuery(engine, result, maxRows) == Fetched(engine, result, maxRows)[Len(result)]

-----------------------------------------------------------------------------
(* Arrays of Postgres.                                                     *)

\* Characters; NULL counts as one.
NullWord == <<"NULL">>
JsonNull == <<"null">>
JsonText(word) == <<"'">> \o word \o <<"'">>

\* One turn of parse_array over the text; the depth stands for the recursion
\* of parse_level. json is what was made so far, word the element being read.
Open(s) == [s EXCEPT !.json = Append(@, "["), !.depth = @ + 1, !.in = "first"]

Close(s) == [s EXCEPT !.json = Append(@, "]"), !.depth = @ - 1,
                      !.in = IF s.depth = 1 THEN "end" ELSE "after"]

Item(s, json) == [s EXCEPT !.json = @ \o json, !.word = <<>>, !.in = "after"]

\* Only an unquoted NULL is null.
BareItem(s) == Item(s, IF s.word = NullWord THEN JsonNull ELSE JsonText(s.word))

After(s, ch) == CASE ch = "," -> [s EXCEPT !.json = Append(@, ","), !.in = "item"]
                  [] ch = "}" -> Close(s)
                  [] OTHER -> [s EXCEPT !.in = "failed"]

Bare(s, ch) == IF ch \in {",", "}"} THEN After(BareItem(s), ch)
                                    ELSE [s EXCEPT !.word = Append(@, ch), !.in = "bare"]

ItemAt(s, ch) == CASE ch = "{" -> Open(s)
                   [] ch = "\"" -> [s EXCEPT !.in = "quoted"]
                   [] OTHER -> Bare(s, ch)

ParseAt(s, ch) ==
  CASE s.in = "start" /\ ch = "{" -> Open(s)
    [] s.in = "first" -> IF ch = "}" THEN Close(s) ELSE ItemAt(s, ch)
    [] s.in = "item" -> ItemAt(s, ch)
    [] s.in = "bare" -> Bare(s, ch)
    [] s.in = "quoted" -> CASE ch = "\\" -> [s EXCEPT !.in = "escape"]
                            [] ch = "\"" -> Item(s, JsonText(s.word))
                            [] OTHER -> [s EXCEPT !.word = Append(@, ch)]
    [] s.in = "escape" -> [s EXCEPT !.word = Append(@, ch), !.in = "quoted"]
    [] s.in = "after" -> After(s, ch)
    [] OTHER -> [s EXCEPT !.in = "failed"]

\* The state after each character.
ParseStart == [in |-> "start", depth |-> 0, json |-> <<>>, word |-> <<>>]
Parsed(text) ==
  LET State[i \in 0..Len(text)] == IF i = 0 THEN ParseStart ELSE ParseAt(State[i - 1], text[i])
  IN State

\* parse_array(): bounds before the first = are skipped; a text that does not
\* parse stays as it is.
ParseArray(text) ==
  LET eq == {i \in DOMAIN text : text[i] = "="}
      body == IF eq # {} /\ Head(text) = "["
                THEN SubSeq(text, Min(eq) + 1, Len(text)) ELSE text
      s == Parsed(body)[Len(body)]
  IN IF s.in = "end" THEN s.json ELSE text

\* Postgres prints an array: quotes where it must, escapes in them, and bounds
\* before the = where they are not the default. An array has rows of words if
\* it has two dimensions, one row of words if not.
Absent == <<"absent">>
Lines(open, parts) ==
  LET Line[n \in 0..Len(parts)] ==
        IF n = 0 THEN <<open>> ELSE Line[n - 1] \o (IF n = 1 THEN <<>> ELSE <<",">>) \o parts[n]
  IN Line
Listing(open, parts, close) == Lines(open, parts)[Len(parts)] \o <<close>>
Nested(a, open, close, Word(_)) ==
  LET Line(words) == Listing(open, [i \in DOMAIN words |-> Word(words[i])], close)
  IN IF a.flat THEN Line(Head(a.rows)) ELSE Listing(open, [i \in DOMAIN a.rows |-> Line(a.rows[i])], close)

Escapes(word) ==
  LET Text[n \in 0..Len(word)] ==
        IF n = 0 THEN <<>>
        ELSE Text[n - 1] \o (IF word[n] \in {"\"", "\\"} THEN <<"\\", word[n]>> ELSE <<word[n]>>)
  IN Text
Escaped(word) == Escapes(word)[Len(word)]
PrintedWord(word) ==
  CASE word = Absent -> NullWord
    [] word \in {<<>>, NullWord} \/ Range(word) \cap {"{", "}", ",", "\"", "\\"} # {} ->
         <<"\"">> \o Escaped(word) \o <<"\"">>
    [] OTHER -> word
Printed(a) == (IF a.bounds THEN <<"[", "0:1", "]", "=">> ELSE <<>>) \o Nested(a, "{", "}", PrintedWord)

\* The array as JSON.
JsonWord(word) == IF word = Absent THEN JsonNull ELSE JsonText(word)
JsonOf(a) == Nested(a, "[", "]", JsonWord)

-----------------------------------------------------------------------------
(* Descriptions of tables.                                                 *)

\* The grouping of every adapter: a row with another name than the one before
\* it starts a new entry.
Entry(name, ref, columns, refColumns) ==
  [name |-> name, ref |-> ref, columns |-> columns, refColumns |-> refColumns]

Starts_Always(entries, row) == TRUE    \* mutant
Starts(entries, row) == entries = <<>> \/ Last(entries).name # row.name

Grown(entries, row) ==
  IF Starts(entries, row)
    THEN Append(entries, Entry(row.name, row.ref, <<row.column>>, <<row.refColumn>>))
    ELSE [entries EXCEPT ![Len(entries)] =
            Entry(@.name, @.ref, Append(@.columns, row.column), Append(@.refColumns, row.refColumn))]

Grouped(rows) ==
  LET Loop[n \in 0..Len(rows)] == IF n = 0 THEN <<>> ELSE Grown(Loop[n - 1], rows[n])
  IN Loop[Len(rows)]

\* The rows of key k, one per column, in order.
RowsOf(k) ==
  [i \in DOMAIN k.columns |-> [name |-> k.name, on |-> k.table, column |-> k.columns[i], pos |-> i,
                               ref |-> k.ref, refColumn |-> k.refColumns[i]]]

\* A finite set in an order: one by one, an element with none before it.
Leading(rest, before) == CHOOSE e \in rest : \A f \in rest : <<f, e>> \notin before
Sorted(set, before) ==
  LET Rest[n \in 0..Cardinality(set)] ==
        IF n = 0 THEN set ELSE LET rest == Rest[n - 1] IN rest \ {Leading(rest, before)}
  IN [n \in 1..Cardinality(set) |-> Leading(Rest[n - 1], before)]
ByName(keys) == Sorted(keys, {pair \in keys \X keys : pair[1].name < pair[2].name})

\* The rows a set of keys gives, in the order of the names, or of the ids.
Listed(keys) == FlattenSeq([i \in DOMAIN ByName(keys) |-> RowsOf(ByName(keys)[i])])

\* The rows of Postgres's query: the columns of a constraint, joined by the
\* constraint's name alone with the columns it refers to.
Joined(keys, table) ==
  LET Named(k) == UNION {Range(RowsOf(l)) : l \in {l \in keys : l.name = k.name}}
      rows == UNION {{[name |-> k.name, column |-> pair[1].column, pos |-> pair[1].pos,
                       ref |-> pair[2].ref, refColumn |-> pair[2].refColumn,
                       on |-> pair[1].on, refOn |-> pair[2].on] : pair \in Named(k) \X Named(k)}
                      : k \in {k \in keys : k.table = table}}
  IN Sorted(rows, {pair \in rows \X rows :
                     \/ pair[1].name < pair[2].name
                     \/ pair[1].name = pair[2].name /\ pair[1].pos < pair[2].pos})

\* describe_table: the foreign keys of a table of a schema.
ForeignKeys(engine, keys, table) ==
  Grouped(IF engine = "postgres" THEN Joined(keys, table)
                                 ELSE Listed({k \in keys : k.table = table}))

\* describe_table: the indexes. Where an index has an expression, Postgres's
\* query has no row, the others have no name; SQLite's adapter fails on it.
Expression == "expression"
WithNames(rows) ==
  LET Kept[n \in 0..Len(rows)] ==
        IF n = 0 THEN <<>> ELSE IF rows[n].column = Expression THEN Kept[n - 1] ELSE Append(Kept[n - 1], rows[n])
  IN Kept[Len(rows)]
Indexes(engine, indexes) ==
  Grouped(IF engine = "postgres" THEN WithNames(Listed(indexes)) ELSE Listed(indexes))
DescribeFails(engine, indexes) ==
  engine = "sqlite" /\ \E ix \in indexes : Expression \in Range(ix.columns)

-----------------------------------------------------------------------------
(* Errors.                                                                 *)

\* A message: what the patterns of server.rs find in it, and what of a
\* password it shows.
Redact(shown, secrets) == (shown \ {"URI"}) \ secrets

\* sanitize_error(): a prefix of ours anywhere in the message goes first.
Sanitized_LayerTwo(m, secrets) ==    \* mutant: the session's messages go first
  CASE "read-only transaction" \in m.has -> [starts |-> "read-only:", shown |-> {}]
    [] "statement timeout" \in m.has -> [starts |-> "timeout:", shown |-> {}]
    [] OTHER -> [starts |-> m.starts, shown |-> Redact(m.shown, secrets)]

Sanitized(m, secrets) ==
  LET foreign == "prefix" \notin m.has
      blocked == "read-only transaction" \in m.has
      late == "statement timeout" \in m.has
  IN CASE foreign /\ blocked -> [starts |-> "read-only:", shown |-> {}]
       [] foreign /\ ~blocked /\ late -> [starts |-> "timeout:", shown |-> {}]
       [] OTHER -> [starts |-> m.starts, shown |-> Redact(m.shown, secrets)]
=============================================================================
