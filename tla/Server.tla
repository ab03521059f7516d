------------------------------- MODULE Server -------------------------------
(***************************************************************************)
(* A Rust server from its command line to its answers (core/rust/src/      *)
(* server.rs): it loads its configuration, connects, and answers tool      *)
(* calls: guard, adapter, conversion of the result, error message.         *)
(*                                                                         *)
(* This module follows one call at a time: what calls do to each other is  *)
(* the adapters' matter (PgClient, MysqlPool, RustSqlite), and so is       *)
(* what the guard makes of a text (SqlGuard). Inputs are given one by one  *)
(* before the start.                                                       *)
(*                                                                         *)
(* Left out: the MCP protocol, list_tables, HTTP sessions.                 *)
(***************************************************************************)
EXTENDS Config, Answers, FiniteSets

CONSTANTS MaxGiven,     \* bound: inputs given besides the config file
          Results,      \* results of a query, as sequences of integers
          Arrays,       \* arrays that a Postgres table holds
          Schemas,      \* sets of foreign keys of a schema
          IndexSets     \* sets of indexes of a table

ASSUME ResultsAssumption == Results \subseteq Seq(Int)

\* An array is a row of words, or some rows of them.
ASSUME ArraysAssumption ==
  \A a \in Arrays :
     /\ a.flat \in BOOLEAN /\ a.bounds \in BOOLEAN
     /\ a.rows \in Seq(Seq(Seq(STRING)))
     /\ a.flat => a.rows # <<>>

\* Keys and indexes have columns; a name is once in a table.
Catalogued(keys) ==
  /\ IsFiniteSet(keys)
  /\ \A k \in keys :
       /\ k.name \in Nat
       /\ k.columns \in Seq(STRING) \ {<<>>}
       /\ k.refColumns \in Seq(STRING)
       /\ Len(k.refColumns) = Len(k.columns)
  /\ \A k, l \in keys : k.name = l.name /\ k.table = l.table => k = l

ASSUME CatalogsAssumption ==
  /\ \A keys \in Schemas : Catalogued(keys)
  /\ \A indexes \in IndexSets : Catalogued(indexes) /\ \A ix \in indexes : ix.table = "t"

VARIABLES
  phase,    \* "setup", "serving", "exited"
  given,    \* what flags, the config file and the environment say
  server,   \* the engine, and what the server keeps of its configuration
  asked,    \* the call in progress: what the database has for it
  answer,   \* the tool result, if the call has one
  shown     \* what of a password the last output shows

vars == <<phase, given, server, asked, answer, shown>>

NoAsk == [cause |-> None, result |-> <<>>, array |-> {}, keys |-> {}, indexes |-> {}]
NoAnswer == [starts |-> None, rows |-> <<>>, truncated |-> FALSE, array |-> <<>>,
             foreignKeys |-> <<>>, indexes |-> <<>>]
NoServer == [engine |-> None, readOnly |-> TRUE, maxRows |-> 0, secrets |-> {}, known |-> {}]

Init ==
  /\ phase = "setup"
  /\ \E flag, env \in {None} \union Texts.config :
       given = [NothingGiven EXCEPT ![<<"flag", "config">>] = flag, ![<<"env", "config">>] = env]
  /\ server = NoServer
  /\ asked = NoAsk
  /\ answer = NoAnswer
  /\ shown = {}

-----------------------------------------------------------------------------
(* The start.                                                              *)

GivenInputs == {i \in Inputs : i[2] # "config" /\ given[i] # None}
FileInUse(g) == OrElse(Options(g, "config", FALSE)) = "readable"

\* Somebody sets up one more input.
Give(i, text) ==
  /\ phase = "setup"
  /\ i[2] # "config" /\ given[i] = None
  /\ Cardinality(GivenInputs) < MaxGiven
  /\ i[1] = "file" => FileInUse(given)
  /\ given' = [given EXCEPT ![i] = text]
  /\ UNCHANGED <<phase, server, asked, answer, shown>>

\* What the drivers know of a password, and may echo.
Known(c) == (IF c.dsn = "dsn with password" THEN {"URI", "raw", "decoded"} ELSE {})
              \union ({c.password} \ {None})

\* log() and --print-config go through redact(); the process ends.
Exit(text, secrets) ==
  /\ phase' = "exited"
  /\ shown' = Redact(text, secrets)
  /\ UNCHANGED server

\* run(): load_config, then --print-config, or connect and serve. What was
\* given is read once.
Start ==
  LET c == Load(given) IN
    /\ phase = "setup"
    /\ given' = NothingGiven
    /\ \/ c.error # None /\ Exit({}, c.secrets)
       \/ c.error = None /\ Exit(Known(c) \intersect {"URI"}, c.secrets)    \* --print-config
       \/ /\ c.error = None    \* connection failed
          /\ \E text \in SUBSET Known(c) : Exit(text, c.secrets)
       \/ c.error = None /\ c.type = "http" /\ Exit({}, c.secrets)    \* cannot bind the port
       \/ /\ c.error = None
          /\ phase' = "serving"
          /\ \E engine \in Engines :
               server' = [engine |-> engine, readOnly |-> c.readOnly, maxRows |-> c.maxRows,
                          secrets |-> c.secrets, known |-> Known(c)]
          /\ shown' = {}
    /\ UNCHANGED <<asked, answer>>

-----------------------------------------------------------------------------
(* Tool calls.                                                             *)

\* call_tool: ask holds what the database has for the call.
Reply(ask, result, text) ==
  /\ phase = "serving" /\ asked = NoAsk
  /\ asked' = ask
  /\ answer' = result
  /\ shown' = text
  /\ UNCHANGED <<phase, given, server>>

Ok == [NoAnswer EXCEPT !.starts = "ok"]
Failed(starts) == [NoAnswer EXCEPT !.starts = starts]
Because(cause) == [NoAsk EXCEPT !.cause = cause]

\* guard_sql blocks the text.
Blocked ==
  \/ Reply(Because("several statements"), Failed("multi-statement:"), {})
  \/ server.readOnly /\ Reply(Because("write"), Failed("read-only:"), {})

\* execute_sql of a read.
ExecuteSql ==
  \/ \E result \in Results :
       LET r == RunQuery(server.engine, result, server.maxRows)
       IN Reply([NoAsk EXCEPT !.cause = "rows", !.result = result],
                [Ok EXCEPT !.rows = r.rows, !.truncated = r.truncated], {})
  \/ /\ server.engine = "postgres"
     /\ \E a \in Arrays :
          Reply([NoAsk EXCEPT !.cause = "array", !.array = {a}],
                [Ok EXCEPT !.array = ParseArray(Printed(a))], {})

\* search_objects with a table's name.
DescribeTable ==
  \/ \E keys \in Schemas :
       Reply([NoAsk EXCEPT !.cause = "table", !.keys = keys],
             [Ok EXCEPT !.foreignKeys = ForeignKeys(server.engine, keys, "t")], {})
  \/ \E indexes \in IndexSets :
       Reply([NoAsk EXCEPT !.cause = "table", !.indexes = indexes],
             IF DescribeFails(server.engine, indexes) THEN Failed("driver")
               ELSE [Ok EXCEPT !.indexes = Indexes(server.engine, indexes)], {})

\* What the session says of a write that the guard let pass, a deadline that
\* passed, a table that is not there. Adapters put their own prefix before
\* it where they can tell; a message may quote names that look like others.
Messages(cause) ==
  LET Of(starts, has) == {[starts |-> starts, has |-> has, shown |-> text] : text \in SUBSET server.known}
      Quoted == SUBSET {"read-only transaction", "statement timeout"}
  IN CASE cause = "blocked by the session" -> Of("driver", {"read-only transaction"})
       [] cause = "deadline" -> IF server.engine = "postgres" THEN Of("driver", {"statement timeout"})
                                                       ELSE Of("timeout:", {"prefix"})
       [] cause = "unknown table" -> UNION {Of("unknown table:", {"prefix"} \union names) : names \in Quoted}
       [] cause = "other" -> UNION {Of("driver", names) : names \in Quoted}

Causes == {"blocked by the session", "deadline", "unknown table", "other"}

\* The adapter fails; sanitize_error.
Fails ==
  \E cause \in Causes : \E m \in Messages(cause) :
    LET e == Sanitized(m, server.secrets)
    IN /\ cause = "blocked by the session" => server.readOnly
       /\ Reply(Because(cause), Failed(e.starts), e.shown)

\* The call is over; its handler keeps nothing.
Over ==
  /\ asked # NoAsk
  /\ asked' = NoAsk
  /\ answer' = NoAnswer
  /\ shown' = {}
  /\ UNCHANGED <<phase, given, server>>

Next ==
  \/ \E i \in Inputs : \E text \in TextsAt(i[1], i[2]) : Give(i, text)
  \/ Start \/ Blocked \/ ExecuteSql \/ DescribeTable \/ Fails \/ Over

Spec == Init /\ [][Next]_vars

-----------------------------------------------------------------------------
(* The configuration.                                                      *)

\* The place gives the setting a value.
Gives(g, p, s) == g[<<p, s>>] # None /\ (p = "file" => FileInUse(g) /\ g[<<p, s>>] # Null)

Above(p, s) == {Places[s][i] : i \in {i \in DOMAIN Places[s] : \A j \in 1..i : Places[s][j] # p}}

\* A higher place gives the setting; a password file goes before a password.
Outranked(g, p, s) ==
  \/ \E q \in Above(p, s) : Gives(g, q, s)
  \/ s = "password" /\ \E q \in PlacesOf("passwordFile") : Gives(g, q, "passwordFile")

FieldOf(s) == IF s = "passwordFile" THEN "password" ELSE s

Meaning(s, text) ==
  CASE s \in {"port", "maxRows", "queryTimeoutMs", "httpPort"} -> Numeral[text]
    [] s = "readOnly" -> text = "true"
    [] s \in {"password", "passwordFile"} -> IF text = "" THEN None ELSE text
    [] OTHER -> text

\* "Multi-source resolution, highest precedence first: flags, --config,
\* discrete env vars, defaults" and "password_file > password": one more input
\* changes its own setting only; it changes nothing, no error of another place
\* included, where a higher place gives the setting; and else it is what
\* counts. (A variable that is not set is an error wherever the file names it.)
Overrides ==
  [][\A i \in Inputs : (phase = "setup" /\ phase' = "setup" /\ given'[i] # given[i]) =>
       LET text == given'[i]
           old == Load(given)
           new == Load(given')
           beaten == Outranked(given, i[1], i[2])
       IN /\ old.error = None /\ new.error = None =>
               \A f \in DOMAIN new \ {FieldOf(i[2]), "secrets"} : new[f] = old[f]
          /\ (beaten \/ text = Null) /\ text # Unset =>
               IF old.error = None THEN new = old ELSE new.error = old.error
          /\ ~beaten /\ text # Null /\ new.error = None =>
               new[FieldOf(i[2])] = Meaning(i[2], text)]_vars

\* "0 or garbage would silently switch a guardrail off": a server that starts
\* has a row cap and a deadline, and takes writes only when the highest place
\* that says anything about it asks for them.
GuardrailsKept ==
  LET c == Load(given) IN
    phase = "setup" /\ c.error = None =>
      /\ c.maxRows > 0 /\ c.queryTimeoutMs > 0
      /\ ~c.readOnly => \E p \in PlacesOf("readOnly") :
           /\ Gives(given, p, "readOnly") /\ given[<<p, "readOnly">>] = "false"
           /\ ~Outranked(given, p, "readOnly")

-----------------------------------------------------------------------------
(* The answers.                                                            *)

\* "Inline DSN credentials are discouraged but must never leak: register
\* them": no log line, no printed configuration and no tool error shows a
\* password, in whatever form the driver echoes it.
Masked == shown = {}

\* The contract's stable prefixes: what stopped a call decides how its error
\* starts, whether the guard, the session or the adapter stopped it, and
\* whatever names the message quotes. (A message that only quotes such a name
\* may get a prefix too.)
StableErrors ==
  /\ asked.cause = "several statements" => answer.starts = "multi-statement:"
  /\ asked.cause \in {"write", "blocked by the session"} => answer.starts = "read-only:"
  /\ asked.cause = "deadline" => answer.starts = "timeout:"
  /\ asked.cause = "unknown table" => answer.starts = "unknown table:"

\* A result is answered row for row up to the cap, which is reported exactly
\* when it cut something off. Integers are numbers where JavaScript keeps them,
\* and texts elsewhere; only the least 64-bit integer is a number in SQLite and
\* libSQL. An array is answered element for element, whatever it contains.
RowsExact ==
  /\ asked.cause = "rows" =>
       /\ answer.truncated = (Len(asked.result) > server.maxRows)
       /\ Len(answer.rows) = Min({Len(asked.result), server.maxRows})
       /\ \A i \in DOMAIN answer.rows :
            LET row == answer.rows[i] IN
              /\ row.of = asked.result[i]
              /\ row.kind = "number" <=>
                   \/ row.of \in -SafeMax..SafeMax
                   \/ row.of = Least /\ server.engine \in {"sqlite", "libsql"}
  /\ \A a \in asked.array : answer.array = JsonOf(a)

\* The entries tell what was declared on table t, each once.
Tells(entries, declared) ==
  LET own == {k \in declared : k.table = "t"}
  IN /\ Len(entries) = Cardinality(own)
     /\ Range(entries) = {Entry(k.name, k.ref, k.columns, k.refColumns) : k \in own}

\* search_objects tells the indexes and foreign keys of a table as they were
\* declared, columns in order. Not so where an index has an expression, and
\* for Postgres not where a foreign key has two columns or its name twice.
DescribeExact ==
  asked.cause = "table" =>
    /\ (\A ix \in asked.indexes : Expression \notin Range(ix.columns)) =>
         Tells(answer.indexes, asked.indexes)
    /\ \/ Tells(answer.foreignKeys, asked.keys)
       \/ /\ server.engine = "postgres"
          /\ \E k, l \in asked.keys : Len(k.columns) > 1 \/ (k # l /\ k.name = l.name)

-----------------------------------------------------------------------------
(* What the documentation says, and the code does not keep.                *)

\* "With `table`: ... foreignKeys": each with its own columns.
ForeignKeysExact == asked.cause = "table" => Tells(answer.foreignKeys, asked.keys)
=============================================================================
