------------------------------- MODULE Config -------------------------------
(***************************************************************************)
(* load_config of the Rust core (core/rust/src/config.rs): how flags, the  *)
(* config file and the environment become one configuration.               *)
(*                                                                         *)
(* What was given is a function from inputs, a setting at a place, to      *)
(* texts. A text stands for its kind: a number that fits or not, garbage,  *)
(* a DSN with a password, a password file with something in it. host       *)
(* stands for user and database too, which are resolved as it is.          *)
(***************************************************************************)
EXTENDS Integers, Sequences, TLC

None == "not given"
Null == "null"            \* a YAML value that is neither text nor number
Unset == "${UNSET}"       \* a YAML text that names a variable nobody set

\* Where a setting may be given, the highest rank first.
Places ==
  [config |-> <<"flag", "env">>,
   dsn |-> <<"flag", "file", "dsnVar", "env">>,
   host |-> <<"file", "env">>,
   port |-> <<"file", "env">>,
   passwordFile |-> <<"file", "env">>,
   password |-> <<"file", "env">>,
   readOnly |-> <<"flag", "file", "env">>,
   maxRows |-> <<"flag", "file", "env">>,
   queryTimeoutMs |-> <<"flag", "file", "env">>,
   type |-> <<"flag", "file">>,
   httpPort |-> <<"flag", "file">>]

Settings == DOMAIN Places
PlacesOf(s) == {Places[s][i] : i \in DOMAIN Places[s]}
Inputs == UNION {{<<p, s>> : p \in PlacesOf(s)} : s \in Settings}

\* The texts a setting takes. (ALLOW_WRITE, the environment's readOnly, says
\* the opposite: "false" stands for ALLOW_WRITE=true.)
Texts ==
  [config |-> {"readable", "unreadable", "invalid YAML"},
   dsn |-> {"dsn", "dsn with password"},
   host |-> {"h1", "h2"},
   port |-> {"2", "3", "70000", "garbage"},
   passwordFile |-> {"p2", "", "unreadable"},
   password |-> {"p1", ""},
   readOnly |-> {"true", "false"},
   maxRows |-> {"0", "2", "3", "garbage"},
   queryTimeoutMs |-> {"0", "2", "3", "garbage"},
   type |-> {"stdio", "http"},
   httpPort |-> {"2", "3", "70000", "garbage"}]

TextsAt(p, s) == CASE p = "file" -> Texts[s] \union {Null, Unset}
                   [] p = "flag" /\ s = "readOnly" -> {"false"}    \* --allow-write
                   [] OTHER -> Texts[s]

NothingGiven == [i \in Inputs |-> None]

-----------------------------------------------------------------------------
(* Reading.                                                                *)

\* a.or_else(b).or_else(c): the first one that is given.
OrElse(options) ==
  LET some == {i \in DOMAIN options : options[i] # None}
  IN IF some = {} THEN None
     ELSE options[CHOOSE i \in some : \A j \in 1..(i - 1) : j \notin some]

\* The text each place gives for setting s, the highest rank first.
Options_EnvFirst(g, s, inUse) ==    \* mutant: the environment before the file
  <<IF <<"flag", s>> \in Inputs THEN g[<<"flag", s>>] ELSE None,
    IF <<"dsnVar", s>> \in Inputs THEN g[<<"dsnVar", s>>] ELSE None,
    IF <<"env", s>> \in Inputs THEN g[<<"env", s>>] ELSE None,
    IF <<"file", s>> \in Inputs /\ inUse /\ g[<<"file", s>>] # Null THEN g[<<"file", s>>] ELSE None>>

Options(g, s, inUse) ==
  [i \in DOMAIN Places[s] |->
    IF Places[s][i] = "file" /\ (~inUse \/ g[<<"file", s>>] = Null) THEN None ELSE g[<<Places[s][i], s>>]]

U64 == {"0", "2", "3", "70000"}
Numeral == [text \in U64 |-> CASE text = "0" -> 0 [] text = "2" -> 2 [] text = "3" -> 3 [] text = "70000" -> 70000]
Garbage == -1
U16 == U64 \ {"70000"}

\* number(): the default when nothing is given, Garbage when it cannot be
\* parsed into the type.
Number(raw, default, type) ==
  CASE raw = None -> default
    [] raw \in type -> Numeral[raw]
    [] OTHER -> Garbage

\* positive(): 0 is garbage as well.
Positive_Zero(raw, default) == Number(raw, default, U64)    \* mutant: n >= 0
Positive(raw, default) ==
  LET n == Number(raw, default, U64) IN IF n > 0 THEN n ELSE Garbage

\* --allow-write, then the file's boolean, then ALLOW_WRITE, then read-only. A
\* text in the file is no boolean.
ReadOnlyOf(g, inUse) ==
  CASE g[<<"flag", "readOnly">>] # None -> FALSE
    [] g[<<"flag", "readOnly">>] = None /\ inUse /\ g[<<"file", "readOnly">>] \in {"true", "false"} ->
         g[<<"file", "readOnly">>] = "true"
    [] OTHER -> g[<<"env", "readOnly">>] # "false"

\* What a password in the DSN registers: its text, and what it decodes to.
DsnSecrets_Raw(dsn) == IF dsn = "dsn with password" THEN {"raw"} ELSE {}    \* mutant
DsnSecrets(dsn) == IF dsn = "dsn with password" THEN {"decoded", "raw"} ELSE {}

\* load_config(): the configuration, or the first error, and the secrets that
\* are registered by then.
Load(g) ==
  LET file == OrElse(Options(g, "config", FALSE))
      inUse == file = "readable"
      Text(s) == OrElse(Options(g, s, inUse))
      fileError == \/ file \in {"unreadable", "invalid YAML"}
                   \/ inUse /\ \E i \in Inputs : i[1] = "file" /\ g[i] = Unset
      password == IF Text("passwordFile") # None THEN Text("passwordFile") ELSE Text("password")
      port == Number(Text("port"), 0, U16)
      maxRows == Positive(Text("maxRows"), 1000)
      timeout == Positive(Text("queryTimeoutMs"), 30000)
      httpPort == Number(Text("httpPort"), 8080, U16)
      early == CASE fileError -> "file"
                 [] ~fileError /\ password = "unreadable" -> "password file"
                 [] OTHER -> None
      late == CASE port = Garbage -> "port"
                [] port # Garbage /\ maxRows = Garbage -> "maxRows"
                [] port # Garbage /\ maxRows # Garbage /\ timeout = Garbage -> "queryTimeoutMs"
                [] OTHER -> IF httpPort = Garbage THEN "httpPort" ELSE None
  IN [error |-> OrElse(<<early, late>>),
      dsn |-> Text("dsn"),
      host |-> Text("host"),
      port |-> port,
      password |-> IF password = "" THEN None ELSE password,
      readOnly |-> ReadOnlyOf(g, inUse),
      maxRows |-> maxRows,
      queryTimeoutMs |-> timeout,
      type |-> OrElse(<<Text("type"), "stdio">>),
      httpPort |-> httpPort,
      secrets |-> IF early # None THEN {}
                  ELSE DsnSecrets(Text("dsn")) \union
                       (IF port = Garbage THEN {} ELSE {password} \ {None, ""})]
=============================================================================
