---------------------------- MODULE ServerProofs ----------------------------
(* What the proof system checks about Server: for everything that may be   *)
(* given, in any number and order, whatever a query returns and whatever   *)
(* keys and indexes a table has.                                           *)
EXTENDS Server, SequenceTheorems, FiniteSetTheorems, WellFoundedInduction, TLAPS

-----------------------------------------------------------------------------
(* Where settings are given.                                               *)

LEMMA SettingsAre ==
  Settings = {"config", "dsn", "host", "port", "passwordFile", "password", "readOnly", "maxRows",
              "queryTimeoutMs", "type", "httpPort"}
BY DEF Settings, Places

LEMMA PlacesAre ==
  ASSUME NEW s \in Settings
  PROVE  \E n \in 1..4 :
           /\ DOMAIN Places[s] = 1..n
           /\ \A i, j \in 1..n : Places[s][i] = Places[s][j] => i = j
<1>1. CASE s \in {"config", "host", "port", "passwordFile", "password", "type", "httpPort"}
  <2>1. DOMAIN Places[s] = 1..2 /\ Places[s][1] # Places[s][2]
    BY <1>1 DEF Places
  <2> QED BY <2>1
<1>2. CASE s \in {"readOnly", "maxRows", "queryTimeoutMs"}
  <2>1. DOMAIN Places[s] = 1..3 /\ Places[s][1] = "flag" /\ Places[s][2] = "file" /\ Places[s][3] = "env"
    BY <1>2 DEF Places
  <2> QED BY <2>1
<1>3. CASE s = "dsn"
  <2>1. /\ DOMAIN Places[s] = 1..4 /\ Places[s][1] = "flag" /\ Places[s][2] = "file"
        /\ Places[s][3] = "dsnVar" /\ Places[s][4] = "env"
    BY <1>3 DEF Places
  <2>2. ASSUME NEW i \in 1..4, NEW j \in 1..4, Places[s][i] = Places[s][j] PROVE i = j
    <3>1. i \in {1, 2, 3, 4} /\ j \in {1, 2, 3, 4}
      OBVIOUS
    <3> QED BY <2>1, <2>2, <3>1
  <2> QED BY <2>1, <2>2
<1> QED BY <1>1, <1>2, <1>3, SettingsAre

LEMMA InputsAre ==
  ASSUME NEW s \in Settings, NEW p
  PROVE  /\ <<p, s>> \in Inputs <=> p \in PlacesOf(s)
         /\ p \in PlacesOf(s) <=> \E i \in DOMAIN Places[s] : p = Places[s][i]
BY DEF Inputs, PlacesOf

LEMMA TextsAre ==
  ASSUME NEW i \in Inputs, NEW text \in TextsAt(i[1], i[2])
  PROVE  /\ text # None
         /\ i[1] # "file" => text # Null /\ text # Unset
         /\ i[1] # "file" => text \in Texts[i[2]]
         /\ i = <<"flag", "readOnly">> => text = "false"
<1>1. i[2] \in Settings /\ i = <<i[1], i[2]>>
  <2>1. PICK s \in Settings : \E p \in PlacesOf(s) : i = <<p, s>>
    BY DEF Inputs
  <2> QED BY <2>1
<1>2. \A s \in Settings : None \notin Texts[s] /\ Null \notin Texts[s] /\ Unset \notin Texts[s]
  <2> SUFFICES ASSUME NEW s \in Settings
               PROVE  None \notin Texts[s] /\ Null \notin Texts[s] /\ Unset \notin Texts[s]
    OBVIOUS
  <2>1. CASE s = "config" BY <2>1 DEF Texts, None, Null, Unset
  <2>2. CASE s = "dsn" BY <2>2 DEF Texts, None, Null, Unset
  <2>3. CASE s = "host" BY <2>3 DEF Texts, None, Null, Unset
  <2>4. CASE s = "port" BY <2>4 DEF Texts, None, Null, Unset
  <2>5. CASE s = "passwordFile" BY <2>5 DEF Texts, None, Null, Unset
  <2>6. CASE s = "password" BY <2>6 DEF Texts, None, Null, Unset
  <2>7. CASE s = "readOnly" BY <2>7 DEF Texts, None, Null, Unset
  <2>8. CASE s = "maxRows" BY <2>8 DEF Texts, None, Null, Unset
  <2>9. CASE s = "queryTimeoutMs" BY <2>9 DEF Texts, None, Null, Unset
  <2>10. CASE s = "type" BY <2>10 DEF Texts, None, Null, Unset
  <2>11. CASE s = "httpPort" BY <2>11 DEF Texts, None, Null, Unset
  <2> QED BY <2>1, <2>2, <2>3, <2>4, <2>5, <2>6, <2>7, <2>8, <2>9, <2>10, <2>11, SettingsAre
<1>3. None # Null /\ None # Unset
  BY DEF None, Null, Unset
<1>4. CASE i[1] = "file"
  <2>1. text \in Texts[i[2]] \union {Null, Unset}
    BY <1>4 DEF TextsAt
  <2> QED BY <1>1, <1>2, <1>3, <1>4, <2>1
<1>5. CASE i[1] = "flag" /\ i[2] = "readOnly"
  <2>1. text = "false" /\ "false" \in Texts["readOnly"]
    BY <1>5 DEF TextsAt, Texts
  <2> QED BY <1>1, <1>2, <1>5, <2>1
<1>6. CASE i[1] # "file" /\ ~(i[1] = "flag" /\ i[2] = "readOnly")
  <2>1. text \in Texts[i[2]]
    BY <1>6 DEF TextsAt
  <2> QED BY <1>1, <1>2, <1>6, <2>1
<1> QED BY <1>4, <1>5, <1>6

-----------------------------------------------------------------------------
(* What a setting's text is.                                               *)

LEMMA FirstGiven ==
  ASSUME NEW o, NEW n \in Nat, DOMAIN o = 1..n, NEW k \in 1..n, o[k] # None,
         \A j \in 1..(k - 1) : o[j] = None
  PROVE  OrElse(o) = o[k]
<1> DEFINE some == {i \in DOMAIN o : o[i] # None}
<1>1. k \in some /\ \A j \in 1..(k - 1) : j \notin some
  OBVIOUS
<1>2. \A i \in some : (\A j \in 1..(i - 1) : j \notin some) => i = k
  BY <1>1
<1>3. OrElse(o) = o[CHOOSE i \in some : \A j \in 1..(i - 1) : j \notin some]
  BY <1>1 DEF OrElse
<1> HIDE DEF some
<1> QED BY <1>1, <1>2, <1>3

LEMMA NoneGiven ==
  ASSUME NEW o, \A j \in DOMAIN o : o[j] = None
  PROVE  OrElse(o) = None
BY DEF OrElse

LEMMA OrElseOf ==
  ASSUME NEW a, NEW b
  PROVE  OrElse(<<a, b>>) = IF a # None THEN a ELSE b
<1>0. PICK o : o = <<a, b>>
  OBVIOUS
<1>1. DOMAIN o = 1..2 /\ o[1] = a /\ o[2] = b
  BY <1>0
<1>2. CASE a # None
  <2>0. 2 \in Nat /\ 1 \in 1..2 /\ o[1] # None /\ \A j \in 1..(1 - 1) : o[j] = None
    BY <1>1, <1>2
  <2>1. OrElse(o) = o[1]
    BY <1>1, <2>0, FirstGiven
  <2> QED BY <1>0, <1>1, <1>2, <2>1
<1>3. CASE a = None /\ b # None
  <2>1. 2 \in Nat /\ 2 \in 1..2 /\ o[2] # None /\ \A j \in 1..(2 - 1) : o[j] = None
    BY <1>1, <1>3
  <2>2. OrElse(o) = o[2]
    BY <1>1, <2>1, FirstGiven
  <2> QED BY <1>0, <1>1, <1>3, <2>2
<1>4. CASE a = None /\ b = None
  <2>1. OrElse(o) = None
    BY <1>1, <1>4, NoneGiven
  <2> QED BY <1>0, <1>4, <2>1
<1> QED BY <1>2, <1>3, <1>4

-----------------------------------------------------------------------------
(* The parts of Load.                                                      *)

TextOf(g, s) == OrElse(Options(g, s, FileInUse(g)))
FileOf(g) == OrElse(Options(g, "config", FALSE))
FileError(g) ==
  \/ FileOf(g) \in {"unreadable", "invalid YAML"}
  \/ FileInUse(g) /\ \E i \in Inputs : i[1] = "file" /\ g[i] = Unset
PasswordOf(g) == IF TextOf(g, "passwordFile") # None THEN TextOf(g, "passwordFile") ELSE TextOf(g, "password")
PortOf(g) == Number(TextOf(g, "port"), 0, U16)
MaxRowsOf(g) == Positive(TextOf(g, "maxRows"), 1000)
TimeoutOf(g) == Positive(TextOf(g, "queryTimeoutMs"), 30000)
HttpPortOf(g) == Number(TextOf(g, "httpPort"), 8080, U16)
EarlyError(g) ==
  CASE FileError(g) -> "file"
    [] ~FileError(g) /\ PasswordOf(g) = "unreadable" -> "password file"
    [] OTHER -> None
LateError(g) ==
  CASE PortOf(g) = Garbage -> "port"
    [] PortOf(g) # Garbage /\ MaxRowsOf(g) = Garbage -> "maxRows"
    [] PortOf(g) # Garbage /\ MaxRowsOf(g) # Garbage /\ TimeoutOf(g) = Garbage -> "queryTimeoutMs"
    [] OTHER -> IF HttpPortOf(g) = Garbage THEN "httpPort" ELSE None

LEMMA LoadIs ==
  ASSUME NEW g
  PROVE  Load(g) =
           [error |-> OrElse(<<EarlyError(g), LateError(g)>>),
            dsn |-> TextOf(g, "dsn"),
            host |-> TextOf(g, "host"),
            port |-> PortOf(g),
            password |-> IF PasswordOf(g) = "" THEN None ELSE PasswordOf(g),
            readOnly |-> ReadOnlyOf(g, FileInUse(g)),
            maxRows |-> MaxRowsOf(g),
            queryTimeoutMs |-> TimeoutOf(g),
            type |-> OrElse(<<TextOf(g, "type"), "stdio">>),
            httpPort |-> HttpPortOf(g),
            secrets |-> IF EarlyError(g) # None THEN {}
                        ELSE DsnSecrets(TextOf(g, "dsn")) \union
                             (IF PortOf(g) = Garbage THEN {} ELSE {PasswordOf(g)} \ {None, ""})]
BY DEF Load, TextOf, FileOf, FileInUse, FileError, PasswordOf, PortOf, MaxRowsOf, TimeoutOf, HttpPortOf,
       EarlyError, LateError

LEMMA FieldsAre ==
  ASSUME NEW g
  PROVE  /\ DOMAIN Load(g) = {"error", "dsn", "host", "port", "password", "readOnly", "maxRows",
                             "queryTimeoutMs", "type", "httpPort", "secrets"}
         /\ Load(g).error = OrElse(<<EarlyError(g), LateError(g)>>)
         /\ Load(g).dsn = TextOf(g, "dsn")
         /\ Load(g).host = TextOf(g, "host")
         /\ Load(g).port = PortOf(g)
         /\ Load(g).password = IF PasswordOf(g) = "" THEN None ELSE PasswordOf(g)
         /\ Load(g).readOnly = ReadOnlyOf(g, FileInUse(g))
         /\ Load(g).maxRows = MaxRowsOf(g)
         /\ Load(g).queryTimeoutMs = TimeoutOf(g)
         /\ Load(g).type = OrElse(<<TextOf(g, "type"), "stdio">>)
         /\ Load(g).httpPort = HttpPortOf(g)
<1> DEFINE password == IF PasswordOf(g) = "" THEN None ELSE PasswordOf(g)
           error == OrElse(<<EarlyError(g), LateError(g)>>)
           type == OrElse(<<TextOf(g, "type"), "stdio">>)
           secrets == IF EarlyError(g) # None THEN {}
                        ELSE DsnSecrets(TextOf(g, "dsn")) \union
                             (IF PortOf(g) = Garbage THEN {} ELSE {PasswordOf(g)} \ {None, ""})
<1>1. Load(g) = [error |-> error, dsn |-> TextOf(g, "dsn"), host |-> TextOf(g, "host"), port |-> PortOf(g),
                 password |-> password, readOnly |-> ReadOnlyOf(g, FileInUse(g)), maxRows |-> MaxRowsOf(g),
                 queryTimeoutMs |-> TimeoutOf(g), type |-> type, httpPort |-> HttpPortOf(g),
                 secrets |-> secrets]
  BY LoadIs
<1>2. /\ Load(g).error = error /\ Load(g).password = password /\ Load(g).type = type
  <2> HIDE DEF password, error, type, secrets
  <2> QED BY <1>1
<1> HIDE DEF password, error, type, secrets
<1>3. /\ DOMAIN Load(g) = {"error", "dsn", "host", "port", "password", "readOnly", "maxRows",
                           "queryTimeoutMs", "type", "httpPort", "secrets"}
      /\ Load(g).dsn = TextOf(g, "dsn") /\ Load(g).host = TextOf(g, "host") /\ Load(g).port = PortOf(g)
      /\ Load(g).readOnly = ReadOnlyOf(g, FileInUse(g)) /\ Load(g).maxRows = MaxRowsOf(g)
      /\ Load(g).queryTimeoutMs = TimeoutOf(g) /\ Load(g).httpPort = HttpPortOf(g)
  BY <1>1
<1> QED BY <1>2, <1>3 DEF password, error, type

LEMMA EarlyIs ==
  ASSUME NEW g
  PROVE  /\ FileError(g) => EarlyError(g) = "file"
         /\ ~FileError(g) /\ PasswordOf(g) = "unreadable" => EarlyError(g) = "password file"
         /\ ~FileError(g) /\ PasswordOf(g) # "unreadable" => EarlyError(g) = None
BY DEF EarlyError

LEMMA LateIs ==
  ASSUME NEW g
  PROVE  /\ PortOf(g) = Garbage => LateError(g) = "port"
         /\ PortOf(g) # Garbage /\ MaxRowsOf(g) = Garbage => LateError(g) = "maxRows"
         /\ PortOf(g) # Garbage /\ MaxRowsOf(g) # Garbage /\ TimeoutOf(g) = Garbage
              => LateError(g) = "queryTimeoutMs"
         /\ PortOf(g) # Garbage /\ MaxRowsOf(g) # Garbage /\ TimeoutOf(g) # Garbage
              => LateError(g) = IF HttpPortOf(g) = Garbage THEN "httpPort" ELSE None
BY DEF LateError

LEMMA NoError ==
  ASSUME NEW g
  PROVE  Load(g).error = None <=>
           /\ ~FileError(g) /\ PasswordOf(g) # "unreadable"
           /\ PortOf(g) # Garbage /\ MaxRowsOf(g) # Garbage
           /\ TimeoutOf(g) # Garbage /\ HttpPortOf(g) # Garbage
<1>1. Load(g).error = IF EarlyError(g) # None THEN EarlyError(g) ELSE LateError(g)
  BY LoadIs, OrElseOf
<1>2. /\ "file" # None /\ "password file" # None /\ "port" # None /\ "maxRows" # None
      /\ "queryTimeoutMs" # None /\ "httpPort" # None
  BY DEF None
<1>3. EarlyError(g) = None <=> (~FileError(g) /\ PasswordOf(g) # "unreadable")
  BY <1>2, EarlyIs
<1>4. LateError(g) = None <=> /\ PortOf(g) # Garbage /\ MaxRowsOf(g) # Garbage
                              /\ TimeoutOf(g) # Garbage /\ HttpPortOf(g) # Garbage
  BY <1>2, LateIs
<1> QED BY <1>1, <1>3, <1>4

-----------------------------------------------------------------------------
(* The inductive invariant.                                                *)

\* An input has a text that fits where it is given, or none.
GivenOK ==
  /\ DOMAIN given = Inputs
  /\ \A i \in Inputs : given[i] = None \/ given[i] \in TextsAt(i[1], i[2])

\* Whatever of a password the drivers know is registered; only the URI, which
\* every output loses, need not be.
Registered == server.known \ {"URI"} \subseteq server.secrets

IInv == GivenOK /\ Registered /\ Masked /\ StableErrors

LEMMA NothingGivenOK ==
  /\ DOMAIN NothingGiven = Inputs
  /\ \A i \in Inputs : NothingGiven[i] = None
BY DEF NothingGiven

LEMMA ConfigInputs ==
  /\ <<"flag", "config">> \in Inputs /\ <<"env", "config">> \in Inputs
  /\ TextsAt("flag", "config") = Texts.config /\ TextsAt("env", "config") = Texts.config
<1>1. "config" \in Settings /\ DOMAIN Places["config"] = 1..2
      /\ Places["config"][1] = "flag" /\ Places["config"][2] = "env"
  BY SettingsAre DEF Places
<1>2. "flag" \in PlacesOf("config") /\ "env" \in PlacesOf("config")
  BY <1>1 DEF PlacesOf
<1>3. TextsAt("flag", "config") = Texts["config"] /\ TextsAt("env", "config") = Texts["config"]
  BY DEF TextsAt
<1> QED BY <1>1, <1>2, <1>3, InputsAre

LEMMA InitOK == Init => IInv
<1> SUFFICES ASSUME Init PROVE IInv
  OBVIOUS
<1>1. GivenOK
  <2>1. PICK flag \in {None} \union Texts.config, env \in {None} \union Texts.config :
          given = [NothingGiven EXCEPT ![<<"flag", "config">>] = flag, ![<<"env", "config">>] = env]
    BY DEF Init
  <2>2. DOMAIN given = Inputs
    BY <2>1, NothingGivenOK
  <2>3. ASSUME NEW i \in Inputs PROVE given[i] = None \/ given[i] \in TextsAt(i[1], i[2])
    <3>1. CASE i = <<"flag", "config">>
      <4>1. given[i] = flag
        BY <2>1, <3>1, ConfigInputs, NothingGivenOK
      <4> QED BY <3>1, <4>1, ConfigInputs
    <3>2. CASE i = <<"env", "config">>
      <4>1. given[i] = env
        BY <2>1, <3>2, ConfigInputs, NothingGivenOK
      <4> QED BY <3>2, <4>1, ConfigInputs
    <3>3. CASE i # <<"flag", "config">> /\ i # <<"env", "config">>
      BY <2>1, <3>3, NothingGivenOK
    <3> QED BY <3>1, <3>2, <3>3
  <2> QED BY <2>2, <2>3 DEF GivenOK
<1>2. Registered
  BY DEF Init, Registered, NoServer
<1>3. Masked
  BY DEF Init, Masked
<1>4. StableErrors
  BY DEF Init, StableErrors, NoAsk, None
<1> QED BY <1>1, <1>2, <1>3, <1>4 DEF IInv

-----------------------------------------------------------------------------
(* The start.                                                              *)

LEMMA GiveKept ==
  ASSUME IInv, NEW i \in Inputs, NEW text \in TextsAt(i[1], i[2]), Give(i, text)
  PROVE  IInv'
<1>1. GivenOK'
  BY DEF IInv, GivenOK, Give
<1>2. Registered' /\ Masked' /\ StableErrors'
  BY DEF IInv, Registered, Masked, StableErrors, Give
<1> QED BY <1>1, <1>2 DEF IInv

\* Without an error, every form of a password the drivers may echo is
\* registered before they see it.
LEMMA AllRegistered ==
  ASSUME NEW g, Load(g).error = None
  PROVE  Known(Load(g)) \ {"URI"} \subseteq Load(g).secrets
<1>1. ~FileError(g) /\ PasswordOf(g) # "unreadable" /\ PortOf(g) # Garbage
  BY NoError
<1>2. EarlyError(g) = None
  BY <1>1, EarlyIs
<1>3. Load(g).secrets = DsnSecrets(TextOf(g, "dsn")) \union ({PasswordOf(g)} \ {None, ""})
  BY <1>1, <1>2, LoadIs
<1>4. /\ Load(g).dsn = TextOf(g, "dsn")
      /\ Load(g).password = IF PasswordOf(g) = "" THEN None ELSE PasswordOf(g)
  BY FieldsAre
<1> QED BY <1>3, <1>4 DEF Known, DsnSecrets

LEMMA Redacted ==
  ASSUME NEW text, NEW known, NEW secrets, text \subseteq known, known \ {"URI"} \subseteq secrets
  PROVE  Redact(text, secrets) = {}
BY DEF Redact

LEMMA StartKept ==
  ASSUME IInv, Start
  PROVE  IInv'
<1> DEFINE c == Load(given)
<1>0. GivenOK'
  <2>1. given' = NothingGiven
    BY DEF Start
  <2> QED BY <2>1, NothingGivenOK DEF GivenOK
<1>1. StableErrors'
  BY DEF IInv, StableErrors, Start
<1>2. Registered' /\ Masked'
  <2>1. CASE \E secrets : Exit({}, secrets)
    <3>1. \A secrets : Redact({}, secrets) = {}
      BY DEF Redact
    <3> QED BY <2>1, <3>1 DEF Exit, IInv, Registered, Masked
  <2>2. CASE c.error = None /\ \E text \in SUBSET Known(c) : Exit(text, c.secrets)
    <3>1. PICK text \in SUBSET Known(c) : Exit(text, c.secrets)
      BY <2>2
    <3>2. Redact(text, c.secrets) = {}
      BY <2>2, AllRegistered, Redacted
    <3> QED BY <3>1, <3>2 DEF Exit, IInv, Registered, Masked
  <2>3. CASE /\ c.error = None
             /\ \E engine \in Engines :
                  server' = [engine |-> engine, readOnly |-> c.readOnly, maxRows |-> c.maxRows,
                             secrets |-> c.secrets, known |-> Known(c)]
             /\ shown' = {}
    <3>1. server'.secrets = c.secrets /\ server'.known = Known(c)
      BY <2>3
    <3> QED BY <2>3, <3>1, AllRegistered DEF Registered, Masked
  <2>4. \/ c.error # None /\ Exit({}, c.secrets)
        \/ c.error = None /\ Exit(Known(c) \intersect {"URI"}, c.secrets)
        \/ c.error = None /\ \E text \in SUBSET Known(c) : Exit(text, c.secrets)
        \/ c.error = None /\ c.type = "http" /\ Exit({}, c.secrets)
        \/ /\ c.error = None
           /\ \E engine \in Engines :
                server' = [engine |-> engine, readOnly |-> c.readOnly, maxRows |-> c.maxRows,
                           secrets |-> c.secrets, known |-> Known(c)]
           /\ shown' = {}
    BY DEF Start
  <2>5. Known(c) \intersect {"URI"} \in SUBSET Known(c)
    OBVIOUS
  <2> HIDE DEF c
  <2> QED BY <2>1, <2>2, <2>3, <2>4, <2>5
<1> QED BY <1>0, <1>1, <1>2 DEF IInv

-----------------------------------------------------------------------------
(* Tool calls.                                                             *)

StableAnswer(ask, result) ==
  /\ ask.cause = "several statements" => result.starts = "multi-statement:"
  /\ ask.cause \in {"write", "blocked by the session"} => result.starts = "read-only:"
  /\ ask.cause = "deadline" => result.starts = "timeout:"
  /\ ask.cause = "unknown table" => result.starts = "unknown table:"

LEMMA ReplyKept ==
  ASSUME IInv, NEW ask, NEW result, NEW text, Reply(ask, result, text),
         StableAnswer(ask, result), text = {}
  PROVE  IInv'
BY DEF IInv, GivenOK, Registered, Masked, StableErrors, StableAnswer, Reply

LEMMA NoAskIs ==
  /\ DOMAIN NoAsk = {"cause", "result", "array", "keys", "indexes"}
  /\ \A cause : Because(cause).cause = cause
  /\ \A starts : Failed(starts).starts = starts
BY DEF NoAsk, NoAnswer, Because, Failed

LEMMA BlockedKept ==
  ASSUME IInv, Blocked
  PROVE  IInv'
<1>1. /\ StableAnswer(Because("several statements"), Failed("multi-statement:"))
      /\ StableAnswer(Because("write"), Failed("read-only:"))
  BY NoAskIs DEF StableAnswer
<1> QED BY <1>1, ReplyKept DEF Blocked

LEMMA ResultKept ==
  ASSUME IInv, ExecuteSql \/ DescribeTable
  PROVE  IInv'
<1>1. PICK ask, result : Reply(ask, result, {}) /\ ask.cause \in {"rows", "array", "table"}
  <2>1. \A x : /\ [NoAsk EXCEPT !.cause = "rows", !.result = x].cause = "rows"
               /\ [NoAsk EXCEPT !.cause = "array", !.array = x].cause = "array"
               /\ [NoAsk EXCEPT !.cause = "table", !.keys = x].cause = "table"
               /\ [NoAsk EXCEPT !.cause = "table", !.indexes = x].cause = "table"
    BY DEF NoAsk
  <2>2. CASE ExecuteSql
    <3>1. \/ \E x \in Results : \E result : Reply([NoAsk EXCEPT !.cause = "rows", !.result = x], result, {})
          \/ \E x \in Arrays : \E result : Reply([NoAsk EXCEPT !.cause = "array", !.array = {x}], result, {})
      BY <2>2, Zenon DEF ExecuteSql
    <3>2. ASSUME NEW x \in Results, NEW result, Reply([NoAsk EXCEPT !.cause = "rows", !.result = x], result, {})
          PROVE  \E ask, r : Reply(ask, r, {}) /\ ask.cause \in {"rows", "array", "table"}
      BY <2>1, <3>2, Zenon
    <3>3. ASSUME NEW x \in Arrays, NEW result, Reply([NoAsk EXCEPT !.cause = "array", !.array = {x}], result, {})
          PROVE  \E ask, r : Reply(ask, r, {}) /\ ask.cause \in {"rows", "array", "table"}
      <4>1. [NoAsk EXCEPT !.cause = "array", !.array = {x}].cause = "array"
        BY <2>1
      <4> QED BY <3>3, <4>1, Zenon
    <3> QED BY <3>1, <3>2, <3>3, Zenon
  <2>3. CASE DescribeTable
    <3>1. \/ \E x \in Schemas : \E result : Reply([NoAsk EXCEPT !.cause = "table", !.keys = x], result, {})
          \/ \E x \in IndexSets : \E result : Reply([NoAsk EXCEPT !.cause = "table", !.indexes = x], result, {})
      BY <2>3, Zenon DEF DescribeTable
    <3> QED BY <2>1, <3>1, Zenon
  <2> QED BY <2>2, <2>3
<1>2. StableAnswer(ask, result)
  BY <1>1 DEF StableAnswer
<1> QED BY <1>1, <1>2, ReplyKept

LEMMA SanitizedIs ==
  ASSUME NEW m, NEW secrets, NEW has, m.has = has
  PROVE  /\ "prefix" \in has =>
              Sanitized(m, secrets) = [starts |-> m.starts, shown |-> Redact(m.shown, secrets)]
         /\ has = {"read-only transaction"} => Sanitized(m, secrets).starts = "read-only:"
         /\ has = {"statement timeout"} => Sanitized(m, secrets).starts = "timeout:"
         /\ Sanitized(m, secrets).shown \in {{}, Redact(m.shown, secrets)}
<1> DEFINE foreign == "prefix" \notin has
           blocked == "read-only transaction" \in has
           late == "statement timeout" \in has
<1>1. /\ foreign /\ blocked => Sanitized(m, secrets) = [starts |-> "read-only:", shown |-> {}]
      /\ foreign /\ ~blocked /\ late => Sanitized(m, secrets) = [starts |-> "timeout:", shown |-> {}]
      /\ ~(foreign /\ blocked) /\ ~(foreign /\ ~blocked /\ late) =>
           Sanitized(m, secrets) = [starts |-> m.starts, shown |-> Redact(m.shown, secrets)]
  <2>1. Sanitized(m, secrets) =
          CASE foreign /\ blocked -> [starts |-> "read-only:", shown |-> {}]
            [] foreign /\ ~blocked /\ late -> [starts |-> "timeout:", shown |-> {}]
            [] OTHER -> [starts |-> m.starts, shown |-> Redact(m.shown, secrets)]
    BY DEF Sanitized
  <2> HIDE DEF foreign, blocked, late
  <2> QED BY <2>1
<1>2. /\ "prefix" \in has => ~foreign
      /\ has = {"read-only transaction"} => foreign /\ blocked
      /\ has = {"statement timeout"} => foreign /\ ~blocked /\ late
  OBVIOUS
<1> HIDE DEF foreign, blocked, late
<1>3. Sanitized(m, secrets).shown \in {{}, Redact(m.shown, secrets)}
  <2>1. CASE foreign /\ blocked
    BY <1>1, <2>1
  <2>2. CASE foreign /\ ~blocked /\ late
    BY <1>1, <2>2
  <2>3. CASE ~(foreign /\ blocked) /\ ~(foreign /\ ~blocked /\ late)
    BY <1>1, <2>3
  <2> QED BY <2>1, <2>2, <2>3
<1>4. has = {"read-only transaction"} => Sanitized(m, secrets).starts = "read-only:"
  <2>1. foreign /\ blocked => Sanitized(m, secrets).starts = "read-only:"
    BY <1>1
  <2> QED BY <1>2, <2>1
<1>5. has = {"statement timeout"} => Sanitized(m, secrets).starts = "timeout:"
  <2>1. foreign /\ ~blocked /\ late => Sanitized(m, secrets).starts = "timeout:"
    BY <1>1
  <2> QED BY <1>2, <2>1
<1> QED BY <1>1, <1>2, <1>3, <1>4, <1>5

\* The messages that start and quote so.
Of(starts, has) == {[starts |-> starts, has |-> has, shown |-> text] : text \in SUBSET server.known}

LEMMA OfIs ==
  ASSUME NEW starts, NEW has, NEW m \in Of(starts, has)
  PROVE  m.starts = starts /\ m.has = has /\ m.shown \subseteq server.known
BY DEF Of

\* What sanitize_error makes of each cause's messages.
LEMMA MessagesAre ==
  ASSUME NEW cause \in Causes, NEW m \in Messages(cause), NEW secrets
  PROVE  /\ m.shown \subseteq server.known
         /\ cause = "blocked by the session" => Sanitized(m, secrets).starts = "read-only:"
         /\ cause = "deadline" => Sanitized(m, secrets).starts = "timeout:"
         /\ cause = "unknown table" => Sanitized(m, secrets).starts = "unknown table:"
<1>1. CASE cause = "blocked by the session"
  <2>1. m \in Of("driver", {"read-only transaction"})
    BY <1>1 DEF Messages, Of
  <2>2. m.has = {"read-only transaction"} /\ m.shown \subseteq server.known
    BY <2>1, OfIs
  <2> QED BY <1>1, <2>2, SanitizedIs
<1>2. CASE cause = "deadline"
  <2>1. m \in Of("driver", {"statement timeout"}) \/ m \in Of("timeout:", {"prefix"})
    BY <1>2 DEF Messages, Of
  <2>2. CASE m \in Of("driver", {"statement timeout"})
    <3>1. m.has = {"statement timeout"} /\ m.shown \subseteq server.known
      BY <2>2, OfIs
    <3> QED BY <1>2, <3>1, SanitizedIs
  <2>3. CASE m \in Of("timeout:", {"prefix"})
    <3>1. m.has = {"prefix"} /\ m.starts = "timeout:" /\ m.shown \subseteq server.known
      BY <2>3, OfIs
    <3>2. Sanitized(m, secrets) = [starts |-> m.starts, shown |-> Redact(m.shown, secrets)]
      BY <3>1, SanitizedIs
    <3> QED BY <1>2, <3>1, <3>2
  <2> QED BY <2>1, <2>2, <2>3
<1>3. CASE cause = "unknown table"
  <2>1. PICK names \in SUBSET {"read-only transaction", "statement timeout"} :
          m \in Of("unknown table:", {"prefix"} \union names)
    BY <1>3 DEF Messages, Of
  <2>2. m.has = {"prefix"} \union names /\ m.starts = "unknown table:" /\ m.shown \subseteq server.known
    <3>1. PICK has : has = {"prefix"} \union names
      OBVIOUS
    <3>2. m \in Of("unknown table:", has)
      BY <2>1, <3>1
    <3>3. m.starts = "unknown table:" /\ m.has = has /\ m.shown \subseteq server.known
      BY <3>2, OfIs
    <3> QED BY <3>1, <3>3
  <2>3. "prefix" \in m.has
    BY <2>2
  <2>4. Sanitized(m, secrets) = [starts |-> m.starts, shown |-> Redact(m.shown, secrets)]
    BY <2>3, SanitizedIs
  <2>5. Sanitized(m, secrets).starts = "unknown table:"
    <3>0. \A a, b : [starts |-> a, shown |-> b].starts = a
      OBVIOUS
    <3>1. Sanitized(m, secrets).starts = m.starts
      BY <2>4, <3>0, Zenon
    <3> QED BY <2>2, <3>1
  <2> QED BY <1>3, <2>2, <2>5
<1>4. CASE cause = "other"
  <2>1. PICK names \in SUBSET {"read-only transaction", "statement timeout"} : m \in Of("driver", names)
    BY <1>4 DEF Messages, Of
  <2> QED BY <1>4, <2>1, OfIs
<1> QED BY <1>1, <1>2, <1>3, <1>4 DEF Causes

LEMMA FailsKept ==
  ASSUME IInv, Fails
  PROVE  IInv'
<1>0. PICK cause \in Causes : \E m \in Messages(cause) :
        Reply(Because(cause), Failed(Sanitized(m, server.secrets).starts), Sanitized(m, server.secrets).shown)
  BY DEF Fails
<1>1. PICK m \in Messages(cause) :
        Reply(Because(cause), Failed(Sanitized(m, server.secrets).starts), Sanitized(m, server.secrets).shown)
  BY <1>0
<1>2. Sanitized(m, server.secrets).shown = {}
  <2>1. Redact(m.shown, server.secrets) = {}
    BY MessagesAre, Redacted DEF IInv, Registered
  <2> QED BY <2>1, SanitizedIs
<1>3. StableAnswer(Because(cause), Failed(Sanitized(m, server.secrets).starts))
  <2>1. cause \notin {"several statements", "write"}
    BY DEF Causes
  <2>2. /\ Because(cause).cause = cause
        /\ Failed(Sanitized(m, server.secrets).starts).starts = Sanitized(m, server.secrets).starts
    BY NoAskIs
  <2>3. /\ cause = "blocked by the session" => Sanitized(m, server.secrets).starts = "read-only:"
        /\ cause = "deadline" => Sanitized(m, server.secrets).starts = "timeout:"
        /\ cause = "unknown table" => Sanitized(m, server.secrets).starts = "unknown table:"
    <3>1. PICK secrets : secrets = server.secrets
      OBVIOUS
    <3>2. /\ cause = "blocked by the session" => Sanitized(m, secrets).starts = "read-only:"
          /\ cause = "deadline" => Sanitized(m, secrets).starts = "timeout:"
          /\ cause = "unknown table" => Sanitized(m, secrets).starts = "unknown table:"
      BY MessagesAre, Zenon
    <3> QED BY <3>1, <3>2, Zenon
  <2> QED BY <2>1, <2>2, <2>3 DEF StableAnswer
<1> QED BY <1>1, <1>2, <1>3, ReplyKept

LEMMA OverKept ==
  ASSUME IInv, Over
  PROVE  IInv'
BY DEF IInv, GivenOK, Registered, Masked, StableErrors, Over, NoAsk, None

-----------------------------------------------------------------------------
(* The guardrails.                                                         *)

LEMMA ReadOnlyPlaces ==
  /\ "readOnly" \in Settings /\ DOMAIN Places["readOnly"] = 1..3
  /\ Places["readOnly"][1] = "flag" /\ Places["readOnly"][2] = "file" /\ Places["readOnly"][3] = "env"
BY SettingsAre DEF Places

LEMMA ReadOnlyRanks ==
  /\ PlacesOf("readOnly") = {"flag", "file", "env"}
  /\ Above("flag", "readOnly") = {}
  /\ Above("file", "readOnly") = {"flag"}
  /\ Above("env", "readOnly") = {"flag", "file"}
<1>0. \A i \in 1..3 : i = 1 \/ i = 2 \/ i = 3
  OBVIOUS
<1>1. PlacesOf("readOnly") = {"flag", "file", "env"}
  BY <1>0, ReadOnlyPlaces DEF PlacesOf
<1>2. ASSUME NEW p
      PROVE  Above(p, "readOnly") =
               {Places["readOnly"][i] : i \in {i \in 1..3 : \A j \in 1..i : Places["readOnly"][j] # p}}
  BY ReadOnlyPlaces DEF Above
<1>3. Above("flag", "readOnly") = {}
  <2>1. \A i \in 1..3 : 1 \in 1..i /\ Places["readOnly"][1] = "flag"
    BY ReadOnlyPlaces
  <2> QED BY <1>2, <2>1
<1>4. Above("file", "readOnly") = {"flag"}
  <2>1. {i \in 1..3 : \A j \in 1..i : Places["readOnly"][j] # "file"} = {1}
    BY <1>0, ReadOnlyPlaces
  <2> QED BY <1>2, <2>1, ReadOnlyPlaces
<1>5. Above("env", "readOnly") = {"flag", "file"}
  <2>1. {i \in 1..3 : \A j \in 1..i : Places["readOnly"][j] # "env"} = {1, 2}
    BY <1>0, ReadOnlyPlaces
  <2> QED BY <1>2, <2>1, ReadOnlyPlaces
<1> QED BY <1>1, <1>3, <1>4, <1>5

\* What makes a server take writes.
LEMMA WritesAsked ==
  ASSUME GivenOK, Load(given).error = None, ~Load(given).readOnly
  PROVE  \E p \in PlacesOf("readOnly") :
           /\ Gives(given, p, "readOnly") /\ given[<<p, "readOnly">>] = "false"
           /\ ~Outranked(given, p, "readOnly")
<1> DEFINE flag == given[<<"flag", "readOnly">>]
           file == given[<<"file", "readOnly">>]
           env == given[<<"env", "readOnly">>]
<1>1. ~ReadOnlyOf(given, FileInUse(given))
  BY FieldsAre
<1>2. ~FileError(given)
  BY NoError
<1>3. /\ <<"flag", "readOnly">> \in Inputs /\ <<"file", "readOnly">> \in Inputs
      /\ <<"env", "readOnly">> \in Inputs
  BY ReadOnlyPlaces, ReadOnlyRanks, InputsAre
<1>4. flag = None \/ flag = "false"
  <2>1. TextsAt("flag", "readOnly") = {"false"}
    BY DEF TextsAt
  <2> QED BY <1>3, <2>1 DEF GivenOK
<1>5. file \in {None, Null, Unset, "true", "false"}
  <2>1. TextsAt("file", "readOnly") = {"true", "false"} \union {Null, Unset}
    BY DEF TextsAt, Texts
  <2> QED BY <1>3, <2>1 DEF GivenOK
<1>6. FileInUse(given) => file # Unset
  BY <1>2, <1>3 DEF FileError
<1>7. \A p : Outranked(given, p, "readOnly") <=> \E q \in Above(p, "readOnly") : Gives(given, q, "readOnly")
  BY DEF Outranked
<1>8. /\ Gives(given, "flag", "readOnly") <=> flag # None
      /\ Gives(given, "env", "readOnly") <=> env # None
      /\ Gives(given, "file", "readOnly") <=> file # None /\ FileInUse(given) /\ file # Null
  BY DEF Gives
<1>9. "false" # None
  BY DEF None
<1>10. CASE flag # None
  BY <1>4, <1>7, <1>8, <1>10, ReadOnlyRanks
<1>11. CASE flag = None /\ FileInUse(given) /\ file \in {"true", "false"}
  <2>1. file = "false"
    BY <1>1, <1>11 DEF ReadOnlyOf
  <2>2. "false" # Null
    BY DEF Null
  <2> QED BY <1>7, <1>8, <1>9, <1>11, <2>1, <2>2, ReadOnlyRanks
<1>12. CASE flag = None /\ ~(FileInUse(given) /\ file \in {"true", "false"})
  <2>1. env = "false"
    BY <1>1, <1>12 DEF ReadOnlyOf
  <2>2. ~Gives(given, "file", "readOnly")
    BY <1>5, <1>6, <1>8, <1>12
  <2> QED BY <1>7, <1>8, <1>9, <1>12, <2>1, <2>2, ReadOnlyRanks
<1> HIDE DEF flag, file, env
<1> QED BY <1>10, <1>11, <1>12

LEMMA PositiveIs ==
  ASSUME NEW raw, NEW default, Positive(raw, default) # Garbage
  PROVE  Positive(raw, default) > 0
BY DEF Positive

LEMMA GuardrailsFollow == GivenOK => GuardrailsKept
<1> SUFFICES ASSUME GivenOK, Load(given).error = None
             PROVE  /\ Load(given).maxRows > 0 /\ Load(given).queryTimeoutMs > 0
                    /\ ~Load(given).readOnly => \E p \in PlacesOf("readOnly") :
                         /\ Gives(given, p, "readOnly") /\ given[<<p, "readOnly">>] = "false"
                         /\ ~Outranked(given, p, "readOnly")
  BY DEF GuardrailsKept
<1>1. MaxRowsOf(given) > 0 /\ TimeoutOf(given) > 0
  BY NoError, PositiveIs DEF MaxRowsOf, TimeoutOf
<1> QED BY <1>1, FieldsAre, WritesAsked

-----------------------------------------------------------------------------
(* Every step.                                                             *)

LEMMA StepOK == IInv /\ [Next]_vars => IInv'
<1> SUFFICES ASSUME IInv, [Next]_vars PROVE IInv'
  OBVIOUS
<1>1. CASE \E i \in Inputs : \E text \in TextsAt(i[1], i[2]) : Give(i, text)
  BY <1>1, GiveKept
<1>2. CASE Start
  BY <1>2, StartKept
<1>3. CASE Blocked
  BY <1>3, BlockedKept
<1>4. CASE ExecuteSql \/ DescribeTable
  BY <1>4, ResultKept
<1>5. CASE Fails
  BY <1>5, FailsKept
<1>6. CASE Over
  BY <1>6, OverKept
<1>7. CASE UNCHANGED vars
  BY <1>7 DEF vars, IInv, GivenOK, Registered, Masked, StableErrors
<1> QED BY <1>1, <1>2, <1>3, <1>4, <1>5, <1>6, <1>7 DEF Next

LEMMA Invariant == Spec => []IInv
BY InitOK, StepOK, PTL DEF Spec

\* Whatever is given, a server that starts has a row cap and a deadline, and
\* takes writes only when the highest place that says anything about it asks
\* for them.
THEOREM GuardrailsKeptHolds == Spec => []GuardrailsKept
<1>1. IInv => GuardrailsKept
  BY GuardrailsFollow DEF IInv
<1> QED BY <1>1, Invariant, PTL

\* No output shows a password, in any form the drivers know of it.
THEOREM MaskedHolds == Spec => []Masked
<1>1. IInv => Masked
  BY DEF IInv
<1> QED BY <1>1, Invariant, PTL

\* An error starts with the prefix its cause has, whatever the message quotes.
THEOREM StableErrorsHolds == Spec => []StableErrors
<1>1. IInv => StableErrors
  BY DEF IInv
<1> QED BY <1>1, Invariant, PTL

-----------------------------------------------------------------------------
(* Which place gives a setting.                                            *)

LEMMA LeastIn ==
  ASSUME NEW S \in SUBSET (1..4), S # {}
  PROVE  \E k \in S : \A j \in 1..(k - 1) : j \notin S
<1>1. CASE 1 \in S
  BY <1>1
<1>2. CASE 1 \notin S /\ 2 \in S
  BY <1>2
<1>3. CASE 1 \notin S /\ 2 \notin S /\ 3 \in S
  BY <1>3
<1>4. CASE 1 \notin S /\ 2 \notin S /\ 3 \notin S /\ 4 \in S
  BY <1>4
<1>5. 1 \in S \/ 2 \in S \/ 3 \in S \/ 4 \in S
  <2>1. \A k \in 1..4 : k = 1 \/ k = 2 \/ k = 3 \/ k = 4
    OBVIOUS
  <2>2. PICK k \in S : k \in 1..4
    OBVIOUS
  <2> QED BY <2>1, <2>2
<1> QED BY <1>1, <1>2, <1>3, <1>4, <1>5

LEMMA OptionIs ==
  ASSUME NEW g, NEW s \in Settings
  PROVE  /\ DOMAIN Options(g, s, FileInUse(g)) = DOMAIN Places[s]
         /\ \A i \in DOMAIN Places[s] :
              /\ Gives(g, Places[s][i], s) =>
                   /\ Options(g, s, FileInUse(g))[i] = g[<<Places[s][i], s>>]
                   /\ g[<<Places[s][i], s>>] # None
              /\ ~Gives(g, Places[s][i], s) => Options(g, s, FileInUse(g))[i] = None
BY DEF Options, Gives

\* The k-th place gives the setting, and none before it.
LEMMA FirstPlace ==
  ASSUME NEW g, NEW s \in Settings, NEW k \in DOMAIN Places[s], Gives(g, Places[s][k], s),
         \A j \in 1..(k - 1) : ~Gives(g, Places[s][j], s)
  PROVE  TextOf(g, s) = g[<<Places[s][k], s>>]
<1>1. PICK n \in 1..4 : DOMAIN Places[s] = 1..n
  BY PlacesAre
<1>2. PICK o : o = Options(g, s, FileInUse(g))
  OBVIOUS
<1>3. DOMAIN o = 1..n /\ o[k] = g[<<Places[s][k], s>>] /\ o[k] # None
  BY <1>1, <1>2, OptionIs
<1>4. \A j \in 1..(k - 1) : o[j] = None
  <2>1. \A j \in 1..(k - 1) : j \in DOMAIN Places[s]
    BY <1>1
  <2> QED BY <1>2, <2>1, OptionIs
<1>5. n \in Nat /\ k \in 1..n
  BY <1>1
<1>6. OrElse(o) = o[k]
  BY <1>3, <1>4, <1>5, FirstGiven
<1> QED BY <1>2, <1>3, <1>6 DEF TextOf

LEMMA NoPlace ==
  ASSUME NEW g, NEW s \in Settings, \A p \in PlacesOf(s) : ~Gives(g, p, s)
  PROVE  TextOf(g, s) = None
<1>1. PICK o : o = Options(g, s, FileInUse(g))
  OBVIOUS
<1>2. \A j \in DOMAIN o : o[j] = None
  BY <1>1, OptionIs DEF PlacesOf
<1> QED BY <1>1, <1>2, NoneGiven DEF TextOf

\* The places above a place come before it.
LEMMA AboveIs ==
  ASSUME NEW s \in Settings, NEW k \in DOMAIN Places[s], NEW q
  PROVE  q \in Above(Places[s][k], s) <=> \E j \in 1..(k - 1) : q = Places[s][j]
<1>1. PICK n \in 1..4 : /\ DOMAIN Places[s] = 1..n
                        /\ \A i, j \in 1..n : Places[s][i] = Places[s][j] => i = j
  BY PlacesAre
<1>2. ASSUME NEW j \in 1..(k - 1) PROVE Places[s][j] \in Above(Places[s][k], s)
  <2>1. j \in 1..n /\ \A i \in 1..j : i \in 1..n /\ i # k
    BY <1>1
  <2>2. \A i \in 1..j : Places[s][i] # Places[s][k]
    BY <1>1, <2>1
  <2> QED BY <1>1, <2>1, <2>2 DEF Above
<1>3. ASSUME q \in Above(Places[s][k], s) PROVE \E j \in 1..(k - 1) : q = Places[s][j]
  <2>1. PICK j \in 1..n : q = Places[s][j] /\ \A i \in 1..j : Places[s][i] # Places[s][k]
    BY <1>1, <1>3 DEF Above
  <2>2. j < k
    BY <1>1, <2>1
  <2> QED BY <1>1, <2>1, <2>2
<1> QED BY <1>2, <1>3

LEMMA TextGiven ==
  ASSUME NEW g, NEW s \in Settings, NEW p \in PlacesOf(s), Gives(g, p, s),
         \A q \in Above(p, s) : ~Gives(g, q, s)
  PROVE  TextOf(g, s) = g[<<p, s>>]
<1>1. PICK k \in DOMAIN Places[s] : p = Places[s][k]
  BY DEF PlacesOf
<1>2. \A j \in 1..(k - 1) : ~Gives(g, Places[s][j], s)
  BY <1>1, AboveIs
<1> QED BY <1>1, <1>2, FirstPlace

\* A setting has the same text where nothing changed but at one place, and
\* that place gives nothing, or a place above it gives something.
LEMMA SameText ==
  ASSUME NEW g, NEW h, NEW s \in Settings, NEW p,
         \A q \in PlacesOf(s) \ {p} : (Gives(g, q, s) <=> Gives(h, q, s)) /\ g[<<q, s>>] = h[<<q, s>>],
         \/ p \notin PlacesOf(s)
         \/ ~Gives(g, p, s) /\ ~Gives(h, p, s)
         \/ p \in PlacesOf(s) /\ \E q \in Above(p, s) : Gives(g, q, s)
  PROVE  TextOf(g, s) = TextOf(h, s)
<1>1. PICK n \in 1..4 : /\ DOMAIN Places[s] = 1..n
                        /\ \A i, j \in 1..n : Places[s][i] = Places[s][j] => i = j
  BY PlacesAre
<1>2. \A j \in 1..n : Places[s][j] \in PlacesOf(s)
  BY <1>1 DEF PlacesOf
<1> DEFINE S == {j \in 1..n : Gives(g, Places[s][j], s)}
<1>3. CASE S = {}
  <2>1. \A q \in PlacesOf(s) : ~Gives(g, q, s)
    BY <1>1, <1>3 DEF PlacesOf
  <2>2. \A q \in PlacesOf(s) : q \in Above(p, s) => ~Gives(g, q, s)
    BY <2>1
  <2>3. ~\E q \in Above(p, s) : Gives(g, q, s)
    BY <2>1 DEF Above, PlacesOf
  <2>4. \A q \in PlacesOf(s) : ~Gives(h, q, s)
    BY <2>1, <2>3
  <2> QED BY <2>1, <2>4, NoPlace
<1>4. CASE S # {}
  <2>1. S \in SUBSET (1..4)
    OBVIOUS
  <2>2. PICK d \in S : \A j \in 1..(d - 1) : j \notin S
    BY <1>4, <2>1, LeastIn
  <2>3. d \in 1..n /\ Gives(g, Places[s][d], s) /\ \A j \in 1..(d - 1) : ~Gives(g, Places[s][j], s)
    BY <2>2
  <2> HIDE DEF S
  <2>10. \A j \in 1..d : j \in 1..n
    BY <2>3
  <2>4. \A j \in 1..d : Gives(g, Places[s][j], s) <=> Gives(h, Places[s][j], s)
    <3>1. CASE ~Gives(g, p, s) /\ ~Gives(h, p, s)
      BY <1>2, <2>10, <3>1
    <3>2. CASE p \in PlacesOf(s) /\ \E q \in Above(p, s) : Gives(g, q, s)
      <4>1. PICK k \in 1..n : p = Places[s][k]
        BY <1>1, <3>2 DEF PlacesOf
      <4>2. PICK m \in 1..(k - 1) : Gives(g, Places[s][m], s)
        <5>1. PICK q \in Above(p, s) : Gives(g, q, s)
          BY <3>2
        <5>2. \E m \in 1..(k - 1) : q = Places[s][m]
          <6>1. q \in Above(Places[s][k], s) /\ k \in DOMAIN Places[s]
            BY <1>1, <4>1, <5>1
          <6> QED BY <6>1, AboveIs
        <5> QED BY <5>1, <5>2
      <4>3. d < k
        BY <2>3, <4>2
      <4>4. \A j \in 1..d : j \in 1..n /\ j # k
        BY <2>3, <4>3
      <4>5. \A j \in 1..d : Places[s][j] # p
        BY <1>1, <4>1, <4>4
      <4> QED BY <1>2, <4>4, <4>5
    <3>3. CASE p \notin PlacesOf(s)
      BY <1>2, <2>10, <3>3
    <3> QED BY <3>1, <3>2, <3>3
  <2>5. Places[s][d] # p
    <3>1. CASE ~Gives(g, p, s) /\ ~Gives(h, p, s)
      BY <2>3, <3>1
    <3>2. CASE p \in PlacesOf(s) /\ \E q \in Above(p, s) : Gives(g, q, s)
      <4>1. PICK k \in 1..n : p = Places[s][k]
        BY <1>1, <3>2 DEF PlacesOf
      <4>2. PICK m \in 1..(k - 1) : Gives(g, Places[s][m], s)
        <5>1. PICK q \in Above(p, s) : Gives(g, q, s)
          BY <3>2
        <5>2. \E m \in 1..(k - 1) : q = Places[s][m]
          <6>1. q \in Above(Places[s][k], s) /\ k \in DOMAIN Places[s]
            BY <1>1, <4>1, <5>1
          <6> QED BY <6>1, AboveIs
        <5> QED BY <5>1, <5>2
      <4>3. d < k
        BY <2>3, <4>2
      <4> QED BY <1>1, <2>3, <4>1, <4>3
    <3>3. CASE p \notin PlacesOf(s)
      BY <1>2, <2>3, <3>3
    <3> QED BY <3>1, <3>2, <3>3
  <2>6. TextOf(g, s) = g[<<Places[s][d], s>>]
    BY <1>1, <2>3, FirstPlace
  <2>7. Gives(h, Places[s][d], s) /\ \A j \in 1..(d - 1) : ~Gives(h, Places[s][j], s)
    BY <2>3, <2>4
  <2>8. TextOf(h, s) = h[<<Places[s][d], s>>]
    BY <1>1, <2>3, <2>7, FirstPlace
  <2>9. g[<<Places[s][d], s>>] = h[<<Places[s][d], s>>]
    BY <1>2, <2>3, <2>5
  <2> QED BY <2>6, <2>8, <2>9
<1> QED BY <1>3, <1>4

-----------------------------------------------------------------------------
(* One more input: what Load makes of it.                                  *)

OneMore(g, h, p, s, text) ==
  /\ s \in Settings \ {"config"} /\ p \in PlacesOf(s)
  /\ g[<<p, s>>] = None /\ h[<<p, s>>] = text
  /\ text \in TextsAt(p, s)
  /\ p = "file" => FileInUse(g)
  /\ \A i \in Inputs : i # <<p, s>> => h[i] = g[i]

LEMMA SameFile ==
  ASSUME NEW g, NEW h, NEW p, NEW s, NEW text, OneMore(g, h, p, s, text)
  PROVE  FileOf(h) = FileOf(g) /\ (FileInUse(h) <=> FileInUse(g))
<1>1. \A q \in PlacesOf("config") : h[<<q, "config">>] = g[<<q, "config">>] /\ q # "file"
  <2>1. PlacesOf("config") = {"flag", "env"}
    <3>1. DOMAIN Places["config"] = 1..2 /\ Places["config"][1] = "flag" /\ Places["config"][2] = "env"
      BY DEF Places
    <3>2. 1..2 = {1, 2}
      OBVIOUS
    <3> QED BY <3>1, <3>2 DEF PlacesOf
  <2>2. \A q \in PlacesOf("config") : <<q, "config">> \in Inputs /\ <<q, "config">> # <<p, s>>
    BY SettingsAre, InputsAre DEF OneMore
  <2> QED BY <2>1, <2>2 DEF OneMore
<1>2. Options(h, "config", FALSE) = Options(g, "config", FALSE)
  <2>1. \A i \in DOMAIN Places["config"] : Places["config"][i] \in PlacesOf("config")
    BY DEF PlacesOf
  <2> QED BY <1>1, <2>1 DEF Options
<1> QED BY <1>2 DEF FileOf, FileInUse

LEMMA SameGives ==
  ASSUME NEW g, NEW h, NEW p, NEW s, NEW text, OneMore(g, h, p, s, text),
         NEW r \in Settings, NEW q \in PlacesOf(r), q # p \/ r # s
  PROVE  (Gives(g, q, r) <=> Gives(h, q, r)) /\ g[<<q, r>>] = h[<<q, r>>]
<1>1. <<q, r>> \in Inputs /\ <<q, r>> # <<p, s>>
  BY InputsAre
<1>2. g[<<q, r>>] = h[<<q, r>>]
  BY <1>1 DEF OneMore
<1> QED BY <1>2, SameFile DEF Gives

LEMMA OtherText ==
  ASSUME NEW g, NEW h, NEW p, NEW s, NEW text, OneMore(g, h, p, s, text),
         NEW r \in Settings, r # s
  PROVE  TextOf(h, r) = TextOf(g, r)
<1>1. PICK nowhere : nowhere \notin PlacesOf(r)
  <2>1. \E x : x \notin PlacesOf(r)
    BY NoSetContainsEverything
  <2> QED BY <2>1
<1>2. \A q \in PlacesOf(r) : (Gives(g, q, r) <=> Gives(h, q, r)) /\ g[<<q, r>>] = h[<<q, r>>]
  BY SameGives
<1> QED BY <1>1, <1>2, SameText

\* A text gives its setting a value unless it is null.
LEMMA NewGives ==
  ASSUME NEW g, NEW h, NEW p, NEW s, NEW text, OneMore(g, h, p, s, text)
  PROVE  /\ ~Gives(g, p, s)
         /\ text # None
         /\ text = Null => p = "file"
         /\ Gives(h, p, s) <=> text # Null
<1>1. <<p, s>> \in Inputs
  BY InputsAre DEF OneMore
<1>2. text # None /\ (p # "file" => text # Null)
  <2>1. PICK i \in Inputs : i = <<p, s>>
    BY <1>1
  <2>2. i[1] = p /\ i[2] = s /\ text \in TextsAt(i[1], i[2])
    BY <2>1 DEF OneMore
  <2> QED BY <2>2, TextsAre
<1> QED BY <1>2, SameFile DEF OneMore, Gives

LEMMA BeatenText ==
  ASSUME NEW g, NEW h, NEW p, NEW s, NEW text, OneMore(g, h, p, s, text),
         text = Null \/ \E q \in Above(p, s) : Gives(g, q, s)
  PROVE  TextOf(h, s) = TextOf(g, s)
<1>1. s \in Settings /\ p \in PlacesOf(s)
  BY DEF OneMore
<1>2. \A q \in PlacesOf(s) \ {p} : (Gives(g, q, s) <=> Gives(h, q, s)) /\ g[<<q, s>>] = h[<<q, s>>]
  BY <1>1, SameGives
<1>3. \/ ~Gives(g, p, s) /\ ~Gives(h, p, s)
      \/ \E q \in Above(p, s) : Gives(g, q, s)
  BY NewGives
<1> QED BY <1>1, <1>2, <1>3, SameText

LEMMA AbovePlaces ==
  ASSUME NEW s \in Settings, NEW p, NEW q \in Above(p, s)
  PROVE  q \in PlacesOf(s) /\ q # p
<1>1. PICK n \in 1..4 : DOMAIN Places[s] = 1..n
  BY PlacesAre
<1>2. PICK i \in 1..n : q = Places[s][i] /\ \A j \in 1..i : Places[s][j] # p
  BY <1>1 DEF Above
<1>3. i \in 1..i
  BY <1>2
<1> QED BY <1>1, <1>2, <1>3 DEF PlacesOf

LEMMA NewText ==
  ASSUME NEW g, NEW h, NEW p, NEW s, NEW text, OneMore(g, h, p, s, text),
         text # Null, ~\E q \in Above(p, s) : Gives(g, q, s)
  PROVE  TextOf(h, s) = text
<1>1. s \in Settings /\ p \in PlacesOf(s)
  BY DEF OneMore
<1>2. \A q \in Above(p, s) : ~Gives(h, q, s)
  <2>1. ASSUME NEW q \in Above(p, s) PROVE ~Gives(h, q, s)
    <3>1. q \in PlacesOf(s) /\ q # p
      BY <1>1, AbovePlaces
    <3>2. Gives(g, q, s) <=> Gives(h, q, s)
      BY <1>1, <3>1, SameGives
    <3> QED BY <3>2
  <2> QED BY <2>1
<1>3. Gives(h, p, s)
  BY NewGives
<1>4. TextOf(h, s) = h[<<p, s>>]
  BY <1>1, <1>2, <1>3, TextGiven
<1> QED BY <1>4 DEF OneMore

LEMMA SameFileError ==
  ASSUME NEW g, NEW h, NEW p, NEW s, NEW text, OneMore(g, h, p, s, text), text # Unset
  PROVE  FileError(h) <=> FileError(g)
<1>1. <<p, s>> \in Inputs /\ h[<<p, s>>] # Unset /\ g[<<p, s>>] # Unset
  BY InputsAre DEF OneMore, None, Unset
<1>2. \A i \in Inputs : h[i] = Unset <=> g[i] = Unset
  BY <1>1 DEF OneMore
<1> QED BY <1>2, SameFile DEF FileError

LEMMA SameSettings ==
  /\ "password" \in Settings /\ "passwordFile" \in Settings /\ "port" \in Settings /\ "dsn" \in Settings
  /\ "host" \in Settings /\ "maxRows" \in Settings /\ "queryTimeoutMs" \in Settings
  /\ "type" \in Settings /\ "httpPort" \in Settings /\ "readOnly" \in Settings
BY SettingsAre

\* A password file, wherever it is given, goes before a password.
LEMMA FileBeforePassword ==
  ASSUME NEW g
  PROVE  TextOf(g, "passwordFile") # None <=> \E q \in PlacesOf("passwordFile") : Gives(g, q, "passwordFile")
<1>1. ASSUME \A q \in PlacesOf("passwordFile") : ~Gives(g, q, "passwordFile")
      PROVE  TextOf(g, "passwordFile") = None
  BY <1>1, SameSettings, NoPlace
<1>2. ASSUME \E q \in PlacesOf("passwordFile") : Gives(g, q, "passwordFile")
      PROVE  TextOf(g, "passwordFile") # None
  <2>1. /\ PlacesOf("passwordFile") = {"file", "env"}
        /\ Above("file", "passwordFile") = {} /\ Above("env", "passwordFile") = {"file"}
    <3>1. DOMAIN Places["passwordFile"] = 1..2 /\ Places["passwordFile"][1] = "file"
          /\ Places["passwordFile"][2] = "env"
      BY DEF Places
    <3>2. 1..2 = {1, 2}
      OBVIOUS
    <3>3. PlacesOf("passwordFile") = {"file", "env"}
      BY <3>1, <3>2 DEF PlacesOf
    <3>4. \A q : q \in Above("file", "passwordFile") <=> \E j \in 1..(1 - 1) : q = Places["passwordFile"][j]
      BY <3>1, SameSettings, AboveIs
    <3>5. \A q : q \in Above("env", "passwordFile") <=> \E j \in 1..(2 - 1) : q = Places["passwordFile"][j]
      BY <3>1, SameSettings, AboveIs
    <3>6. 1..(1 - 1) = {} /\ 1..(2 - 1) = {1}
      OBVIOUS
    <3> QED BY <3>1, <3>3, <3>4, <3>5, <3>6
  <2>2. CASE Gives(g, "file", "passwordFile")
    <3>1. TextOf(g, "passwordFile") = g[<<"file", "passwordFile">>]
      BY <2>1, <2>2, SameSettings, TextGiven
    <3> QED BY <2>2, <3>1 DEF Gives
  <2>3. CASE ~Gives(g, "file", "passwordFile")
    <3>1. Gives(g, "env", "passwordFile")
      BY <1>2, <2>1, <2>3
    <3>2. TextOf(g, "passwordFile") = g[<<"env", "passwordFile">>]
      BY <2>1, <2>3, <3>1, SameSettings, TextGiven
    <3> QED BY <3>1, <3>2 DEF Gives
  <2> QED BY <2>2, <2>3
<1> QED BY <1>1, <1>2

LEMMA SamePassword ==
  ASSUME NEW g, NEW h, NEW p, NEW s, NEW text, OneMore(g, h, p, s, text),
         s \notin {"password", "passwordFile"} \/ text = Null \/ Outranked(g, p, s)
  PROVE  PasswordOf(h) = PasswordOf(g)
<1>1. s # "passwordFile" => TextOf(h, "passwordFile") = TextOf(g, "passwordFile")
  BY SameSettings, OtherText
<1>2. s # "password" => TextOf(h, "password") = TextOf(g, "password")
  BY SameSettings, OtherText
<1>3. CASE text = Null \/ \E q \in Above(p, s) : Gives(g, q, s)
  <2>1. TextOf(h, s) = TextOf(g, s)
    BY <1>3, BeatenText
  <2> QED BY <1>1, <1>2, <2>1 DEF PasswordOf
<1>4. CASE s = "password" /\ \E q \in PlacesOf("passwordFile") : Gives(g, q, "passwordFile")
  <2>1. TextOf(g, "passwordFile") # None
    BY <1>4, FileBeforePassword
  <2> QED BY <1>1, <1>4, <2>1 DEF PasswordOf
<1>5. CASE s \notin {"password", "passwordFile"}
  BY <1>1, <1>2, <1>5 DEF PasswordOf
<1> QED BY <1>3, <1>4, <1>5 DEF Outranked

LEMMA ReadOnlyTexts ==
  ASSUME NEW g, NEW h, NEW p, NEW text, OneMore(g, h, p, "readOnly", text)
  PROVE  /\ p \in {"flag", "file", "env"}
         /\ p = "flag" => text = "false"
         /\ p = "env" => text \in {"true", "false"}
         /\ p = "file" => text \in {"true", "false", Null, Unset} /\ FileInUse(g)
         /\ p # "flag" => h[<<"flag", "readOnly">>] = g[<<"flag", "readOnly">>]
         /\ p # "file" => h[<<"file", "readOnly">>] = g[<<"file", "readOnly">>]
         /\ p # "env" => h[<<"env", "readOnly">>] = g[<<"env", "readOnly">>]
<1>1. p \in {"flag", "file", "env"}
  BY ReadOnlyRanks DEF OneMore
<1>2. /\ <<"flag", "readOnly">> \in Inputs /\ <<"file", "readOnly">> \in Inputs
      /\ <<"env", "readOnly">> \in Inputs
  BY ReadOnlyPlaces, ReadOnlyRanks, InputsAre
<1>3. /\ p # "flag" => h[<<"flag", "readOnly">>] = g[<<"flag", "readOnly">>]
      /\ p # "file" => h[<<"file", "readOnly">>] = g[<<"file", "readOnly">>]
      /\ p # "env" => h[<<"env", "readOnly">>] = g[<<"env", "readOnly">>]
  BY <1>2 DEF OneMore
<1>4. /\ TextsAt("flag", "readOnly") = {"false"}
      /\ TextsAt("file", "readOnly") = {"true", "false"} \union {Null, Unset}
      /\ TextsAt("env", "readOnly") = {"true", "false"}
  BY DEF TextsAt, Texts
<1> QED BY <1>1, <1>3, <1>4 DEF OneMore

LEMMA ReadOnlyIs ==
  ASSUME NEW g
  PROVE  /\ g[<<"flag", "readOnly">>] # None => ReadOnlyOf(g, FileInUse(g)) = FALSE
         /\ g[<<"flag", "readOnly">>] = None /\ FileInUse(g) /\ g[<<"file", "readOnly">>] \in {"true", "false"}
              => ReadOnlyOf(g, FileInUse(g)) = (g[<<"file", "readOnly">>] = "true")
         /\ g[<<"flag", "readOnly">>] = None
              /\ ~(FileInUse(g) /\ g[<<"file", "readOnly">>] \in {"true", "false"})
              => ReadOnlyOf(g, FileInUse(g)) = (g[<<"env", "readOnly">>] # "false")
BY DEF ReadOnlyOf

LEMMA SameReadOnly ==
  ASSUME NEW g, NEW h, NEW p, NEW s, NEW text, OneMore(g, h, p, s, text),
         \A i \in Inputs : g[i] = None \/ g[i] \in TextsAt(i[1], i[2]),
         s # "readOnly" \/ (~FileError(g) /\ (text = Null \/ Outranked(g, p, s)))
  PROVE  ReadOnlyOf(h, FileInUse(h)) <=> ReadOnlyOf(g, FileInUse(g))
<1>1. FileInUse(h) <=> FileInUse(g)
  BY SameFile
<1>2. /\ <<"flag", "readOnly">> \in Inputs /\ <<"file", "readOnly">> \in Inputs
      /\ <<"env", "readOnly">> \in Inputs
  BY ReadOnlyPlaces, ReadOnlyRanks, InputsAre
<1>3. CASE s # "readOnly"
  <2>1. /\ h[<<"flag", "readOnly">>] = g[<<"flag", "readOnly">>]
        /\ h[<<"file", "readOnly">>] = g[<<"file", "readOnly">>]
        /\ h[<<"env", "readOnly">>] = g[<<"env", "readOnly">>]
    BY <1>2, <1>3 DEF OneMore
  <2> QED BY <1>1, <2>1, ReadOnlyIs
<1>4. CASE s = "readOnly"
  <2>0. OneMore(g, h, p, "readOnly", text) /\ g[<<p, "readOnly">>] = None /\ h[<<p, "readOnly">>] = text
    BY <1>4 DEF OneMore
  <2>1. CASE text = Null
    <3>1. p = "file"
      BY <2>1, NewGives
    <3>2. Null \notin {"true", "false"} /\ None \notin {"true", "false"}
      BY DEF Null, None
    <3>3. /\ h[<<"flag", "readOnly">>] = g[<<"flag", "readOnly">>]
          /\ h[<<"env", "readOnly">>] = g[<<"env", "readOnly">>]
      BY <2>0, <3>1, ReadOnlyTexts
    <3>4. h[<<"file", "readOnly">>] \notin {"true", "false"} /\ g[<<"file", "readOnly">>] \notin {"true", "false"}
      BY <2>0, <2>1, <3>1, <3>2
    <3> QED BY <1>1, <3>3, <3>4, ReadOnlyIs
  <2>2. CASE Outranked(g, p, s) /\ ~FileError(g)
    <3>1. PICK q \in Above(p, "readOnly") : Gives(g, q, "readOnly")
      BY <1>4, <2>2 DEF Outranked
    <3>2. p \in {"flag", "file", "env"}
      BY <2>0, ReadOnlyTexts
    <3>3. CASE q = "flag"
      <4>1. p # "flag"
        BY <3>1, <3>3, ReadOnlyRanks
      <4>2. g[<<"flag", "readOnly">>] # None
        BY <3>1, <3>3 DEF Gives
      <4>3. h[<<"flag", "readOnly">>] = g[<<"flag", "readOnly">>]
        BY <2>0, <4>1, ReadOnlyTexts
      <4> QED BY <4>2, <4>3, ReadOnlyIs
    <3>4. CASE q = "file"
      <4>1. p = "env"
        BY <3>1, <3>2, <3>4, ReadOnlyRanks
      <4>2. FileInUse(g) /\ g[<<"file", "readOnly">>] # None /\ g[<<"file", "readOnly">>] # Null
        BY <3>1, <3>4 DEF Gives
      <4>3. g[<<"file", "readOnly">>] # Unset
        BY <1>2, <2>2, <4>2 DEF FileError
      <4>4. g[<<"file", "readOnly">>] \in {"true", "false"}
        <5>1. TextsAt("file", "readOnly") = {"true", "false"} \union {Null, Unset}
          BY DEF TextsAt, Texts
        <5> QED BY <1>2, <4>2, <4>3, <5>1
      <4>5. /\ h[<<"flag", "readOnly">>] = g[<<"flag", "readOnly">>]
            /\ h[<<"file", "readOnly">>] = g[<<"file", "readOnly">>]
        BY <2>0, <4>1, ReadOnlyTexts
      <4> QED BY <1>1, <4>2, <4>4, <4>5, ReadOnlyIs
    <3> QED BY <3>1, <3>2, <3>3, <3>4, ReadOnlyRanks
  <2> QED BY <1>4, <2>1, <2>2
<1> QED BY <1>3, <1>4

LEMMA SameErrors ==
  ASSUME NEW g, NEW h, FileError(h) <=> FileError(g), PasswordOf(h) = PasswordOf(g), PortOf(h) = PortOf(g),
         MaxRowsOf(h) = MaxRowsOf(g), TimeoutOf(h) = TimeoutOf(g), HttpPortOf(h) = HttpPortOf(g)
  PROVE  EarlyError(h) = EarlyError(g) /\ LateError(h) = LateError(g)
<1>1. EarlyError(h) = EarlyError(g)
  <2>1. CASE FileError(g)
    <3>1. EarlyError(g) = "file"
      BY <2>1, EarlyIs
    <3>2. EarlyError(h) = "file"
      BY <2>1, EarlyIs
    <3> QED BY <3>1, <3>2
  <2>2. CASE ~FileError(g) /\ PasswordOf(g) = "unreadable"
    BY <2>2, EarlyIs
  <2>3. CASE ~FileError(g) /\ PasswordOf(g) # "unreadable"
    <3>1. EarlyError(g) = None
      BY <2>3, EarlyIs
    <3>2. EarlyError(h) = None
      BY <2>3, EarlyIs
    <3> QED BY <3>1, <3>2
  <2> QED BY <2>1, <2>2, <2>3
<1>2. LateError(h) = LateError(g)
  BY LateIs
<1> QED BY <1>1, <1>2

LEMMA SameNumbers ==
  ASSUME NEW g, NEW h
  PROVE  /\ TextOf(h, "port") = TextOf(g, "port") => PortOf(h) = PortOf(g)
         /\ TextOf(h, "maxRows") = TextOf(g, "maxRows") => MaxRowsOf(h) = MaxRowsOf(g)
         /\ TextOf(h, "queryTimeoutMs") = TextOf(g, "queryTimeoutMs") => TimeoutOf(h) = TimeoutOf(g)
         /\ TextOf(h, "httpPort") = TextOf(g, "httpPort") => HttpPortOf(h) = HttpPortOf(g)
<1>1. TextOf(h, "port") = TextOf(g, "port") => PortOf(h) = PortOf(g)
  BY Zenon DEF PortOf
<1>2. TextOf(h, "maxRows") = TextOf(g, "maxRows") => MaxRowsOf(h) = MaxRowsOf(g)
  BY Zenon DEF MaxRowsOf
<1>3. TextOf(h, "queryTimeoutMs") = TextOf(g, "queryTimeoutMs") => TimeoutOf(h) = TimeoutOf(g)
  BY DEF TimeoutOf
<1>4. TextOf(h, "httpPort") = TextOf(g, "httpPort") => HttpPortOf(h) = HttpPortOf(g)
  BY DEF HttpPortOf
<1> QED BY <1>1, <1>2, <1>3, <1>4

\* Where a higher place gives the setting, nothing changes.
LEMMA BeatenChangesNothing ==
  ASSUME NEW g, NEW h, NEW p, NEW s, NEW text, OneMore(g, h, p, s, text),
         \A i \in Inputs : g[i] = None \/ g[i] \in TextsAt(i[1], i[2]),
         text = Null \/ Outranked(g, p, s), text # Unset
  PROVE  IF Load(g).error = None THEN Load(h) = Load(g) ELSE Load(h).error = Load(g).error
<1>1. ASSUME NEW r \in Settings, r # "password" PROVE TextOf(h, r) = TextOf(g, r)
  <2>1. CASE r # s
    BY <2>1, OtherText
  <2>2. CASE r = s
    <3>1. text = Null \/ \E q \in Above(p, s) : Gives(g, q, s)
      BY <1>1, <2>2 DEF Outranked
    <3> QED BY <2>2, <3>1, BeatenText
  <2> QED BY <2>1, <2>2
<1>2. PasswordOf(h) = PasswordOf(g)
  BY SamePassword
<1>3. FileError(h) <=> FileError(g)
  BY SameFileError
<1>4. /\ PortOf(h) = PortOf(g) /\ MaxRowsOf(h) = MaxRowsOf(g)
      /\ TimeoutOf(h) = TimeoutOf(g) /\ HttpPortOf(h) = HttpPortOf(g)
  BY <1>1, SameSettings, SameNumbers
<1>5. EarlyError(h) = EarlyError(g) /\ LateError(h) = LateError(g)
  BY <1>2, <1>3, <1>4, SameErrors
<1>6. Load(h).error = Load(g).error
  BY <1>5, FieldsAre
<1>7. ASSUME Load(g).error = None PROVE Load(h) = Load(g)
  <2>1. ReadOnlyOf(h, FileInUse(h)) = ReadOnlyOf(g, FileInUse(g))
    <3>1. ReadOnlyOf(h, FileInUse(h)) <=> ReadOnlyOf(g, FileInUse(g))
      BY <1>7, NoError, SameReadOnly
    <3>2. ReadOnlyOf(h, FileInUse(h)) \in BOOLEAN /\ ReadOnlyOf(g, FileInUse(g)) \in BOOLEAN
      BY DEF ReadOnlyOf
    <3> QED BY <3>1, <3>2
  <2>2. TextOf(h, "dsn") = TextOf(g, "dsn") /\ TextOf(h, "host") = TextOf(g, "host")
        /\ TextOf(h, "type") = TextOf(g, "type")
    BY <1>1, SameSettings
  <2> QED BY <1>2, <1>4, <1>5, <2>1, <2>2, LoadIs, Zenon
<1> QED BY <1>6, <1>7

\* Whatever is given, it changes its own setting only.
LEMMA OthersAreSame ==
  ASSUME NEW g, NEW h, NEW p, NEW s, NEW text, OneMore(g, h, p, s, text),
         \A i \in Inputs : g[i] = None \/ g[i] \in TextsAt(i[1], i[2]),
         Load(g).error = None, Load(h).error = None,
         NEW f \in DOMAIN Load(h) \ {FieldOf(s), "secrets"}
  PROVE  Load(h)[f] = Load(g)[f]
<1>1. ASSUME NEW r \in Settings, r # s PROVE TextOf(h, r) = TextOf(g, r)
  BY <1>1, OtherText
<1>2. FieldOf(s) = IF s = "passwordFile" THEN "password" ELSE s
  BY DEF FieldOf
<1>3. CASE f = "error"
  BY <1>3
<1>4. CASE f = "dsn"
  BY <1>1, <1>2, <1>4, SameSettings, FieldsAre
<1>5. CASE f = "host"
  BY <1>1, <1>2, <1>5, SameSettings, FieldsAre
<1>6. CASE f = "type"
  <2>1. TextOf(h, "type") = TextOf(g, "type")
    BY <1>1, <1>2, <1>6, SameSettings
  <2> QED BY <1>6, <2>1, FieldsAre
<1>7. CASE f = "password"
  <2>1. PasswordOf(h) = PasswordOf(g)
    BY <1>2, <1>7, SamePassword
  <2> QED BY <1>7, <2>1, FieldsAre
<1>8. CASE f = "readOnly"
  <2>1. ReadOnlyOf(h, FileInUse(h)) <=> ReadOnlyOf(g, FileInUse(g))
    BY <1>2, <1>8, SameReadOnly
  <2>2. ReadOnlyOf(h, FileInUse(h)) \in BOOLEAN /\ ReadOnlyOf(g, FileInUse(g)) \in BOOLEAN
    BY DEF ReadOnlyOf
  <2> QED BY <1>8, <2>1, <2>2, FieldsAre
<1>9. CASE f = "port"
  BY <1>1, <1>2, <1>9, SameSettings, SameNumbers, FieldsAre
<1>10. CASE f = "maxRows"
  BY <1>1, <1>2, <1>10, SameSettings, SameNumbers, FieldsAre
<1>11. CASE f = "queryTimeoutMs"
  BY <1>1, <1>2, <1>11, SameSettings, SameNumbers, FieldsAre
<1>12. CASE f = "httpPort"
  BY <1>1, <1>2, <1>12, SameSettings, SameNumbers, FieldsAre
<1> QED BY <1>3, <1>4, <1>5, <1>6, <1>7, <1>8, <1>9, <1>10, <1>11, <1>12, FieldsAre

-----------------------------------------------------------------------------
(* One more input: what counts.                                            *)

LEMMA SettingTexts ==
  ASSUME NEW g, NEW h, NEW p, NEW s, NEW text, OneMore(g, h, p, s, text), text # Null, ~FileError(h)
  PROVE  text \in Texts[s]
<1>1. <<p, s>> \in Inputs
  BY InputsAre DEF OneMore
<1>2. PICK i \in Inputs : i = <<p, s>>
  BY <1>1
<1>3. i[1] = p /\ i[2] = s /\ text \in TextsAt(i[1], i[2])
  BY <1>2 DEF OneMore
<1>4. CASE p = "file"
  <2>1. FileInUse(h) /\ h[i] = text
    BY <1>2, <1>4, SameFile DEF OneMore
  <2>2. text # Unset
    BY <1>2, <1>3, <1>4, <2>1 DEF FileError
  <2>3. TextsAt(p, s) = Texts[s] \union {Null, Unset}
    BY <1>4 DEF TextsAt
  <2> QED BY <2>2, <2>3 DEF OneMore
<1>5. CASE p # "file"
  BY <1>2, <1>3, <1>5, TextsAre
<1> QED BY <1>4, <1>5

LEMMA NumberIs ==
  ASSUME NEW raw, raw # None, NEW default, NEW type, Number(raw, default, type) # Garbage
  PROVE  Number(raw, default, type) = Numeral[raw]
<1>1. CASE raw \in type
  BY <1>1 DEF Number
<1>2. CASE raw \notin type
  BY <1>2 DEF Number
<1> QED BY <1>1, <1>2

LEMMA PositiveNumber ==
  ASSUME NEW raw, raw # None, NEW default, Positive(raw, default) # Garbage
  PROVE  Positive(raw, default) = Numeral[raw]
<1>1. Positive(raw, default) = Number(raw, default, U64)
  BY DEF Positive
<1> QED BY <1>1, NumberIs

LEMMA MeaningIs ==
  ASSUME NEW s \in Settings \ {"config"}, NEW text
  PROVE  /\ s \in {"password", "passwordFile"} => Meaning(s, text) = IF text = "" THEN None ELSE text
         /\ s \in {"dsn", "host", "type"} => Meaning(s, text) = text
<1>1. CASE s \in {"password", "passwordFile"}
  BY <1>1 DEF Meaning
<1>2. CASE s \in {"dsn", "host", "type"}
  BY <1>2 DEF Meaning
<1> QED BY <1>1, <1>2

\* Where no higher place gives the setting, the new text is what counts.
LEMMA NewTextCounts ==
  ASSUME NEW g, NEW h, NEW p, NEW s, NEW text, OneMore(g, h, p, s, text),
         \A i \in Inputs : g[i] = None \/ g[i] \in TextsAt(i[1], i[2]),
         ~Outranked(g, p, s), text # Null, Load(h).error = None
  PROVE  Load(h)[FieldOf(s)] = Meaning(s, text)
<1>0. s \in Settings \ {"config"} /\ p \in PlacesOf(s)
  BY DEF OneMore
<1>1. TextOf(h, s) = text
  BY NewText DEF Outranked
<1>2. text # None
  BY NewGives
<1>3. /\ ~FileError(h) /\ PortOf(h) # Garbage /\ MaxRowsOf(h) # Garbage
      /\ TimeoutOf(h) # Garbage /\ HttpPortOf(h) # Garbage
  BY NoError
<1>4. text \in Texts[s]
  BY <1>3, SettingTexts
<1>5. CASE s = "port"
  <2>1. PortOf(h) = Numeral[text]
    BY <1>1, <1>2, <1>3, <1>5, NumberIs DEF PortOf
  <2>2. FieldOf(s) = "port" /\ Meaning(s, text) = Numeral[text]
    BY <1>5 DEF FieldOf, Meaning
  <2> QED BY <2>1, <2>2, FieldsAre
<1>6. CASE s = "maxRows"
  <2>1. MaxRowsOf(h) = Numeral[text]
    BY <1>1, <1>2, <1>3, <1>6, PositiveNumber DEF MaxRowsOf
  <2>2. FieldOf(s) = "maxRows" /\ Meaning(s, text) = Numeral[text]
    BY <1>6 DEF FieldOf, Meaning
  <2> QED BY <2>1, <2>2, FieldsAre
<1>7. CASE s = "queryTimeoutMs"
  <2>1. TimeoutOf(h) = Numeral[text]
    BY <1>1, <1>2, <1>3, <1>7, PositiveNumber DEF TimeoutOf
  <2>2. FieldOf(s) = "queryTimeoutMs" /\ Meaning(s, text) = Numeral[text]
    BY <1>7 DEF FieldOf, Meaning
  <2> QED BY <2>1, <2>2, FieldsAre
<1>8. CASE s = "httpPort"
  <2>1. HttpPortOf(h) = Numeral[text]
    BY <1>1, <1>2, <1>3, <1>8, NumberIs DEF HttpPortOf
  <2>2. FieldOf(s) = "httpPort" /\ Meaning(s, text) = Numeral[text]
    BY <1>8 DEF FieldOf, Meaning
  <2> QED BY <2>1, <2>2, FieldsAre
<1>9. CASE s \in {"password", "passwordFile"}
  <2>1. PasswordOf(h) = text
    <3>1. CASE s = "passwordFile"
      BY <1>1, <1>2, <3>1 DEF PasswordOf
    <3>2. CASE s = "password"
      <4>1. ~\E q \in PlacesOf("passwordFile") : Gives(g, q, "passwordFile")
        BY <3>2 DEF Outranked
      <4>2. TextOf(g, "passwordFile") = None
        BY <4>1, FileBeforePassword
      <4>3. TextOf(h, "passwordFile") = None
        BY <3>2, <4>2, SameSettings, OtherText
      <4> QED BY <1>1, <3>2, <4>3 DEF PasswordOf
    <3> QED BY <1>9, <3>1, <3>2
  <2>2. FieldOf(s) = "password"
    BY <1>9 DEF FieldOf
  <2>3. Meaning(s, text) = IF text = "" THEN None ELSE text
    BY <1>0, <1>9, MeaningIs
  <2> QED BY <2>1, <2>2, <2>3, FieldsAre
<1>10. CASE s = "dsn"
  <2>1. FieldOf(s) = "dsn" /\ Meaning(s, text) = text
    BY <1>0, <1>10, MeaningIs DEF FieldOf
  <2> QED BY <1>1, <1>10, <2>1, FieldsAre
<1>11. CASE s = "host"
  <2>1. FieldOf(s) = "host" /\ Meaning(s, text) = text
    BY <1>0, <1>11, MeaningIs DEF FieldOf
  <2> QED BY <1>1, <1>11, <2>1, FieldsAre
<1>12. CASE s = "type"
  <2>1. OrElse(<<TextOf(h, "type"), "stdio">>) = text
    BY <1>1, <1>2, <1>12, OrElseOf
  <2>2. FieldOf(s) = "type" /\ Meaning(s, text) = text
    BY <1>0, <1>12, MeaningIs DEF FieldOf
  <2> QED BY <2>1, <2>2, FieldsAre
<1>13. CASE s = "readOnly"
  <2>0. OneMore(g, h, p, "readOnly", text) /\ h[<<p, "readOnly">>] = text /\ text \in {"true", "false"}
    BY <1>4, <1>13 DEF OneMore, Texts
  <2>1. \A q \in Above(p, "readOnly") : ~Gives(g, q, "readOnly")
    BY <1>13 DEF Outranked
  <2>2. ReadOnlyOf(h, FileInUse(h)) = (text = "true")
    <3>1. CASE p = "flag"
      <4>1. h[<<"flag", "readOnly">>] = text /\ text = "false"
        BY <2>0, <3>1, ReadOnlyTexts
      <4>2. ReadOnlyOf(h, FileInUse(h)) = FALSE
        BY <1>2, <4>1, ReadOnlyIs
      <4> QED BY <4>1, <4>2
    <3>2. CASE p = "file"
      <4>1. g[<<"flag", "readOnly">>] = None
        BY <2>1, <3>2, ReadOnlyRanks DEF Gives
      <4>2. h[<<"flag", "readOnly">>] = None /\ FileInUse(h)
        BY <2>0, <3>2, <4>1, ReadOnlyTexts, SameFile
      <4> QED BY <2>0, <3>2, <4>2, ReadOnlyIs
    <3>3. CASE p = "env"
      <4>1. ~Gives(g, "flag", "readOnly") /\ ~Gives(g, "file", "readOnly")
        BY <2>1, <3>3, ReadOnlyRanks
      <4>2. g[<<"flag", "readOnly">>] = None
        BY <4>1 DEF Gives
      <4>3. ~(FileInUse(g) /\ g[<<"file", "readOnly">>] \in {"true", "false"})
        BY <4>1 DEF Gives, None, Null
      <4>4. h[<<"flag", "readOnly">>] = None
            /\ ~(FileInUse(h) /\ h[<<"file", "readOnly">>] \in {"true", "false"})
        BY <2>0, <3>3, <4>2, <4>3, ReadOnlyTexts, SameFile
      <4>5. ReadOnlyOf(h, FileInUse(h)) = (h[<<"env", "readOnly">>] # "false")
        BY <4>4, ReadOnlyIs
      <4> QED BY <2>0, <3>3, <4>5
    <3> QED BY <2>0, <3>1, <3>2, <3>3, ReadOnlyTexts
  <2>3. FieldOf(s) = "readOnly" /\ Meaning(s, text) = (text = "true")
    BY <1>13 DEF FieldOf, Meaning
  <2> QED BY <2>2, <2>3, FieldsAre
<1> QED BY <1>0, <1>5, <1>6, <1>7, <1>8, <1>9, <1>10, <1>11, <1>12, <1>13, SettingsAre

-----------------------------------------------------------------------------
(* Precedence, for every step.                                             *)

\* The step that sets up one more input.
LEMMA GiveIsOneMore ==
  ASSUME IInv, [Next]_vars, phase = "setup", phase' = "setup", NEW i \in Inputs, given'[i] # given[i]
  PROVE  OneMore(given, given', i[1], i[2], given'[i]) /\ i = <<i[1], i[2]>>
<1>1. \E k \in Inputs : \E text \in TextsAt(k[1], k[2]) : Give(k, text)
  <2>1. CASE Start
    BY <2>1 DEF Start, Exit
  <2>2. CASE Blocked \/ ExecuteSql \/ DescribeTable \/ Fails \/ Over
    <3>1. given' = given
      BY <2>2 DEF Blocked, ExecuteSql, DescribeTable, Fails, Over, Reply
    <3> QED BY <3>1
  <2>3. CASE UNCHANGED vars
    BY <2>3 DEF vars
  <2> QED BY <2>1, <2>2, <2>3 DEF Next
<1>2. PICK k \in Inputs : \E text \in TextsAt(k[1], k[2]) : Give(k, text)
  BY <1>1
<1>3. PICK text \in TextsAt(k[1], k[2]) : Give(k, text)
  BY <1>2
<1>4. DOMAIN given = Inputs
  BY DEF IInv, GivenOK
<1>5. i = k /\ given'[i] = text /\ \A j \in Inputs : j # k => given'[j] = given[j]
  BY <1>3, <1>4 DEF Give
<1>6. PICK s \in Settings : \E p \in PlacesOf(s) : i = <<p, s>>
  BY DEF Inputs
<1>7. PICK p \in PlacesOf(s) : i = <<p, s>>
  BY <1>6
<1>8. i[1] = p /\ i[2] = s
  BY <1>7
<1> QED BY <1>3, <1>5, <1>7, <1>8 DEF OneMore, Give

\* One more input changes its own setting only; it changes nothing where a
\* higher place gives the setting; and else it is what counts.
THEOREM OverridesHolds == Spec => Overrides
<1>1. ASSUME IInv, [Next]_vars,
             NEW i \in Inputs, phase = "setup", phase' = "setup", given'[i] # given[i]
      PROVE  /\ Load(given).error = None /\ Load(given').error = None =>
                  \A f \in DOMAIN Load(given') \ {FieldOf(i[2]), "secrets"} :
                    Load(given')[f] = Load(given)[f]
             /\ (Outranked(given, i[1], i[2]) \/ given'[i] = Null) /\ given'[i] # Unset =>
                  IF Load(given).error = None THEN Load(given') = Load(given)
                                              ELSE Load(given').error = Load(given).error
             /\ ~Outranked(given, i[1], i[2]) /\ given'[i] # Null /\ Load(given').error = None =>
                  Load(given')[FieldOf(i[2])] = Meaning(i[2], given'[i])
  <2>1. PICK h, text : h = given' /\ text = given'[i]
    OBVIOUS
  <2>2. OneMore(given, h, i[1], i[2], text)
    BY <1>1, <2>1, GiveIsOneMore
  <2>3. \A j \in Inputs : given[j] = None \/ given[j] \in TextsAt(j[1], j[2])
    BY <1>1 DEF IInv, GivenOK
  <2>4. Load(given).error = None /\ Load(h).error = None =>
          \A f \in DOMAIN Load(h) \ {FieldOf(i[2]), "secrets"} : Load(h)[f] = Load(given)[f]
    BY <2>2, <2>3, OthersAreSame
  <2>5. (Outranked(given, i[1], i[2]) \/ text = Null) /\ text # Unset =>
          IF Load(given).error = None THEN Load(h) = Load(given) ELSE Load(h).error = Load(given).error
    BY <2>2, <2>3, BeatenChangesNothing
  <2>6. ~Outranked(given, i[1], i[2]) /\ text # Null /\ Load(h).error = None =>
          Load(h)[FieldOf(i[2])] = Meaning(i[2], text)
    BY <2>2, <2>3, NewTextCounts
  <2> QED BY <2>1, <2>4, <2>5, <2>6, Zenon
<1>2. IInv /\ [Next]_vars =>
        [\A i \in Inputs : (phase = "setup" /\ phase' = "setup" /\ given'[i] # given[i]) =>
           LET text == given'[i]
               old == Load(given)
               new == Load(given')
               beaten == Outranked(given, i[1], i[2])
           IN /\ old.error = None /\ new.error = None =>
                   \A f \in DOMAIN new \ {FieldOf(i[2]), "secrets"} : new[f] = old[f]
              /\ (beaten \/ text = Null) /\ text # Unset =>
                   IF old.error = None THEN new = old ELSE new.error = old.error
              /\ ~beaten /\ text # Null /\ new.error = None =>
                   new[FieldOf(i[2])] = Meaning(i[2], text)]_vars
  BY <1>1, Zenon
<1> QED BY <1>2, Invariant, PTL DEF Spec, Overrides

-----------------------------------------------------------------------------
(* Induction: with sets, since the theorems of the library want operators. *)

\* A non-empty set of naturals has a least element.
LEMMA LeastNat ==
  ASSUME NEW T \in SUBSET Nat, T # {}
  PROVE  \E x \in T : \A y \in T : x <= y
<1> DEFINE R == OpToRel(<, Nat)
<1>1. IsWellFoundedOn(R, Nat) BY NatLessThanWellFounded
<1>2. \A i, j \in Nat : <<i, j>> \in R <=> i < j BY DEF OpToRel
<1> HIDE DEF R
<1>3. PICK x \in T : \A y \in T : <<y, x>> \notin R BY <1>1, WFMin
<1>4. ASSUME NEW y \in T PROVE x <= y
  <2>1. x \in Nat /\ y \in Nat /\ <<y, x>> \notin R BY <1>3
  <2> QED BY <1>2, <2>1
<1> QED BY <1>4

\* What holds at a, and at the successor of where it holds, holds up to b.
LEMMA Upwards ==
  ASSUME NEW a \in Nat, NEW b \in Nat, NEW S, a \in S,
         \A i \in a .. b - 1 : i \in S => i + 1 \in S
  PROVE  a..b \subseteq S
<1> DEFINE T == {i \in a..b : i \notin S}
<1>1. SUFFICES ASSUME T # {} PROVE FALSE OBVIOUS
<1>2. T \in SUBSET Nat OBVIOUS
<1>3. PICK x \in T : \A y \in T : x <= y BY <1>1, <1>2, LeastNat
<1>4. x # a /\ x \in a..b /\ x \notin S BY <1>3
<1>5. x - 1 \in a .. b - 1 /\ x - 1 \notin T BY <1>3, <1>4
<1>6. x - 1 \in S BY <1>5
<1> QED BY <1>4, <1>5, <1>6

\* A fold: the values in V after each of n positions, from start on, where step
\* gives the next value from the last one and the position.
Steps(V, n, step) == step \in [V \X (1..n) -> V]
Fold(V, start, n, step, f) ==
  /\ f \in [0..n -> V]
  /\ f[0] = start
  /\ \A i \in 1..n : f[i] = step[<<f[i - 1], i>>]

LEMMA FoldExists ==
  ASSUME NEW V, NEW start, start \in V, NEW n, n \in Nat, NEW step, Steps(V, n, step)
  PROVE  \E f : Fold(V, start, n, step, f)
<1> USE DEF Steps
<1> DEFINE S == {m \in 0..n : \E f : Fold(V, start, m, step, f)}
<1>1. 0 \in S
  <2> DEFINE f == [i \in 0..0 |-> start]
  <2>1. Fold(V, start, 0, step, f) BY DEF Fold
  <2> HIDE DEF f
  <2> QED BY <2>1
<1>2. ASSUME NEW m \in 0 .. n - 1, m \in S PROVE m + 1 \in S
  <2>1. PICK f : Fold(V, start, m, step, f) BY <1>2
  <2>2. m \in 0..m /\ m + 1 \in 1..n /\ f[m] \in V BY <2>1 DEF Fold
  <2> DEFINE x == step[<<f[m], m + 1>>]
             g == [i \in 0 .. m + 1 |-> IF i = m + 1 THEN x ELSE f[i]]
  <2>3. x \in V BY <2>2
  <2>4. g \in [0 .. m + 1 -> V] BY <2>1, <2>3 DEF Fold
  <2>5. g[m + 1] = x /\ \A i \in 0..m : g[i] = f[i] OBVIOUS
  <2> HIDE DEF g
  <2>6. g[0] = start BY <2>1, <2>5 DEF Fold
  <2>7. ASSUME NEW i \in 1 .. m + 1 PROVE g[i] = step[<<g[i - 1], i>>]
    <3>1. CASE i = m + 1
      <4>1. i - 1 = m /\ g[i - 1] = f[m] BY <2>2, <2>5, <3>1
      <4> QED BY <2>5, <3>1, <4>1
    <3>2. CASE i # m + 1
      <4>1. i \in 1..m /\ i \in 0..m /\ i - 1 \in 0..m BY <3>2
      <4>2. f[i] = step[<<f[i - 1], i>>] BY <2>1, <4>1 DEF Fold
      <4> QED BY <2>5, <4>1, <4>2
    <3> QED BY <3>1, <3>2
  <2>8. Fold(V, start, m + 1, step, g) BY <2>4, <2>6, <2>7 DEF Fold
  <2> QED BY <2>2, <2>8
<1> HIDE DEF S
<1>3. 0..n \subseteq S BY <1>1, <1>2, Upwards
<1>4. n \in S BY <1>3
<1> QED BY <1>4 DEF S

\* What takes the same steps is that fold.
LEMMA FoldIn ==
  ASSUME NEW V, NEW start, start \in V, NEW n, n \in Nat, NEW step, Steps(V, n, step),
         NEW f, f = [i \in 0..n |-> f[i]], f[0] = start,
         \A i \in 1..n : f[i - 1] \in V => f[i] = step[<<f[i - 1], i>>]
  PROVE  Fold(V, start, n, step, f)
<1> USE DEF Steps
<1> DEFINE S == {i \in 0..n : f[i] \in V}
<1>1. 0 \in S OBVIOUS
<1>2. ASSUME NEW i \in 0 .. n - 1, i \in S PROVE i + 1 \in S
  <2>1. i + 1 \in 1..n /\ i + 1 - 1 = i /\ f[i] \in V BY <1>2
  <2> DEFINE k == i + 1
  <2>2. k \in 1..n /\ k - 1 = i BY <2>1
  <2> HIDE DEF k
  <2>3. f[k] = step[<<f[i], k>>] BY <2>1, <2>2
  <2>4. step[<<f[i], k>>] \in V BY <2>1, <2>2
  <2>5. k \in S BY <2>2, <2>3, <2>4
  <2> QED BY <2>5 DEF k
<1>3. 0..n \subseteq S
  <2> HIDE DEF S
  <2> QED BY <1>1, <1>2, Upwards
<1>4. \A i \in 0..n : f[i] \in V BY <1>3
<1>5. f \in [0..n -> V] BY <1>4
<1>6. \A i \in 1..n : i - 1 \in 0..n OBVIOUS
<1> QED BY <1>4, <1>5, <1>6 DEF Fold

\* What two functions have in common at 0, and at a position once they have it
\* in common before it, they have in common.
Alike(n, f, g) == f[0] = g[0] /\ \A i \in 1..n : f[i - 1] = g[i - 1] => f[i] = g[i]

LEMMA Same ==
  ASSUME NEW n \in Nat, NEW f, NEW g, Alike(n, f, g)
  PROVE  \A i \in 0..n : f[i] = g[i]
<1> USE DEF Alike
<1> DEFINE S == {i \in 0..n : f[i] = g[i]}
<1>1. 0 \in S OBVIOUS
<1>2. ASSUME NEW i \in 0 .. n - 1, i \in S PROVE i + 1 \in S
  <2>1. i + 1 \in 1..n /\ i + 1 - 1 = i /\ i + 1 \in 0..n OBVIOUS
  <2>2. f[i + 1 - 1] = g[i + 1 - 1] BY <1>2, <2>1
  <2>3. f[i + 1] = g[i + 1] BY <2>1, <2>2
  <2> QED BY <2>1, <2>3
<1> HIDE DEF S
<1>3. 0..n \subseteq S BY <1>1, <1>2, Upwards
<1> QED BY <1>3 DEF S

-----------------------------------------------------------------------------
(* Rows and their cap.                                                     *)

\* The first rows, up to the cap.
Capped(engine, result, maxRows, n) ==
  [rows |-> [i \in 1..(IF n <= maxRows THEN n ELSE maxRows) |-> Integer(engine, result[i])],
   truncated |-> n > maxRows]

\* One more row.
OneRow(engine, result, maxRows, r, n) ==
  IF Full(r.rows, maxRows) THEN [r EXCEPT !.truncated = TRUE]
                           ELSE [r EXCEPT !.rows = Append(@, Integer(engine, result[n]))]

Answered(r, rows, cut) == r = [rows |-> rows, truncated |-> cut]

LEMMA OneRowIs ==
  ASSUME NEW engine, NEW result, NEW maxRows, NEW n, NEW rows, NEW cut, NEW r, Answered(r, rows, cut)
  PROVE  /\ Full(rows, maxRows) => Answered(OneRow(engine, result, maxRows, r, n), rows, TRUE)
         /\ ~Full(rows, maxRows) =>
              Answered(OneRow(engine, result, maxRows, r, n),
                       Append(rows, Integer(engine, result[n])), cut)
<1> USE DEF Answered
<1> DEFINE x == Append(rows, Integer(engine, result[n]))
<1>1. r.rows = rows /\ r.truncated = cut OBVIOUS
<1>2. ASSUME NEW y PROVE [r EXCEPT !.truncated = y] = [rows |-> rows, truncated |-> y]
  <2>1. DOMAIN [r EXCEPT !.truncated = y] = {"rows", "truncated"} OBVIOUS
  <2> QED BY <2>1
<1>3. ASSUME NEW y PROVE [r EXCEPT !.rows = y] = [rows |-> y, truncated |-> cut]
  <2>1. DOMAIN [r EXCEPT !.rows = y] = {"rows", "truncated"} OBVIOUS
  <2> QED BY <2>1
<1>4. [r EXCEPT !.truncated = TRUE] = [rows |-> rows, truncated |-> TRUE] BY <1>2, Zenon
<1>5. [r EXCEPT !.rows = Append(@, Integer(engine, result[n]))] = [r EXCEPT !.rows = x] BY <1>1
<1>6. [r EXCEPT !.rows = x] = [rows |-> x, truncated |-> cut] BY <1>3, Zenon
<1> QED BY <1>1, <1>4, <1>5, <1>6, Zenon DEF OneRow

LEMMA FetchedIs ==
  ASSUME NEW engine, NEW result \in Seq(Int), NEW maxRows \in Nat
  PROVE  \A n \in 0..Len(result) :
           Fetched(engine, result, maxRows)[n] = Capped(engine, result, maxRows, n)
<1> DEFINE m == Len(result)
           Next1(r, n) == OneRow(engine, result, maxRows, r, n)
           first == [rows |-> <<>>, truncated |-> FALSE]
           Is(g) == g = [n \in 0..m |-> IF n = 0 THEN first ELSE Next1(g[n - 1], n)]
           C(n) == Capped(engine, result, maxRows, n)
           c == [n \in 0..m |-> C(n)]
<1>1. m \in Nat OBVIOUS
<1>2. Fetched(engine, result, maxRows) = CHOOSE g : Is(g) BY DEF Fetched, OneRow
<1>3. C(0) = first
  <2>1. 0 <= maxRows /\ (0 > maxRows) = FALSE OBVIOUS
  <2>2. [i \in 1..0 |-> Integer(engine, result[i])] = <<>> OBVIOUS
  <2>3. C(0) = [rows |-> [i \in 1..0 |-> Integer(engine, result[i])], truncated |-> 0 > maxRows]
    BY <2>1 DEF Capped
  <2> QED BY <2>1, <2>2, <2>3
<1>4. ASSUME NEW n \in 1..m PROVE C(n) = Next1(C(n - 1), n)
  <2> DEFINE x(i) == Integer(engine, result[i])
             k == IF n - 1 <= maxRows THEN n - 1 ELSE maxRows
             rows == [i \in 1..k |-> x(i)]
  <2>1. n \in Nat /\ n - 1 \in Nat /\ k \in Nat BY <1>1
  <2>2. C(n - 1) = [rows |-> rows, truncated |-> n - 1 > maxRows] BY DEF Capped
  <2>3. C(n) = [rows |-> [i \in 1..(IF n <= maxRows THEN n ELSE maxRows) |-> x(i)],
                truncated |-> n > maxRows]
    BY DEF Capped
  <2> HIDE DEF x
  <2>4. Len(rows) = k BY <2>1
  <2>5. CASE n <= maxRows
    <3>1. k = n - 1 /\ ~Full(rows, maxRows) BY <2>1, <2>4, <2>5 DEF Full
    <3>2. Append(rows, x(n)) = [i \in 1..n |-> x(i)] BY <2>1, <3>1
    <3>3. (n > maxRows) = FALSE /\ (n - 1 > maxRows) = FALSE BY <2>1, <2>5
    <3>4. C(n - 1) = [rows |-> rows, truncated |-> FALSE] BY <2>2, <3>3
    <3> HIDE DEF rows
    <3>6. Next1(C(n - 1), n) = [rows |-> Append(rows, x(n)), truncated |-> FALSE]
      <4>1. PICK r : r = C(n - 1) OBVIOUS
      <4>2. Answered(r, rows, FALSE) BY <3>4, <4>1 DEF Answered
      <4>3. Answered(OneRow(engine, result, maxRows, r, n), Append(rows, Integer(engine, result[n])), FALSE)
         BY <3>1, <4>2, OneRowIs
      <4> QED BY <4>1, <4>3 DEF x, Answered
    <3>7. C(n) = [rows |-> [i \in 1..n |-> x(i)], truncated |-> FALSE] BY <2>3, <2>5, <3>3
    <3> QED BY <3>2, <3>6, <3>7
  <2>6. CASE ~(n <= maxRows)
    <3>1. k = maxRows /\ Full(rows, maxRows) /\ (n > maxRows) = TRUE
      BY <2>1, <2>4, <2>6 DEF Full
    <3>2. C(n) = [rows |-> rows, truncated |-> TRUE] BY <2>3, <2>6, <3>1
    <3> HIDE DEF rows
    <3>4. Next1(C(n - 1), n) = [rows |-> rows, truncated |-> TRUE] 
      <4>1. PICK r, cut : r = C(n - 1) /\ cut = (n - 1 > maxRows) OBVIOUS
      <4>2. Answered(r, rows, cut) BY <2>2, <4>1 DEF Answered
      <4>3. Answered(OneRow(engine, result, maxRows, r, n), rows, TRUE)
         BY <3>1, <4>2, OneRowIs
      <4> QED BY <4>1, <4>3 DEF Answered
    <3> QED BY <3>2, <3>4
  <2> QED BY <2>5, <2>6
<1> DEFINE f == Fetched(engine, result, maxRows)
<1> HIDE DEF C, Next1, first, m
<1>5. Is(c)
  <2>1. \A n \in 1..m : n - 1 \in 0..m BY <1>1
  <2> QED BY <1>1, <1>3, <1>4, <2>1
<1>6. Is(f) BY <1>2, <1>5
<1> HIDE DEF f
<1>7. \A n \in 0..m : f[n] = IF n = 0 THEN first ELSE Next1(f[n - 1], n) BY <1>6
<1>8. \A n \in 0..m : c[n] = IF n = 0 THEN first ELSE Next1(c[n - 1], n) BY <1>5
<1> HIDE DEF c
<1>9. f[0] = c[0] BY <1>1, <1>7, <1>8
<1>10. \A n \in 1..m : f[n - 1] = c[n - 1] => f[n] = c[n]
  <2>1. \A n \in 1..m : n \in 0..m /\ n # 0 BY <1>1
  <2> QED BY <1>7, <1>8, <2>1
<1>11. Alike(m, f, c) BY <1>9, <1>10 DEF Alike
<1>12. \A n \in 0..m : f[n] = c[n] BY <1>1, <1>11, Same
<1> QED BY <1>12 DEF c, C, f, m

\* What RowsExact says of an answer.
RowsTell(r, engine, result, maxRows) ==
  /\ r.truncated = (Len(result) > maxRows)
  /\ Len(r.rows) = Min({Len(result), maxRows})
  /\ \A i \in DOMAIN r.rows :
       LET row == r.rows[i] IN
         /\ row.of = result[i]
         /\ row.kind = "number" <=>
              \/ row.of \in -SafeMax..SafeMax
              \/ row.of = Least /\ engine \in {"sqlite", "libsql"}

LEMMA RowsAre ==
  ASSUME NEW engine, NEW result \in Seq(Int), NEW maxRows \in Nat
  PROVE  RowsTell(RunQuery(engine, result, maxRows), engine, result, maxRows)
<1> DEFINE n == Len(result)
           k == IF n <= maxRows THEN n ELSE maxRows
           r == RunQuery(engine, result, maxRows)
<1>1. r = Capped(engine, result, maxRows, n) BY FetchedIs DEF RunQuery
<1>2. r.truncated = (n > maxRows) /\ r.rows = [i \in 1..k |-> Integer(engine, result[i])]
  BY <1>1 DEF Capped
<1>3. n \in Nat /\ k \in Nat /\ k <= n OBVIOUS
<1>4. Min({n, maxRows}) = k
  <2>1. \A x \in {n, maxRows} : k <= x BY <1>3
  <2>2. \A y \in {n, maxRows} : (\A x \in {n, maxRows} : y <= x) => y = k BY <1>3
  <2>3. k \in {n, maxRows} OBVIOUS
  <2> HIDE DEF k
  <2> QED BY <2>1, <2>2, <2>3 DEF Min
<1>7. DOMAIN r.rows = 1..k /\ Len(r.rows) = k BY <1>2, <1>3
<1>5. ASSUME NEW i \in Int
      PROVE  /\ Integer(engine, i).of = i
             /\ Integer(engine, i).kind = "number" <=>
                  i \in -SafeMax..SafeMax \/ (i = Least /\ engine \in {"sqlite", "libsql"})
  <2>1. SafeMax = 7 /\ Least = -16 BY DEF SafeMax, Least, Width
  <2>2. AbsOf(engine, i) <= SafeMax <=>
          i \in -SafeMax..SafeMax \/ (i = Least /\ engine \in {"sqlite", "libsql"})
    BY <2>1 DEF AbsOf
  <2> QED BY <2>2 DEF Integer
<1> HIDE DEF k, r
<1>6. ASSUME NEW i \in 1..k
      PROVE  /\ r.rows[i].of = result[i]
             /\ r.rows[i].kind = "number" <=>
                  \/ r.rows[i].of \in -SafeMax..SafeMax
                  \/ r.rows[i].of = Least /\ engine \in {"sqlite", "libsql"}
  <2>1. i \in 1..n /\ result[i] \in Int BY <1>3
  <2>2. r.rows[i] = Integer(engine, result[i]) BY <1>2
  <2>3. r.rows[i].of = result[i] BY <1>5, <2>1, <2>2
  <2> QED BY <1>5, <2>1, <2>2, <2>3
<1>8. RowsTell(r, engine, result, maxRows) BY <1>2, <1>4, <1>6, <1>7 DEF RowsTell
<1> QED BY <1>8 DEF r

-----------------------------------------------------------------------------
(* Arrays: what one character does.                                        *)

\* The escape and the quote, under names: the SMT encoding cannot have them in
\* a string.
Esc == "\\"
Quote == "\""

Marks == {"{", "}", "[", "]", ",", "'", Quote, Esc, "=", "0:1", "null", "NULL", "absent"}
Characters == STRING \union Marks
Text == Seq(Characters)

\* States of the parser, by their parts, and named ones: the provers see no
\* records.
St(in, depth, json, word) == [in |-> in, depth |-> depth, json |-> json, word |-> word]

Parts(s, in, depth, json, word) ==
  /\ s = [x \in {"in", "depth", "json", "word"} |-> s[x]]
  /\ s.in = in /\ s.depth = depth /\ s.json = json /\ s.word = word

LEMMA StIs ==
  ASSUME NEW in, NEW depth, NEW json, NEW word, NEW s, Parts(s, in, depth, json, word)
  PROVE  s = St(in, depth, json, word)
BY DEF St, Parts

\* An opening brace.
Opened(d, j, w) == St("first", d + 1, Append(j, "["), w)

Openable == {"start", "first", "item"}

LEMMA OpenIs ==
  ASSUME NEW in \in Openable, NEW d \in Int, NEW j, NEW w
  PROVE  ParseAt(St(in, d, j, w), "{") = Opened(d, j, w)
<1> DEFINE s == St(in, d, j, w)
           r == Open(s)
<1>1. s.in = in /\ s.depth = d /\ s.json = j /\ s.word = w BY DEF St
<1>2. ParseAt(s, "{") = r BY <1>1 DEF ParseAt, ItemAt, Openable
<1>3. r = [x \in {"in", "depth", "json", "word"} |-> r[x]] BY DEF Open, St
<1>4. r.in = "first" /\ r.depth = d + 1 /\ r.json = Append(j, "[") /\ r.word = w
  BY DEF Open, St
<1> HIDE DEF r, s
<1>5. r = St("first", d + 1, Append(j, "["), w)
  <2>1. Parts(r, "first", d + 1, Append(j, "["), w) BY <1>3, <1>4 DEF Parts
  <2> QED BY <2>1, StIs
<1> QED BY <1>2, <1>5 DEF s, Opened

Closed(d, j, w) == St(IF d = 1 THEN "end" ELSE "after", d - 1, Append(j, "]"), w)

\* A closing one.
LEMMA CloseIs ==
  ASSUME NEW in \in {"first", "after"}, NEW d \in Int, NEW j, NEW w
  PROVE  /\ ParseAt(St(in, d, j, w), "}") = Closed(d, j, w)
         /\ After(St(in, d, j, w), "}") = Closed(d, j, w)
<1> DEFINE s == St(in, d, j, w)
           r == Close(s)
<1>1. s.in = in /\ s.depth = d /\ s.json = j /\ s.word = w BY DEF St
<1>2. ParseAt(s, "}") = r /\ After(s, "}") = r BY <1>1 DEF ParseAt, After
<1>3. r = [x \in {"in", "depth", "json", "word"} |-> r[x]] BY DEF Close, St
<1>4. r.in = (IF d = 1 THEN "end" ELSE "after") /\ r.depth = d - 1 /\ r.json = Append(j, "]")
      /\ r.word = w
  BY <1>1 DEF Close, St
<1> HIDE DEF r, s
<1>5. r = Closed(d, j, w)
  <2>1. Parts(r, IF d = 1 THEN "end" ELSE "after", d - 1, Append(j, "]"), w) BY <1>3, <1>4 DEF Parts
  <2> QED BY <2>1, StIs DEF Closed
<1> QED BY <1>2, <1>5 DEF s

\* A comma, behind an item.
LEMMA CommaIs ==
  ASSUME NEW d, NEW j, NEW w
  PROVE  After(St("after", d, j, w), ",") = St("item", d, Append(j, ","), w)
<1> DEFINE s == St("after", d, j, w)
           r == [s EXCEPT !.json = Append(@, ","), !.in = "item"]
<1>1. After(s, ",") = r BY DEF After
<1>2. r = [x \in {"in", "depth", "json", "word"} |-> r[x]] BY DEF St
<1>3. r.in = "item" /\ r.depth = d /\ r.json = Append(j, ",") /\ r.word = w BY DEF St
<1> HIDE DEF r, s
<1>4. r = St("item", d, Append(j, ","), w)
  <2>1. Parts(r, "item", d, Append(j, ","), w) BY <1>2, <1>3 DEF Parts
  <2> QED BY <2>1, StIs
<1> QED BY <1>1, <1>4 DEF s

\* Whatever comes behind a finished item.
LEMMA AfterIs ==
  ASSUME NEW d, NEW j, NEW w, NEW ch
  PROVE  ParseAt(St("after", d, j, w), ch) = After(St("after", d, j, w), ch)
<1>1. St("after", d, j, w).in = "after" BY DEF St
<1> QED BY <1>1 DEF ParseAt

\* A quote before an item.
LEMMA QuoteIs ==
  ASSUME NEW in \in {"first", "item"}, NEW d, NEW j, NEW w
  PROVE  ParseAt(St(in, d, j, w), Quote) = St("quoted", d, j, w)
<1> DEFINE s == St(in, d, j, w)
           r == [s EXCEPT !.in = "quoted"]
<1>1. s.in = in BY DEF St
<1>2. ParseAt(s, Quote) = r
  <2>1. in # "start" /\ Quote # "{" /\ Quote # "}" BY DEF Quote
  <2>2. ItemAt(s, Quote) = r BY <2>1, Zenon DEF ItemAt, Quote
  <2> QED BY <1>1, <2>1, <2>2, Zenon DEF ParseAt
<1>3. r = [x \in {"in", "depth", "json", "word"} |-> r[x]] BY DEF St
<1>4. r.in = "quoted" /\ r.depth = d /\ r.json = j /\ r.word = w BY DEF St
<1> HIDE DEF r, s
<1>5. r = St("quoted", d, j, w)
  <2>1. Parts(r, "quoted", d, j, w) BY <1>3, <1>4 DEF Parts
  <2> QED BY <2>1, StIs
<1> QED BY <1>2, <1>5 DEF s

\* A character between quotes: the escape itself, one that it escapes, and any
\* other but the closing quote.
LEMMA EscIs ==
  ASSUME NEW d, NEW j, NEW w
  PROVE  ParseAt(St("quoted", d, j, w), Esc) = St("escape", d, j, w)
<1> DEFINE s == St("quoted", d, j, w)
           r == [s EXCEPT !.in = "escape"]
<1>1. s.in = "quoted" BY DEF St
<1>2. ParseAt(s, Esc) = r BY Zenon, <1>1 DEF ParseAt, Esc
<1>3. r = [x \in {"in", "depth", "json", "word"} |-> r[x]] BY DEF St
<1>4. r.in = "escape" /\ r.depth = d /\ r.json = j /\ r.word = w BY DEF St
<1> HIDE DEF r, s
<1>5. Parts(r, "escape", d, j, w) BY <1>3, <1>4 DEF Parts
<1> QED BY <1>2, <1>5, StIs DEF s

LEMMA CharIs ==
  ASSUME NEW in \in {"quoted", "escape"}, NEW d, NEW j, NEW w, NEW ch,
         in = "quoted" => ch \notin {Quote, Esc}
  PROVE  ParseAt(St(in, d, j, w), ch) = St("quoted", d, j, Append(w, ch))
<1> DEFINE s == St(in, d, j, w)
           r == [s EXCEPT !.word = Append(@, ch), !.in = "quoted"]
           q == [s EXCEPT !.word = Append(@, ch)]
<1>1. s.in = in BY DEF St
<1>2. CASE in = "escape"
  <2>1. ParseAt(s, ch) = r BY <1>1, <1>2, Zenon DEF ParseAt
  <2>2. r = [x \in {"in", "depth", "json", "word"} |-> r[x]] BY DEF St
  <2>3. r.in = "quoted" /\ r.depth = d /\ r.json = j /\ r.word = Append(w, ch) BY DEF St
  <2> HIDE DEF r, s
  <2>4. Parts(r, "quoted", d, j, Append(w, ch)) BY <2>2, <2>3 DEF Parts
  <2> QED BY <2>1, <2>4, StIs DEF s
<1>3. CASE in = "quoted"
  <2>1. ParseAt(s, ch) = q BY <1>1, <1>3, Zenon DEF ParseAt, Quote, Esc
  <2>2. q = [x \in {"in", "depth", "json", "word"} |-> q[x]] BY DEF St
  <2>3. q.in = "quoted" /\ q.depth = d /\ q.json = j /\ q.word = Append(w, ch) BY <1>3 DEF St
  <2> HIDE DEF q, s
  <2>4. Parts(q, "quoted", d, j, Append(w, ch)) BY <2>2, <2>3 DEF Parts
  <2> QED BY <2>1, <2>4, StIs DEF s
<1> QED BY <1>2, <1>3

\* The state behind an item.
Behind(d, j, json) == St("after", d, j \o json, <<>>)

LEMMA ItemIs ==
  ASSUME NEW in, NEW d, NEW j, NEW w, NEW json
  PROVE  Item(St(in, d, j, w), json) = Behind(d, j, json)
<1> DEFINE s == St(in, d, j, w)
           r == Item(s, json)
<1>1. r = [x \in {"in", "depth", "json", "word"} |-> r[x]] BY DEF St, Item
<1>2. r.in = "after" /\ r.depth = d /\ r.json = j \o json /\ r.word = <<>> BY DEF St, Item
<1> HIDE DEF r, s
<1>3. Parts(r, "after", d, j \o json, <<>>) BY <1>1, <1>2 DEF Parts
<1> QED BY <1>3, StIs DEF Behind, r, s

\* The closing quote.
LEMMA UnquoteIs ==
  ASSUME NEW d, NEW j, NEW w
  PROVE  ParseAt(St("quoted", d, j, w), Quote) = Behind(d, j, JsonText(w))
<1> DEFINE s == St("quoted", d, j, w)
<1>1. s.in = "quoted" /\ s.word = w BY DEF St
<1>2. ParseAt(s, Quote) = Item(s, JsonText(w))
  <2>1. Quote # Esc BY Zenon DEF Quote, Esc
  <2> QED BY <1>1, <2>1, Zenon DEF ParseAt, Quote, Esc
<1> HIDE DEF s
<1>3. Item(s, JsonText(w)) = Behind(d, j, JsonText(w)) BY ItemIs DEF s
<1> QED BY <1>2, <1>3 DEF s

\* A character of a bare item.
Marking(ch) == ch \in {"{", "}", ",", Quote}

LEMMA BareIs ==
  ASSUME NEW in \in {"first", "item", "bare"}, NEW d, NEW j, NEW w, NEW ch, ~Marking(ch)
  PROVE  ParseAt(St(in, d, j, w), ch) = St("bare", d, j, Append(w, ch))
<1> DEFINE s == St(in, d, j, w)
           r == [s EXCEPT !.word = Append(@, ch), !.in = "bare"]
<1>1. s.in = in /\ s.word = w BY DEF St
<1>2. ParseAt(s, ch) = r
  <2>0. ch \notin {"{", "}", ",", Quote} BY DEF Marking
  <2>1. Bare(s, ch) = r BY <2>0 DEF Bare
  <2>2. ItemAt(s, ch) = r BY <2>0, <2>1, Zenon DEF ItemAt, Quote
  <2>3. CASE in \in {"first", "item"} BY <1>1, <2>0, <2>2, <2>3, Zenon DEF ParseAt
  <2>4. CASE in = "bare" BY <1>1, <2>1, <2>4, Zenon DEF ParseAt
  <2> QED BY <2>3, <2>4
<1>3. r = [x \in {"in", "depth", "json", "word"} |-> r[x]] BY DEF St
<1>4. r.in = "bare" /\ r.depth = d /\ r.json = j /\ r.word = Append(w, ch) BY DEF St
<1> HIDE DEF r, s
<1>5. Parts(r, "bare", d, j, Append(w, ch)) BY <1>3, <1>4 DEF Parts
<1> QED BY <1>2, <1>5, StIs DEF s

LEMMA FirstBare ==
  ASSUME NEW in \in {"first", "item"}, NEW d, NEW j, NEW ch, ~Marking(ch)
  PROVE  ParseAt(St(in, d, j, <<>>), ch) = St("bare", d, j, <<ch>>)
<1>1. in \in {"first", "item", "bare"} OBVIOUS
<1>2. \A w : ParseAt(St(in, d, j, w), ch) = St("bare", d, j, Append(w, ch)) BY <1>1, BareIs
<1>3. ParseAt(St(in, d, j, <<>>), ch) = St("bare", d, j, Append(<<>>, ch)) BY ONLY <1>2
<1>4. Append(<<>>, ch) = <<ch>> OBVIOUS
<1> QED BY <1>3, <1>4

\* What ends one.
BareJson(w) == IF w = NullWord THEN JsonNull ELSE JsonText(w)

Enders == {",", "}"}

LEMMA BareEnds ==
  ASSUME NEW d, NEW j, NEW w, NEW ch \in Enders
  PROVE  ParseAt(St("bare", d, j, w), ch) = After(Behind(d, j, BareJson(w)), ch)
<1> DEFINE s == St("bare", d, j, w)
<1>1. s.in = "bare" /\ s.word = w BY DEF St
<1>2. ParseAt(s, ch) = Bare(s, ch) BY <1>1, Zenon DEF ParseAt
<1>3. Bare(s, ch) = After(Item(s, BareJson(w)), ch) BY <1>1 DEF Bare, BareItem, BareJson, Enders
<1>4. Item(s, BareJson(w)) = Behind(d, j, BareJson(w)) BY ItemIs
<1> HIDE DEF s
<1> QED BY <1>2, <1>3, <1>4 DEF s

-----------------------------------------------------------------------------
(* Arrays: what a text does.                                               *)

\* Reading x takes the parser from s to r.
Trace(f, s, x, r) ==
  f[0] = s /\ f[Len(x)] = r /\ \A i \in 1..Len(x) : f[i] = ParseAt(f[i - 1], x[i])
Reads(s, x, r) == \E f : Trace(f, s, x, r)

LEMMA SeqsIn ==
  ASSUME NEW V, NEW x \in V, NEW y \in V, NEW z \in V
  PROVE  <<>> \in Seq(V) /\ <<x>> \in Seq(V) /\ <<x, y>> \in Seq(V) /\ <<x, y, z>> \in Seq(V)
OBVIOUS

LEMMA NoText == <<>> \in Text
BY DEF Text

LEMMA TextOfOne == ASSUME NEW x \in Characters PROVE <<x>> \in Text
BY SeqsIn DEF Text

LEMMA TextOfTwo == ASSUME NEW x \in Characters, NEW y \in Characters PROVE <<x, y>> \in Text
BY SeqsIn DEF Text

LEMMA ReadsOne ==
  ASSUME NEW s, NEW ch, NEW r, r = ParseAt(s, ch)
  PROVE  Reads(s, <<ch>>, r)
<1> DEFINE x == <<ch>>
           f == [i \in 0..1 |-> IF i = 0 THEN s ELSE r]
<1>1. Len(x) = 1 /\ x[1] = ch OBVIOUS
<1>2. f[0] = s /\ f[1] = r OBVIOUS
<1> HIDE DEF f, x
<1>3. Trace(f, s, x, r) BY <1>1, <1>2 DEF Trace
<1> QED BY <1>3 DEF Reads, x

LEMMA ReadsOn ==
  ASSUME NEW x \in Text, NEW y \in Text, NEW s, NEW r, NEW u, Reads(s, x, r), Reads(r, y, u)
  PROVE  Reads(s, x \o y, u)
<1>1. PICK f : Trace(f, s, x, r) BY DEF Reads
<1>2. PICK g : Trace(g, r, y, u) BY DEF Reads
<1> DEFINE m == Len(x)
           n == Len(y)
           z == x \o y
           h == [i \in 0 .. m + n |-> IF i <= m THEN f[i] ELSE g[i - m]]
<1>3. /\ m \in Nat /\ n \in Nat /\ Len(z) = m + n
      /\ \A i \in 1..m : z[i] = x[i]
      /\ \A i \in m + 1 .. m + n : z[i] = y[i - m]
  BY DEF Text
<1>4. /\ \A i \in 0..m : h[i] = f[i]
      /\ \A i \in m + 1 .. m + n : h[i] = g[i - m]
  BY <1>3
<1> HIDE DEF h, z, m, n
<1>5. /\ f[0] = s /\ f[m] = r /\ \A i \in 1..m : f[i] = ParseAt(f[i - 1], x[i])
      /\ g[0] = r /\ g[n] = u /\ \A i \in 1..n : g[i] = ParseAt(g[i - 1], y[i])
  BY <1>1, <1>2 DEF Trace, m, n
<1>6. h[0] = s BY <1>3, <1>4, <1>5
<1>7. h[m + n] = u
  <2>1. CASE n = 0
    <3>1. m + n = m /\ m \in 0..m BY <1>3, <2>1
    <3> QED BY <1>4, <1>5, <2>1, <3>1
  <2>2. CASE n # 0
    <3> DEFINE k == m + n
    <3>1. k \in m + 1 .. m + n /\ k - m = n BY <1>3, <2>2
    <3> HIDE DEF k
    <3>2. h[k] = g[k - m] BY <1>4, <3>1
    <3>3. h[k] = u BY <1>5, <3>1, <3>2
    <3> QED BY <3>3 DEF k
  <2> QED BY <2>1, <2>2
<1>8. ASSUME NEW i \in 1 .. m + n PROVE h[i] = ParseAt(h[i - 1], z[i])
  <2>1. CASE i <= m
    <3>1. i \in 1..m /\ i \in 0..m /\ i - 1 \in 0..m BY <1>3, <2>1
    <3> QED BY <1>3, <1>4, <1>5, <3>1
  <2>2. CASE i = m + 1
    <3>1. i \in m + 1 .. m + n /\ i - m = 1 /\ i - 1 = m /\ 1 \in 1..n /\ m \in 0..m BY <1>3, <2>2
    <3>2. h[i] = g[1] /\ h[i - 1] = r /\ z[i] = y[1] BY <1>3, <1>4, <1>5, <3>1
    <3>3. g[1] = ParseAt(g[1 - 1], y[1]) BY <1>5, <3>1
    <3> QED BY <1>5, <3>2, <3>3
  <2>3. CASE i > m + 1
    <3>1. i \in m + 1 .. m + n /\ i - m \in 1..n /\ i - 1 \in m + 1 .. m + n BY <1>3, <2>3
    <3> DEFINE k == i - m
    <3>2. h[i] = g[k] /\ h[i - 1] = g[k - 1] /\ z[i] = y[k]
      <4>1. i - 1 - m = k - 1 BY <1>3
      <4> QED BY <1>3, <1>4, <3>1, <4>1
    <3>3. k \in 1..n BY <3>1
    <3> HIDE DEF k
    <3>4. g[k] = ParseAt(g[k - 1], y[k]) BY <1>5, <3>3
    <3> QED BY <3>2, <3>4
  <2> QED BY <1>3, <2>1, <2>2, <2>3
<1>9. Trace(h, s, z, u) BY <1>3, <1>6, <1>7, <1>8 DEF Trace
<1> QED BY <1>9 DEF Reads, z

\* One character more.
LEMMA ReadsMore ==
  ASSUME NEW x \in Text, NEW ch \in Characters, NEW s, NEW r, Reads(s, x, r)
  PROVE  Reads(s, x \o <<ch>>, ParseAt(r, ch))
<1>1. <<ch>> \in Text BY TextOfOne
<1>2. Reads(r, <<ch>>, ParseAt(r, ch)) BY ReadsOne
<1> QED BY <1>1, <1>2, ReadsOn

\* There is one way to read a text.
LEMMA ParsedIs ==
  ASSUME NEW x \in Text, NEW r, Reads(ParseStart, x, r)
  PROVE  Parsed(x)[Len(x)] = r
<1>1. PICK f0 : Trace(f0, ParseStart, x, r) BY DEF Reads
<1> DEFINE n == Len(x)
           Is(g) == g = [i \in 0..n |-> IF i = 0 THEN ParseStart ELSE ParseAt(g[i - 1], x[i])]
           f == [i \in 0..n |-> f0[i]]
           g == Parsed(x)
<1>2. n \in Nat BY DEF Text
<1>3. g = CHOOSE h : Is(h) BY DEF Parsed
<1> HIDE DEF g
<1>4. f0[0] = ParseStart /\ f0[n] = r /\ \A i \in 1..n : f0[i] = ParseAt(f0[i - 1], x[i])
  BY <1>1 DEF Trace
<1> HIDE DEF n
<1>5. \A i \in 0..n : f[i] = f0[i] OBVIOUS
<1>6. \A i \in 1..n : i - 1 \in 0..n /\ i \in 0..n BY <1>2
<1>7. f = [i \in 0..n |-> f[i]] OBVIOUS
<1> HIDE DEF f
<1>8. \A i \in 0..n : f[i] = IF i = 0 THEN ParseStart ELSE ParseAt(f[i - 1], x[i])
  BY <1>2, <1>4, <1>5, <1>6
<1>9. Is(f) BY <1>7, <1>8
<1>10. Is(g) BY <1>3, <1>9
<1>11. \A i \in 0..n : g[i] = IF i = 0 THEN ParseStart ELSE ParseAt(g[i - 1], x[i]) BY <1>10
<1>12. Alike(n, g, f)
  <2>1. g[0] = f[0] BY <1>2, <1>8, <1>11
  <2>2. ASSUME NEW i \in 1..n, g[i - 1] = f[i - 1] PROVE g[i] = f[i]
    <3>1. i \in 0..n /\ i # 0 BY <1>2
    <3> QED BY <1>8, <1>11, <2>2, <3>1
  <2> QED BY <2>1, <2>2 DEF Alike
<1>13. g[n] = f[n] BY <1>2, <1>12, Same
<1> QED BY <1>2, <1>4, <1>5, <1>13 DEF g, n

\* The text of a word in quotes, as far as each character.
LEMMA EscapesIs ==
  ASSUME NEW word \in Text
  PROVE  /\ Escapes(word) \in [0..Len(word) -> Text]
         /\ Escapes(word)[0] = <<>>
         /\ \A i \in 1..Len(word) :
              Escapes(word)[i] = Escapes(word)[i - 1]
                \o (IF word[i] \in {Quote, Esc} THEN <<Esc, word[i]>> ELSE <<word[i]>>)
<1> DEFINE n == Len(word)
           V == Text
           none == <<>>
           More(i) == IF word[i] \in {Quote, Esc} THEN <<Esc, word[i]>> ELSE <<word[i]>>
           Body(x, i) == x \o More(i)
           step == [p \in V \X (1..n) |-> Body(p[1], p[2])]
           Is(g) == g = [i \in 0..n |-> IF i = 0 THEN none ELSE Body(g[i - 1], i)]
<1>1. Steps(V, n, step)
  <2>1. ASSUME NEW x \in V, NEW i \in 1..n PROVE Body(x, i) \in V
    <3>1. word[i] \in Characters BY DEF Text
    <3>2. Esc \in Characters BY DEF Characters, Marks
    <3>3. <<Esc, word[i]>> \in Text /\ <<word[i]>> \in Text BY <3>1, <3>2, TextOfOne, TextOfTwo
    <3>4. More(i) \in Text BY <3>3
    <3> HIDE DEF More
    <3> QED BY <3>4 DEF Text
  <2> HIDE DEF Body, V
  <2> QED BY <2>1 DEF Steps
<1>2. ASSUME NEW x \in V, NEW i \in 1..n PROVE step[<<x, i>>] = Body(x, i) OBVIOUS
<1>3. n \in Nat /\ none \in V BY DEF Text
<1>4. Escapes(word) = CHOOSE g : Is(g) BY DEF Escapes, Esc, Quote
<1>5. \A x, i : Body(x, i) = x \o (IF word[i] \in {Quote, Esc} THEN <<Esc, word[i]>> ELSE <<word[i]>>)
  OBVIOUS
<1> HIDE DEF step, V, n, Body, none
<1>6. PICK f : Fold(V, none, n, step, f) BY <1>1, <1>3, FoldExists
<1>7. \A i \in 1..n : f[i] = Body(f[i - 1], i)
  <2>1. ASSUME NEW i \in 1..n PROVE f[i] = Body(f[i - 1], i)
    <3>1. i - 1 \in 0..n BY <1>3
    <3>2. f[i - 1] \in V /\ f[i] = step[<<f[i - 1], i>>] BY <1>6, <3>1 DEF Fold
    <3> QED BY <1>2, <3>2
  <2> QED BY <2>1
<1>8. Is(f) BY <1>3, <1>6, <1>7 DEF Fold
<1>9. Is(Escapes(word)) BY <1>4, <1>8
<1> DEFINE g == Escapes(word)
<1>10. g = [i \in 0..n |-> IF i = 0 THEN none ELSE Body(g[i - 1], i)] BY <1>9
<1> HIDE DEF g
<1>11. /\ g = [i \in 0..n |-> g[i]] /\ g[0] = none
       /\ \A i \in 1..n : g[i] = Body(g[i - 1], i)
  <2>1. \A i \in 0..n : g[i] = IF i = 0 THEN none ELSE Body(g[i - 1], i) BY <1>10
  <2>2. \A i \in 1..n : i \in 0..n /\ i # 0 BY <1>3
  <2>3. g[0] = none BY <1>3, <2>1
  <2>4. \A i \in 1..n : g[i] = Body(g[i - 1], i) BY <2>1, <2>2
  <2>5. g = [i \in 0..n |-> g[i]] BY <1>10
  <2> QED BY <2>3, <2>4, <2>5
<1>12. \A i \in 1..n : g[i - 1] \in V => g[i] = step[<<g[i - 1], i>>] BY <1>2, <1>11
<1>13. Fold(V, none, n, step, g) BY <1>1, <1>3, <1>11, <1>12, FoldIn
<1> QED BY <1>5, <1>11, <1>13 DEF Fold, V, n, g, none

\* The same of the text of a list.
LEMMA LinesAre ==
  ASSUME NEW open \in Characters, NEW parts \in Seq(Text)
  PROVE  /\ Lines(open, parts) \in [0..Len(parts) -> Text]
         /\ Lines(open, parts)[0] = <<open>>
         /\ \A i \in 1..Len(parts) :
              Lines(open, parts)[i] =
                Lines(open, parts)[i - 1] \o (IF i = 1 THEN <<>> ELSE <<",">>) \o parts[i]
<1> DEFINE n == Len(parts)
           V == Text
           start == <<open>>
           Body(x, i) == x \o (IF i = 1 THEN <<>> ELSE <<",">>) \o parts[i]
           step == [p \in V \X (1..n) |-> Body(p[1], p[2])]
           Is(g) == g = [i \in 0..n |-> IF i = 0 THEN start ELSE Body(g[i - 1], i)]
<1>1. Steps(V, n, step)
  <2>1. ASSUME NEW x \in V, NEW i \in 1..n PROVE Body(x, i) \in V
    <3> DEFINE comma == IF i = 1 THEN <<>> ELSE <<",">>
    <3>0. "," \in Characters BY DEF Characters, Marks
    <3>4. <<",">> \in Text BY <3>0, TextOfOne
    <3>5. comma \in Text BY <3>4, NoText
    <3>6. parts[i] \in Text OBVIOUS
    <3>1. parts[i] \in Text /\ comma \in Text BY <3>5, <3>6
    <3> HIDE DEF comma
    <3>2. x \o comma \in Text BY <3>1 DEF Text
    <3>3. (x \o comma) \o parts[i] \in Text BY <3>1, <3>2 DEF Text
    <3> QED BY <3>3 DEF comma
  <2> HIDE DEF Body, V
  <2> QED BY <2>1 DEF Steps
<1>2. ASSUME NEW x \in V, NEW i \in 1..n PROVE step[<<x, i>>] = Body(x, i) OBVIOUS
<1>3. n \in Nat /\ start \in V BY TextOfOne
<1>4. Lines(open, parts) = CHOOSE g : Is(g) BY DEF Lines
<1>5. \A x, i : Body(x, i) = x \o (IF i = 1 THEN <<>> ELSE <<",">>) \o parts[i] OBVIOUS
<1> HIDE DEF step, V, n, Body, start
<1>6. PICK f : Fold(V, start, n, step, f) BY <1>1, <1>3, FoldExists
<1>7. \A i \in 1..n : f[i] = Body(f[i - 1], i)
  <2>1. ASSUME NEW i \in 1..n PROVE f[i] = Body(f[i - 1], i)
    <3>1. i - 1 \in 0..n BY <1>3
    <3>2. f[i - 1] \in V /\ f[i] = step[<<f[i - 1], i>>] BY <1>6, <3>1 DEF Fold
    <3> QED BY <1>2, <3>2
  <2> QED BY <2>1
<1>8. Is(f) BY <1>3, <1>6, <1>7 DEF Fold
<1>9. Is(Lines(open, parts)) BY <1>4, <1>8
<1> DEFINE g == Lines(open, parts)
<1>10. g = [i \in 0..n |-> IF i = 0 THEN start ELSE Body(g[i - 1], i)] BY <1>9
<1> HIDE DEF g
<1>11. /\ g = [i \in 0..n |-> g[i]] /\ g[0] = start
       /\ \A i \in 1..n : g[i] = Body(g[i - 1], i)
  <2>1. \A i \in 0..n : g[i] = IF i = 0 THEN start ELSE Body(g[i - 1], i) BY <1>10
  <2>2. \A i \in 1..n : i \in 0..n /\ i # 0 BY <1>3
  <2>3. g[0] = start BY <1>3, <2>1
  <2>4. \A i \in 1..n : g[i] = Body(g[i - 1], i) BY <2>1, <2>2
  <2>5. g = [i \in 0..n |-> g[i]] BY <1>10
  <2> QED BY <2>3, <2>4, <2>5
<1>12. \A i \in 1..n : g[i - 1] \in V => g[i] = step[<<g[i - 1], i>>] BY <1>2, <1>11
<1>13. Fold(V, start, n, step, g) BY <1>1, <1>3, <1>11, <1>12, FoldIn
<1> QED BY <1>5, <1>11, <1>13 DEF Fold, V, n, g, start

-----------------------------------------------------------------------------
(* Arrays: words.                                                          *)

LEMMA PrefixIn ==
  ASSUME NEW x \in Text, NEW i \in 0..Len(x)
  PROVE  SubSeq(x, 1, i) \in Text
<1>1. \A k \in 1..i : x[k] \in Characters BY DEF Text
<1>2. x \in Seq(Characters) /\ 1 \in Int /\ i \in Int BY DEF Text
<1> QED BY <1>1, <1>2, SubSeqProperties DEF Text

LEMMA PrefixGrows ==
  ASSUME NEW x \in Text, NEW i \in 1..Len(x)
  PROVE  /\ SubSeq(x, 1, i) = Append(SubSeq(x, 1, i - 1), x[i])
         /\ SubSeq(x, 1, i) = SubSeq(x, 1, i - 1) \o <<x[i]>>
<1>1. x \in Seq(Characters) /\ 1 \in 1..Len(x) /\ i - 1 \in 0..Len(x) /\ x[i] \in Characters
  BY DEF Text
<1>2. SubSeq(x, 1, i) = SubSeq(x, 1, i - 1) \o <<x[i]>> BY <1>1, SubSeqRecursiveSecond
<1>3. SubSeq(x, 1, i - 1) \in Seq(Characters) BY <1>1, PrefixIn DEF Text
<1>4. Append(SubSeq(x, 1, i - 1), x[i]) = SubSeq(x, 1, i - 1) \o <<x[i]>>
  BY <1>1, <1>3, AppendIsConcat
<1> QED BY <1>2, <1>4

LEMMA PrefixEnds ==
  ASSUME NEW x \in Text
  PROVE  SubSeq(x, 1, 0) = <<>> /\ SubSeq(x, 1, Len(x)) = x
BY SubSeqEmpty, SubSeqFull DEF Text

LEMMA ReadsTwo ==
  ASSUME NEW s, NEW a, NEW r, r = ParseAt(s, a), NEW b, NEW u, u = ParseAt(r, b)
  PROVE  Reads(s, <<a, b>>, u)
<1> DEFINE x == <<a, b>>
           f == [i \in 0..2 |-> IF i = 0 THEN s ELSE IF i = 1 THEN r ELSE u]
<1>1. Len(x) = 2 /\ x[1] = a /\ x[2] = b OBVIOUS
<1>2. f[0] = s /\ f[1] = r /\ f[2] = u OBVIOUS
<1> HIDE DEF f, x
<1>3. f[1] = ParseAt(f[1 - 1], x[1]) /\ f[2] = ParseAt(f[2 - 1], x[2])
  <2>1. 1 - 1 = 0 /\ 2 - 1 = 1 OBVIOUS
  <2> QED BY <1>1, <1>2, <2>1
<1>4. \A i \in 1..Len(x) : i = 1 \/ i = 2 BY <1>1
<1>5. Trace(f, s, x, u) BY <1>1, <1>2, <1>3, <1>4 DEF Trace
<1> QED BY <1>5 DEF Reads, x

\* In quotes every word comes back, whatever its characters are.
LEMMA EscapedReads ==
  ASSUME NEW word \in Text, NEW d, NEW j
  PROVE  /\ Escaped(word) \in Text
         /\ Reads(St("quoted", d, j, <<>>), Escaped(word), St("quoted", d, j, word))
<1> DEFINE n == Len(word)
           E(i) == Escapes(word)[i]
           W(i) == SubSeq(word, 1, i)
           Q(w) == St("quoted", d, j, w)
           S == {i \in 0..n : Reads(Q(<<>>), E(i), Q(W(i)))}
<1>0. n \in Nat BY DEF Text
<1>10. \A i \in 0..n : E(i) \in Text BY EscapesIs
<1>11. E(0) = <<>> BY EscapesIs
<1>12. \A i \in 1..n : E(i) = E(i - 1) \o (IF word[i] \in {Quote, Esc} THEN <<Esc, word[i]>> ELSE <<word[i]>>)
  BY EscapesIs
<1>13. \A i \in 1..n : W(i) = Append(W(i - 1), word[i]) BY PrefixGrows
<1>14. W(0) = <<>> /\ W(n) = word BY PrefixEnds
<1>3. \A i \in 1..n : word[i] \in Characters BY DEF Text
<1> HIDE DEF n, E, W
<1>1. /\ n \in Nat /\ \A i \in 0..n : E(i) \in Text
      /\ E(0) = <<>>
      /\ \A i \in 1..n : E(i) = E(i - 1) \o (IF word[i] \in {Quote, Esc} THEN <<Esc, word[i]>> ELSE <<word[i]>>)
  BY <1>0, <1>10, <1>11, <1>12
<1>2. W(0) = <<>> /\ W(n) = word /\ \A i \in 1..n : W(i) = Append(W(i - 1), word[i])
  BY <1>13, <1>14
<1>4. 0 \in S
  <2> DEFINE f == [i \in 0..0 |-> Q(<<>>)]
  <2>1. Len(<<>>) = 0 /\ f[0] = Q(<<>>) OBVIOUS
  <2> HIDE DEF f, Q
  <2>2. Trace(f, Q(<<>>), <<>>, Q(<<>>)) BY <2>1 DEF Trace
  <2>3. Reads(Q(<<>>), <<>>, Q(<<>>)) BY <2>2 DEF Reads
  <2> QED BY <1>1, <1>2, <2>3
<1>5. ASSUME NEW i \in 0 .. n - 1, i \in S PROVE i + 1 \in S
  <2> DEFINE k == i + 1
             c == word[k]
  <2>1. k \in 1..n /\ k \in 0..n /\ k - 1 = i /\ i \in 0..n BY <1>1
  <2>2. Reads(Q(<<>>), E(i), Q(W(i))) BY <1>5
  <2>3. W(k) = Append(W(i), c) /\ c \in Characters BY <1>2, <1>3, <2>1
  <2>4. E(k) = E(i) \o (IF c \in {Quote, Esc} THEN <<Esc, c>> ELSE <<c>>) BY <1>1, <2>1
  <2>5. E(i) \in Text BY <1>1, <2>1
  <2> HIDE DEF k, c, S
  <2>6. CASE c \in {Quote, Esc}
    <3>1. ParseAt(Q(W(i)), Esc) = St("escape", d, j, W(i)) BY EscIs
    <3>2. ParseAt(St("escape", d, j, W(i)), c) = Q(Append(W(i), c)) BY CharIs
    <3>3. Reads(Q(W(i)), <<Esc, c>>, Q(W(k))) BY <2>3, <3>1, <3>2, ReadsTwo
    <3>4. Esc \in Characters BY DEF Characters, Marks
    <3>5. <<Esc, c>> \in Text BY <2>3, <3>4, TextOfTwo
    <3> HIDE DEF Q
    <3>6. Reads(Q(<<>>), E(i) \o <<Esc, c>>, Q(W(k))) BY <2>2, <2>5, <3>3, <3>5, ReadsOn
    <3>7. E(k) = E(i) \o <<Esc, c>> BY <2>4, <2>6
    <3> QED BY <2>1, <3>6, <3>7 DEF S, k
  <2>7. CASE c \notin {Quote, Esc}
    <3>1. ParseAt(Q(W(i)), c) = Q(W(k)) BY <2>3, <2>7, CharIs
    <3> HIDE DEF Q
    <3>2. Reads(Q(<<>>), E(i) \o <<c>>, ParseAt(Q(W(i)), c)) BY <2>2, <2>3, <2>5, ReadsMore
    <3>3. E(k) = E(i) \o <<c>> BY <2>4, <2>7
    <3> QED BY <2>1, <3>1, <3>2, <3>3 DEF S, k
  <2> QED BY <2>6, <2>7 DEF k
<1> HIDE DEF S
<1>6. 0..n \subseteq S BY <1>1, <1>4, <1>5, Upwards
<1>7. n \in S /\ n \in 0..n BY <1>1, <1>6
<1>8. Reads(Q(<<>>), E(n), Q(word)) BY <1>2, <1>7 DEF S
<1> QED BY <1>1, <1>7, <1>8 DEF E, n, Escaped

\* From depth d and what was made so far, j, the parser reads the item p and
\* makes json of it; a bare item is over only with the character behind it.
Ends(r, d, j, json) == \A ch \in Enders : ParseAt(r, ch) = After(Behind(d, j, json), ch)
ReadsAs(in, d, j, p, json) == \E r : Reads(St(in, d, j, <<>>), p, r) /\ Ends(r, d, j, json)

ItemReads(p, json) ==
  /\ p \in Text /\ json \in Text
  /\ \A in \in {"first", "item"}, d \in Nat \ {0}, j \in Text : ReadsAs(in, d, j, p, json)

LEMMA JsonIn == ASSUME NEW word \in Text PROVE JsonWord(word) \in Text /\ JsonText(word) \in Text
<1>1. "'" \in Characters /\ "null" \in Characters BY DEF Characters, Marks
<1>2. <<"'">> \in Text /\ JsonNull \in Text BY <1>1, TextOfOne DEF JsonNull
<1>3. JsonText(word) \in Text BY <1>2 DEF JsonText, Text
<1> QED BY <1>2, <1>3 DEF JsonWord

Special == {"{", "}", ",", Quote, Esc}
Quoted(word) == word \in {<<>>, NullWord} \/ Range(word) \cap Special # {}

LEMMA PrintedNull == PrintedWord(Absent) = NullWord
<1>1. Absent # <<>> /\ Absent # NullWord /\ Range(Absent) = {"absent"} BY DEF Absent, NullWord, Range
<1>2. "absent" \notin Special BY Zenon DEF Special, Quote, Esc
<1>3. Range(Absent) \cap Special = {} BY <1>1, <1>2
<1>4. ~Quoted(Absent) BY <1>1, <1>3 DEF Quoted
<1> QED BY <1>4, Zenon DEF PrintedWord, Quoted, Special, Quote, Esc

LEMMA PrintedQuoted ==
  ASSUME NEW word, word # Absent, Quoted(word)
  PROVE  PrintedWord(word) = <<Quote>> \o Escaped(word) \o <<Quote>>
BY Zenon DEF PrintedWord, Quoted, Special, Esc, Quote

LEMMA PrintedBare ==
  ASSUME NEW word, word # Absent, ~Quoted(word)
  PROVE  PrintedWord(word) = word
BY Zenon DEF PrintedWord, Quoted, Special, Esc, Quote

\* An element without quotes.
LEMMA BareReads ==
  ASSUME NEW word \in Text, ~Quoted(word), NEW in \in {"first", "item"}, NEW d, NEW j
  PROVE  Reads(St(in, d, j, <<>>), word, St("bare", d, j, word))
<1> DEFINE n == Len(word)
           W(i) == SubSeq(word, 1, i)
           s == St(in, d, j, <<>>)
           B(w) == St("bare", d, j, w)
           S == {i \in 1..n : Reads(s, W(i), B(W(i)))}
<1>0. word # <<>> /\ Range(word) \cap Special = {} BY DEF Quoted
<1>1. n \in Nat /\ 1 \in 1..n BY <1>0 DEF Text
<1>10. \A i \in 1..n : W(i) = Append(W(i - 1), word[i]) /\ W(i) = W(i - 1) \o <<word[i]>>
  BY PrefixGrows
<1>11. \A i \in 0..n : W(i) \in Text BY PrefixIn
<1>12. W(0) = <<>> /\ W(n) = word BY PrefixEnds
<1>3. ASSUME NEW i \in 1..n PROVE word[i] \in Characters /\ ~Marking(word[i])
  <2>1. word[i] \in Characters /\ word[i] \in Range(word) BY DEF Text, Range
  <2>2. word[i] \notin Special BY <1>0, <2>1
  <2> QED BY <2>1, <2>2 DEF Special, Marking
<1> HIDE DEF n, W
<1>4. 1 \in S
  <2>1. 1 - 1 = 0 OBVIOUS
  <2>2. W(1) = Append(<<>>, word[1]) BY <1>1, <1>10, <1>12, <2>1
  <2>3. W(1) = <<word[1]>> BY <2>2
  <2>4. ~Marking(word[1]) BY <1>1, <1>3
  <2>5. ParseAt(s, word[1]) = B(<<word[1]>>) BY <2>4, FirstBare
  <2> HIDE DEF s, B
  <2>6. Reads(s, <<word[1]>>, B(W(1))) BY <2>3, <2>5, ReadsOne
  <2> QED BY <1>1, <2>3, <2>6
<1>5. ASSUME NEW i \in 1 .. n - 1, i \in S PROVE i + 1 \in S
  <2> DEFINE k == i + 1
             c == word[k]
  <2>1. k \in 1..n /\ k - 1 = i /\ i \in 0..n BY <1>1
  <2>2. Reads(s, W(i), B(W(i))) BY <1>5
  <2>3. W(k) = Append(W(i), c) /\ W(k) = W(i) \o <<c>> /\ W(i) \in Text BY <1>10, <1>11, <2>1
  <2>4. c \in Characters /\ ~Marking(c) BY <1>3, <2>1
  <2> HIDE DEF k, c, S
  <2>5. ParseAt(B(W(i)), c) = B(W(k))
    <3>1. ParseAt(St("bare", d, j, W(i)), c) = St("bare", d, j, Append(W(i), c)) BY <2>4, BareIs
    <3> QED BY <2>3, <3>1
  <2> HIDE DEF s, B
  <2>6. Reads(s, W(i) \o <<c>>, ParseAt(B(W(i)), c)) BY <2>2, <2>3, <2>4, ReadsMore
  <2> QED BY <2>1, <2>3, <2>5, <2>6 DEF S, k
<1> HIDE DEF S
<1>6. 1..n \subseteq S BY <1>1, <1>4, <1>5, Upwards
<1>7. n \in S BY <1>1, <1>6
<1> QED BY <1>12, <1>7 DEF S

LEMMA NullReads ==
  ASSUME NEW in \in {"first", "item"}, NEW d, NEW j
  PROVE  ReadsAs(in, d, j, NullWord, JsonNull)
<1> DEFINE s == St(in, d, j, <<>>)
           r == St("bare", d, j, NullWord)
<1>1. Append(<<>>, "NULL") = NullWord /\ NullWord = <<"NULL">> BY DEF NullWord
<1>2. ~Marking("NULL") BY DEF Marking, Quote
<1>3. ParseAt(s, "NULL") = r
  <2>1. PICK c : c = "NULL" OBVIOUS
  <2>2. ParseAt(St(in, d, j, <<>>), c) = St("bare", d, j, <<c>>) BY <1>2, <2>1, FirstBare
  <2> QED BY <1>1, <2>1, <2>2
<1>4. BareJson(NullWord) = JsonNull BY DEF BareJson
<1>5. Ends(r, d, j, JsonNull) BY <1>4, BareEnds DEF Ends
<1> HIDE DEF s, r
<1>6. Reads(s, NullWord, r) BY <1>1, <1>3, ReadsOne
<1> QED BY <1>5, <1>6 DEF s, ReadsAs

LEMMA QuotedReads ==
  ASSUME NEW word \in Text, NEW in \in {"first", "item"}, NEW d, NEW j
  PROVE  /\ <<Quote>> \o Escaped(word) \o <<Quote>> \in Text
         /\ ReadsAs(in, d, j, <<Quote>> \o Escaped(word) \o <<Quote>>, JsonText(word))
<1> DEFINE x == <<Quote>> \o Escaped(word)
           p == x \o <<Quote>>
           s == St(in, d, j, <<>>)
           q == St("quoted", d, j, <<>>)
           u == St("quoted", d, j, word)
           r == Behind(d, j, JsonText(word))
<1>1. Quote \in Characters BY DEF Characters, Marks
<1>2. <<Quote>> \in Text /\ Escaped(word) \in Text BY <1>1, TextOfOne, EscapedReads
<1>3. x \in Text BY <1>2 DEF Text
<1>4. p \in Text
  <2> HIDE DEF x
  <2> QED BY <1>2, <1>3 DEF Text
<1>5. ParseAt(s, Quote) = q BY QuoteIs
<1>6. Reads(q, Escaped(word), u) BY EscapedReads
<1>7. ParseAt(u, Quote) = r BY UnquoteIs
<1>8. \A ch : ParseAt(r, ch) = After(r, ch) BY AfterIs DEF Behind
<1> HIDE DEF s, q, u, r, p, x
<1>9. Reads(s, <<Quote>>, q) BY <1>5, ReadsOne
<1>10. Reads(s, <<Quote>> \o Escaped(word), u) BY <1>2, <1>6, <1>9, ReadsOn
<1>11. Reads(s, x, u) BY <1>10 DEF x
<1>12. Reads(s, x \o <<Quote>>, ParseAt(u, Quote)) BY <1>1, <1>3, <1>11, ReadsMore
<1>13. Reads(s, p, r) BY <1>7, <1>12 DEF p
<1>14. Ends(r, d, j, JsonText(word)) BY <1>8 DEF Ends, r
<1>15. ReadsAs(in, d, j, p, JsonText(word)) BY <1>13, <1>14 DEF ReadsAs, s
<1> QED BY <1>4, <1>15 DEF p, x

LEMMA WordReads ==
  ASSUME NEW word \in Text
  PROVE  ItemReads(PrintedWord(word), JsonWord(word))
<1> DEFINE p == PrintedWord(word)
           json == JsonWord(word)
<1>0. json \in Text BY JsonIn
<1>1. p \in Text /\ \A in \in {"first", "item"}, d \in Nat \ {0}, j \in Text : ReadsAs(in, d, j, p, json)
  <2>1. CASE word = Absent
    <3>1. p = NullWord /\ json = JsonNull BY <2>1, PrintedNull DEF JsonWord
    <3>2. "NULL" \in Characters BY DEF Characters, Marks
    <3>3. NullWord \in Text BY <3>2, TextOfOne DEF NullWord
    <3> HIDE DEF p, json
    <3> QED BY <3>1, <3>3, NullReads
  <2>2. CASE word # Absent /\ Quoted(word)
    <3>1. p = <<Quote>> \o Escaped(word) \o <<Quote>> /\ json = JsonText(word)
      BY <2>2, PrintedQuoted DEF JsonWord
    <3> HIDE DEF p, json
    <3>2. p \in Text BY <3>1, QuotedReads
    <3> QED BY <3>1, <3>2, QuotedReads
  <2>3. CASE word # Absent /\ ~Quoted(word)
    <3>1. p = word /\ json = JsonText(word) BY <2>3, PrintedBare DEF JsonWord
    <3> HIDE DEF p, json
    <3>2. word # NullWord BY <2>3 DEF Quoted
    <3>3. BareJson(word) = JsonText(word) BY <3>2 DEF BareJson
    <3>4. ASSUME NEW in \in {"first", "item"}, NEW d \in Nat \ {0}, NEW j \in Text
          PROVE  ReadsAs(in, d, j, word, JsonText(word))
      <4>1. Reads(St(in, d, j, <<>>), word, St("bare", d, j, word)) BY <2>3, BareReads
      <4>2. Ends(St("bare", d, j, word), d, j, BareJson(word)) BY BareEnds DEF Ends
      <4> QED BY <3>3, <4>1, <4>2 DEF ReadsAs
    <3> QED BY <3>1, <3>4
  <2> QED BY <2>1, <2>2, <2>3
<1> HIDE DEF p, json
<1>2. ItemReads(p, json) BY <1>0, <1>1 DEF ItemReads
<1> QED BY <1>2 DEF p, json

-----------------------------------------------------------------------------
(* Arrays: lists.                                                          *)

\* What comes before the i-th item of a list.
Sep(i) == IF i = 1 THEN <<>> ELSE <<",">>

LEMMA SepIn == ASSUME NEW i PROVE Sep(i) \in Text
<1>1. "," \in Characters BY DEF Characters, Marks
<1>2. <<",">> \in Text BY <1>1, TextOfOne
<1> QED BY <1>2, NoText DEF Sep

LEMMA JoinedIn == ASSUME NEW x \in Text, NEW y \in Text PROVE x \o y \in Text
BY ConcatProperties DEF Text

LEMMA JoinedAll ==
  ASSUME NEW x \in Text, NEW y \in Text, NEW z \in Text
  PROVE  (x \o y) \o z = x \o (y \o z)
BY ConcatAssociative DEF Text

LEMMA JoinedNone == ASSUME NEW x \in Text PROVE <<>> \o x = x /\ x \o <<>> = x
BY ConcatEmptySeq DEF Text

LEMMA JoinedOne == ASSUME NEW x \in Text, NEW ch \in Characters PROVE Append(x, ch) = x \o <<ch>>
BY AppendIsConcat DEF Text

LEMMA EndersAre == "," \in Enders /\ "}" \in Enders
BY DEF Enders

\* Behind k items of a list at depth e, with j made so far.
Within(r, e, j, k) ==
  /\ k = 0 => r = St("first", e, j, <<>>)
  /\ k > 0 => \A ch \in Enders : ParseAt(r, ch) = After(St("after", e, j, <<>>), ch)

LEMMA WithinLater ==
  ASSUME NEW r, NEW e, NEW j, NEW k \in Nat, k # 0, Within(r, e, j, k), NEW ch \in Enders
  PROVE  ParseAt(r, ch) = After(St("after", e, j, <<>>), ch)
<1>1. k > 0 OBVIOUS
<1> QED BY <1>1 DEF Within

LEMMA WithinFirst ==
  ASSUME NEW d \in Nat, NEW j \in Text
  PROVE  Within(Opened(d, j, <<>>), d + 1, j \o <<"[">>, 0)
<1>1. "[" \in Characters BY DEF Characters, Marks
<1>2. Append(j, "[") = j \o <<"[">> BY <1>1, JoinedOne
<1>3. Opened(d, j, <<>>) = St("first", d + 1, j \o <<"[">>, <<>>) BY <1>2 DEF Opened
<1> QED BY <1>3 DEF Within

LEMMA WithinNext ==
  ASSUME NEW r, NEW e \in Nat \ {0}, NEW j \in Text, NEW k \in Nat, Within(r, e, j, k),
         NEW p, NEW json, ItemReads(p, json)
  PROVE  \E u : Reads(r, Sep(k + 1) \o p, u) /\ Within(u, e, (j \o Sep(k + 1)) \o json, k + 1)
<1>1. p \in Text /\ json \in Text BY DEF ItemReads
<1>2. ASSUME NEW y, NEW u, Ends(u, e, y, json) PROVE Within(u, e, y \o json, k + 1)
  <2>1. k + 1 # 0 OBVIOUS
  <2> QED BY <1>2, <2>1 DEF Ends, Within, Behind
<1>3. CASE k = 0
  <2>1. Sep(k + 1) = <<>> BY <1>3 DEF Sep
  <2>2. r = St("first", e, j, <<>>) BY <1>3 DEF Within
  <2>3. ReadsAs("first", e, j, p, json) BY DEF ItemReads
  <2>4. PICK u : Reads(r, p, u) /\ Ends(u, e, j, json) BY <2>2, <2>3 DEF ReadsAs
  <2>5. Sep(k + 1) \o p = p /\ j \o Sep(k + 1) = j BY <1>1, <2>1, JoinedNone
  <2> QED BY <1>2, <2>4, <2>5
<1>4. CASE k # 0
  <2> DEFINE y == Append(j, ",")
             q == St("item", e, y, <<>>)
             comma == <<",">>
  <2>1. Sep(k + 1) = comma
    <3>1. k + 1 # 1 BY <1>4
    <3> QED BY <3>1 DEF Sep
  <2>2. ParseAt(r, ",") = q
    <3>1. ParseAt(r, ",") = After(St("after", e, j, <<>>), ",") BY <1>4, EndersAre, WithinLater
    <3> QED BY <3>1, CommaIs
  <2>3. Reads(r, comma, q)
    <3> HIDE DEF q
    <3> QED BY <2>2, ReadsOne
  <2>4. "," \in Characters BY DEF Characters, Marks
  <2>5. y = j \o comma /\ y \in Text /\ comma \in Text
    <3>1. y = j \o comma BY <2>4, JoinedOne
    <3>2. comma \in Text BY <2>4, TextOfOne
    <3> HIDE DEF y, comma
    <3> QED BY <3>1, <3>2, JoinedIn
  <2> HIDE DEF y, comma
  <2>6. ReadsAs("item", e, y, p, json) BY <2>5 DEF ItemReads
  <2>7. PICK u : Reads(q, p, u) /\ Ends(u, e, y, json) BY <2>6 DEF ReadsAs
  <2> HIDE DEF q
  <2>8. Reads(r, comma \o p, u) BY <1>1, <2>3, <2>5, <2>7, ReadsOn
  <2> QED BY <1>2, <2>1, <2>5, <2>7, <2>8
<1> QED BY <1>3, <1>4

LEMMA WithinEnd ==
  ASSUME NEW r, NEW e \in Int, NEW j, NEW k \in Nat, Within(r, e, j, k)
  PROVE  ParseAt(r, "}") = Closed(e, j, <<>>)
<1>1. CASE k = 0
  <2>1. r = St("first", e, j, <<>>) BY <1>1 DEF Within
  <2> QED BY <2>1, CloseIs
<1>2. CASE k # 0
  <2>1. ParseAt(r, "}") = After(St("after", e, j, <<>>), "}") BY <1>2, EndersAre, WithinLater
  <2> QED BY <2>1, CloseIs
<1> QED BY <1>1, <1>2

\* Lists of items and what is made of them.
AllRead(parts, jsons) ==
  /\ parts \in Seq(Text) /\ jsons \in Seq(Text) /\ Len(parts) = Len(jsons)
  /\ \A i \in 1..Len(parts) : ItemReads(parts[i], jsons[i])

Started(in, d) == (in = "start" /\ d = 0) \/ (in \in {"first", "item"} /\ d \in Nat \ {0})

LEMMA ListingIn ==
  ASSUME NEW open \in Characters, NEW close \in Characters, NEW parts \in Seq(Text)
  PROVE  Listing(open, parts, close) \in Text
<1>1. Len(parts) \in 0..Len(parts) OBVIOUS
<1>2. Lines(open, parts)[Len(parts)] \in Text BY <1>1, LinesAre
<1>3. <<close>> \in Text BY TextOfOne
<1> QED BY <1>2, <1>3, JoinedIn DEF Listing

\* The lines of a list, with Sep.
LEMMA LinesSep ==
  ASSUME NEW open \in Characters, NEW parts \in Seq(Text)
  PROVE  /\ \A i \in 0..Len(parts) : Lines(open, parts)[i] \in Text
         /\ Lines(open, parts)[0] = <<open>>
         /\ \A i \in 1..Len(parts) :
              Lines(open, parts)[i] = (Lines(open, parts)[i - 1] \o Sep(i)) \o parts[i]
<1>1. /\ Lines(open, parts) \in [0..Len(parts) -> Text]
      /\ Lines(open, parts)[0] = <<open>>
      /\ \A i \in 1..Len(parts) :
           Lines(open, parts)[i] =
             Lines(open, parts)[i - 1] \o (IF i = 1 THEN <<>> ELSE <<",">>) \o parts[i]
  BY LinesAre
<1> DEFINE T == Lines(open, parts)
<1> HIDE DEF T
<1>2. T \in [0..Len(parts) -> Text] /\ T[0] = <<open>> BY <1>1 DEF T
<1>3. \A i \in 1..Len(parts) : T[i] = (T[i - 1] \o (IF i = 1 THEN <<>> ELSE <<",">>)) \o parts[i]
  BY <1>1 DEF T
<1>4. \A i \in 1..Len(parts) : T[i] = (T[i - 1] \o Sep(i)) \o parts[i] BY <1>3 DEF Sep
<1> QED BY <1>2, <1>4 DEF T

\* Behind k items.
Reached(s, x, e, j, k) == \E r : Reads(s, x, r) /\ Within(r, e, j, k)

LEMMA ReachedNext ==
  ASSUME NEW s, NEW x \in Text, NEW e \in Nat \ {0}, NEW j \in Text, NEW y \in Text, NEW k \in Nat,
         Reached(s, x, e, j \o y, k), NEW p, NEW json, ItemReads(p, json)
  PROVE  Reached(s, (x \o Sep(k + 1)) \o p, e, j \o ((y \o Sep(k + 1)) \o json), k + 1)
<1> DEFINE c == Sep(k + 1)
           z == j \o y
<1>1. p \in Text /\ json \in Text BY DEF ItemReads
<1>2. c \in Text /\ z \in Text BY SepIn, JoinedIn
<1>3. PICK r : Reads(s, x, r) /\ Within(r, e, z, k) BY DEF Reached
<1>4. PICK u : Reads(r, c \o p, u) /\ Within(u, e, (z \o c) \o json, k + 1)
  BY <1>2, <1>3, WithinNext
<1> HIDE DEF c
<1>5. c \o p \in Text BY <1>1, <1>2, JoinedIn
<1>6. Reads(s, x \o (c \o p), u) BY <1>3, <1>4, <1>5, ReadsOn
<1>7. (x \o c) \o p = x \o (c \o p)
  <2>1. x \in Text /\ c \in Text /\ p \in Text BY <1>1, <1>2
  <2> QED BY ONLY <2>1, JoinedAll
<1>8. (z \o c) \o json = j \o ((y \o c) \o json)
  <2>1. z \o c = j \o (y \o c) BY <1>2, JoinedAll
  <2>2. y \o c \in Text BY <1>2, JoinedIn
  <2>3. (j \o (y \o c)) \o json = j \o ((y \o c) \o json) BY <1>1, <2>2, JoinedAll
  <2> QED BY <2>1, <2>3
<1>9. Reached(s, (x \o c) \o p, e, j \o ((y \o c) \o json), k + 1)
  BY <1>4, <1>6, <1>7, <1>8 DEF Reached
<1> QED BY <1>9 DEF c

\* A list is read as the list of what its items are read as.
LEMMA ListReads ==
  ASSUME NEW parts, NEW jsons, AllRead(parts, jsons), NEW in, NEW d, Started(in, d), NEW j \in Text
  PROVE  Reads(St(in, d, j, <<>>), Listing("{", parts, "}"),
               St(IF d = 0 THEN "end" ELSE "after", d, j \o Listing("[", jsons, "]"), <<>>))
<1> DEFINE n == Len(parts)
           T == Lines("{", parts)
           J == Lines("[", jsons)
           s == St(in, d, j, <<>>)
           e == d + 1
           S == {k \in 0..n : Reached(s, T[k], e, j \o J[k], k)}
<1>1. /\ parts \in Seq(Text) /\ jsons \in Seq(Text) /\ n = Len(jsons) /\ n \in Nat
      /\ \A i \in 1..n : ItemReads(parts[i], jsons[i])
  BY DEF AllRead
<1>2. d \in Nat /\ e \in Nat \ {0} /\ in \in {"start", "first", "item"} BY DEF Started
<1>3. "{" \in Characters /\ "[" \in Characters /\ "}" \in Characters /\ "]" \in Characters
  BY DEF Characters, Marks
<1>4. \A i \in 0..n : T[i] \in Text BY <1>1, <1>3, LinesSep
<1>5. T[0] = <<"{">> BY <1>1, <1>3, LinesSep
<1>6. \A i \in 1..n : T[i] = (T[i - 1] \o Sep(i)) \o parts[i] BY <1>1, <1>3, LinesSep
<1>7. \A i \in 0..n : J[i] \in Text BY <1>1, <1>3, LinesSep
<1>8. J[0] = <<"[">> BY <1>1, <1>3, LinesSep
<1>9. \A i \in 1..n : J[i] = (J[i - 1] \o Sep(i)) \o jsons[i] BY <1>1, <1>3, LinesSep
<1>10. Listing("{", parts, "}") = T[n] \o <<"}">> /\ Listing("[", jsons, "]") = J[n] \o <<"]">>
  BY <1>1 DEF Listing
<1>11. ParseAt(s, "{") = Opened(d, j, <<>>) 
  <2>1. d \in Int /\ in \in Openable BY <1>2 DEF Openable
  <2> QED BY ONLY <2>1, OpenIs
<1> HIDE DEF T, J
<1>12. 0 \in S
  <2> DEFINE r == Opened(d, j, <<>>)
             x == <<"{">>
             y == j \o J[0]
  <2>2. Within(r, e, y, 0) BY <1>2, <1>8, WithinFirst
  <2> HIDE DEF r, s, y
  <2>3. Reads(s, x, r) BY <1>11, ReadsOne DEF r
  <2>4. Reached(s, T[0], e, y, 0) BY <1>5, <2>2, <2>3 DEF Reached
  <2> QED BY <1>1, <2>4 DEF y
<1> HIDE DEF s, e, n
<1>13. ASSUME NEW k \in 0 .. n - 1, k \in S PROVE k + 1 \in S
  <2>1. k \in 0..n /\ k \in Nat /\ k + 1 \in 1..n /\ k + 1 \in 0..n BY <1>1
  <2> DEFINE m == k + 1
             x == T[k]
             y == J[k]
  <2>2. Reached(s, x, e, j \o y, k) /\ x \in Text /\ y \in Text BY <1>4, <1>7, <1>13, <2>1
  <2>3. ItemReads(parts[m], jsons[m]) BY <1>1, <2>1
  <2>4. T[m] = (T[m - 1] \o Sep(m)) \o parts[m] /\ J[m] = (J[m - 1] \o Sep(m)) \o jsons[m]
    BY <1>6, <1>9, <2>1
  <2>5. m - 1 = k BY <2>1
  <2> HIDE DEF x, y
  <2>6. Reached(s, (x \o Sep(k + 1)) \o parts[m], e, j \o ((y \o Sep(k + 1)) \o jsons[m]), k + 1)
    BY <1>2, <2>1, <2>2, <2>3, ReachedNext
  <2> HIDE DEF m
  <2>7. m = k + 1 BY DEF m
  <2>8. Reached(s, T[m], e, j \o J[m], m) BY <2>4, <2>5, <2>6, <2>7 DEF x, y
  <2> QED BY <2>1, <2>7, <2>8
<1> HIDE DEF S
<1>14. 0..n \subseteq S BY <1>1, <1>12, <1>13, Upwards
<1>15. n \in S /\ n \in 0..n BY <1>1, <1>14
<1> DEFINE x == T[n]
           y == J[n]
<1>16. x \in Text /\ y \in Text /\ Reached(s, x, e, j \o y, n) BY <1>4, <1>7, <1>15 DEF S
<1> HIDE DEF x, y
<1>17. PICK r : Reads(s, x, r) /\ Within(r, e, j \o y, n) BY <1>16 DEF Reached
<1> DEFINE u == Closed(e, j \o y, <<>>)
<1>18. ParseAt(r, "}") = u
  <2> DEFINE z == j \o y
  <2>1. e \in Int /\ n \in Nat BY <1>1, <1>2
  <2>2. Within(r, e, z, n) BY <1>17
  <2> HIDE DEF z
  <2>3. ParseAt(r, "}") = Closed(e, z, <<>>) BY <2>1, <2>2, WithinEnd
  <2> QED BY <2>3 DEF z
<1> HIDE DEF u
<1>19. Reads(s, x \o <<"}">>, u)
  <2>1. Reads(s, x \o <<"}">>, ParseAt(r, "}")) BY <1>3, <1>16, <1>17, ReadsMore
  <2> QED BY <1>18, <2>1
<1>20. u = St(IF d = 0 THEN "end" ELSE "after", d, j \o (y \o <<"]">>), <<>>)
  <2>1. e - 1 = d /\ (e = 1 <=> d = 0) BY <1>2 DEF e
  <2> DEFINE z == j \o y
             c == <<"]">>
  <2>2. z \in Text /\ c \in Text BY <1>3, <1>16, JoinedIn, TextOfOne
  <2>3. Append(z, "]") = z \o c BY <1>3, <2>2, JoinedOne
  <2> HIDE DEF c
  <2>4. z \o c = j \o (y \o c) BY <1>16, <2>2, JoinedAll
  <2>5. Append(z, "]") = j \o (y \o c) BY <2>3, <2>4
  <2> QED BY <2>1, <2>5 DEF u, Closed, c
<1> QED BY <1>10, <1>19, <1>20 DEF s, x, y

-----------------------------------------------------------------------------
(* Arrays: the whole text.                                                 *)

\* The words of a line, printed and as JSON.
PrintedLine(words) == Listing("{", [i \in DOMAIN words |-> PrintedWord(words[i])], "}")
JsonLine(words) == Listing("[", [i \in DOMAIN words |-> JsonWord(words[i])], "]")

LEMMA ItemsRead ==
  ASSUME NEW n \in Nat, NEW parts, NEW jsons,
         parts = [i \in 1..n |-> parts[i]], jsons = [i \in 1..n |-> jsons[i]],
         \A i \in 1..n : ItemReads(parts[i], jsons[i])
  PROVE  AllRead(parts, jsons)
<1>1. \A i \in 1..n : parts[i] \in Text /\ jsons[i] \in Text BY DEF ItemReads
<1>2. parts \in Seq(Text) /\ Len(parts) = n
  <2>1. parts \in [1..n -> Text] BY <1>1
  <2> QED BY <2>1
<1>3. jsons \in Seq(Text) /\ Len(jsons) = n
  <2>1. jsons \in [1..n -> Text] BY <1>1
  <2> QED BY <2>1
<1> QED BY <1>2, <1>3 DEF AllRead

LEMMA WordsRead ==
  ASSUME NEW words \in Seq(Text)
  PROVE  AllRead([i \in DOMAIN words |-> PrintedWord(words[i])],
                 [i \in DOMAIN words |-> JsonWord(words[i])])
<1> DEFINE n == Len(words)
           p == [i \in DOMAIN words |-> PrintedWord(words[i])]
           q == [i \in DOMAIN words |-> JsonWord(words[i])]
<1>1. n \in Nat /\ DOMAIN words = 1..n /\ \A i \in 1..n : words[i] \in Text OBVIOUS
<1>2. p = [i \in 1..n |-> p[i]] /\ q = [i \in 1..n |-> q[i]] BY <1>1
<1>3. \A i \in 1..n : p[i] = PrintedWord(words[i]) /\ q[i] = JsonWord(words[i]) BY <1>1
<1> HIDE DEF p, q, n
<1>4. \A i \in 1..n : ItemReads(p[i], q[i]) BY <1>1, <1>3, WordReads
<1>5. AllRead(p, q) BY <1>1, <1>2, <1>4, ItemsRead
<1> QED BY <1>5 DEF p, q

Bracketed(in, d, j, parts, jsons) ==
  Reads(St(in, d, j, <<>>), Listing("{", parts, "}"),
        St(IF d = 0 THEN "end" ELSE "after", d, j \o Listing("[", jsons, "]"), <<>>))

LEMMA ListingsIn ==
  ASSUME NEW parts, NEW jsons, AllRead(parts, jsons)
  PROVE  Listing("{", parts, "}") \in Text /\ Listing("[", jsons, "]") \in Text
<1>1. "{" \in Characters /\ "[" \in Characters /\ "}" \in Characters /\ "]" \in Characters
  BY DEF Characters, Marks
<1>2. parts \in Seq(Text) /\ jsons \in Seq(Text) BY DEF AllRead
<1>3. Listing("{", parts, "}") \in Text BY <1>1, <1>2, ListingIn
<1>4. Listing("[", jsons, "]") \in Text BY <1>1, <1>2, ListingIn
<1> QED BY <1>3, <1>4

\* A list within a list.
LEMMA InnerReads ==
  ASSUME NEW parts, NEW jsons, AllRead(parts, jsons)
  PROVE  ItemReads(Listing("{", parts, "}"), Listing("[", jsons, "]"))
<1> DEFINE p == Listing("{", parts, "}")
           q == Listing("[", jsons, "]")
<1>1. p \in Text /\ q \in Text BY ListingsIn
<1>2. ASSUME NEW in \in {"first", "item"}, NEW d \in Nat \ {0}, NEW j \in Text
      PROVE  ReadsAs(in, d, j, p, q)
  <2> DEFINE r == St("after", d, j \o q, <<>>)
  <2>1. Started(in, d) BY DEF Started
  <2>2. Reads(St(in, d, j, <<>>), p, St(IF d = 0 THEN "end" ELSE "after", d, j \o q, <<>>))
    BY <2>1, ListReads
  <2>3. \A ch : ParseAt(r, ch) = After(r, ch) BY AfterIs
  <2>4. r = Behind(d, j, q) BY DEF Behind
  <2>5. (IF d = 0 THEN "end" ELSE "after") = "after" OBVIOUS
  <2> HIDE DEF p, q
  <2>6. Reads(St(in, d, j, <<>>), p, r) BY <2>2, <2>5
  <2> HIDE DEF r
  <2>7. Ends(r, d, j, q) BY <2>3, <2>4 DEF Ends
  <2> QED BY <2>6, <2>7 DEF ReadsAs
<1> HIDE DEF p, q
<1>3. ItemReads(p, q) BY <1>1, <1>2 DEF ItemReads
<1> QED BY <1>3 DEF p, q

LEMMA RowsRead ==
  ASSUME NEW rows \in Seq(Seq(Text))
  PROVE  AllRead([i \in DOMAIN rows |-> PrintedLine(rows[i])], [i \in DOMAIN rows |-> JsonLine(rows[i])])
<1> DEFINE n == Len(rows)
           p == [i \in DOMAIN rows |-> PrintedLine(rows[i])]
           q == [i \in DOMAIN rows |-> JsonLine(rows[i])]
<1>1. n \in Nat /\ DOMAIN rows = 1..n /\ \A i \in 1..n : rows[i] \in Seq(Text) OBVIOUS
<1>2. p = [i \in 1..n |-> p[i]] /\ q = [i \in 1..n |-> q[i]] BY <1>1
<1>3. \A i \in 1..n : p[i] = PrintedLine(rows[i]) /\ q[i] = JsonLine(rows[i]) BY <1>1
<1>4. ASSUME NEW words \in Seq(Text) PROVE ItemReads(PrintedLine(words), JsonLine(words))
  <2>1. AllRead([i \in DOMAIN words |-> PrintedWord(words[i])],
                [i \in DOMAIN words |-> JsonWord(words[i])])
    BY WordsRead
  <2> QED BY <2>1, InnerReads DEF PrintedLine, JsonLine
<1> HIDE DEF p, q, n
<1>5. \A i \in 1..n : ItemReads(p[i], q[i]) BY <1>1, <1>3, <1>4
<1>6. AllRead(p, q) BY <1>1, <1>2, <1>5, ItemsRead
<1> QED BY <1>6 DEF p, q

\* The first character of a list.
LEMMA ListBegins ==
  ASSUME NEW open \in Characters, NEW close \in Characters, NEW parts \in Seq(Text)
  PROVE  Len(Listing(open, parts, close)) > 0 /\ Listing(open, parts, close)[1] = open
<1> DEFINE n == Len(parts)
           T == Lines(open, parts)
           S == {k \in 0..n : Len(T[k]) > 0 /\ T[k][1] = open}
<1>1. n \in Nat /\ \A i \in 1..n : parts[i] \in Text OBVIOUS
<1>2. \A i \in 0..n : T[i] \in Text BY LinesSep
<1>3. T[0] = <<open>> BY LinesSep
<1>4. \A i \in 1..n : T[i] = (T[i - 1] \o Sep(i)) \o parts[i] BY LinesSep
<1>5. Listing(open, parts, close) = T[n] \o <<close>> BY DEF Listing
<1>6. ASSUME NEW x \in Text, NEW y \in Text, Len(x) > 0, x[1] = open
      PROVE  Len(x \o y) > 0 /\ (x \o y)[1] = open
  BY <1>6 DEF Text
<1> HIDE DEF n, T
<1>7. 0 \in S BY <1>1, <1>3
<1>8. ASSUME NEW k \in 0 .. n - 1, k \in S PROVE k + 1 \in S
  <2> DEFINE m == k + 1
  <2>1. m \in 1..n /\ m \in 0..n /\ k \in 0..n /\ m - 1 = k BY <1>1
  <2>2. T[k] \in Text /\ Sep(m) \in Text /\ parts[m] \in Text BY <1>1, <1>2, <2>1, SepIn
  <2>3. Len(T[k]) > 0 /\ T[k][1] = open BY <1>8
  <2>4. T[m] = (T[k] \o Sep(m)) \o parts[m] BY <1>4, <2>1
  <2> HIDE DEF m, S
  <2> DEFINE z == T[k] \o Sep(m)
  <2>5. z \in Text /\ Len(z) > 0 /\ z[1] = open BY <1>6, <2>2, <2>3, JoinedIn
  <2> HIDE DEF z
  <2>6. Len(z \o parts[m]) > 0 /\ (z \o parts[m])[1] = open BY <1>6, <2>2, <2>5
  <2>7. m \in S BY <2>1, <2>4, <2>6 DEF S, z
  <2> QED BY <2>7 DEF m
<1> HIDE DEF S
<1>9. 0..n \subseteq S BY <1>1, <1>7, <1>8, Upwards
<1>10. n \in S /\ n \in 0..n BY <1>1, <1>9
<1>11. Len(T[n]) > 0 /\ T[n][1] = open BY <1>10 DEF S
<1>12. <<close>> \in Text BY TextOfOne
<1>13. Len(T[n] \o <<close>>) > 0 /\ (T[n] \o <<close>>)[1] = open
  BY <1>2, <1>6, <1>10, <1>11, <1>12
<1> QED BY <1>5, <1>13

\* An array: what its text is, without the bounds, and its JSON.
Body(a) == Nested(a, "{", "}", PrintedWord)

GoodArray(a) ==
  /\ a.flat \in BOOLEAN /\ a.bounds \in BOOLEAN
  /\ a.rows \in Seq(Seq(Text))
  /\ a.flat => a.rows # <<>>

LEMMA BodyIs ==
  ASSUME NEW a, GoodArray(a)
  PROVE  \E parts, jsons : /\ AllRead(parts, jsons)
                           /\ Body(a) = Listing("{", parts, "}")
                           /\ JsonOf(a) = Listing("[", jsons, "]")
<1>1. CASE a.flat
  <2> DEFINE words == Head(a.rows)
             p == [i \in DOMAIN words |-> PrintedWord(words[i])]
             q == [i \in DOMAIN words |-> JsonWord(words[i])]
  <2>1. words \in Seq(Text) BY <1>1 DEF GoodArray
  <2>2. Body(a) = Listing("{", p, "}") BY <1>1, Zenon DEF Body, Nested
  <2>3. JsonOf(a) = Listing("[", q, "]") BY <1>1, Zenon DEF JsonOf, Nested
  <2> HIDE DEF words
  <2>4. AllRead(p, q) BY <2>1, WordsRead
  <2> HIDE DEF p, q
  <2> QED BY <2>2, <2>3, <2>4
<1>2. CASE ~a.flat
  <2> DEFINE rows == a.rows
             p == [i \in DOMAIN rows |-> PrintedLine(rows[i])]
             q == [i \in DOMAIN rows |-> JsonLine(rows[i])]
  <2>1. rows \in Seq(Seq(Text)) BY DEF GoodArray
  <2>2. Body(a) = Listing("{", p, "}") BY <1>2, Zenon DEF Body, Nested, PrintedLine
  <2>3. JsonOf(a) = Listing("[", q, "]") BY <1>2, Zenon DEF JsonOf, Nested, JsonLine
  <2> HIDE DEF rows
  <2>4. AllRead(p, q) BY <2>1, RowsRead
  <2> HIDE DEF p, q
  <2> QED BY <2>2, <2>3, <2>4
<1> QED BY <1>1, <1>2 DEF GoodArray

LEMMA BodyReads ==
  ASSUME NEW a, GoodArray(a)
  PROVE  /\ Body(a) \in Text /\ Len(Body(a)) > 0 /\ Body(a)[1] = "{"
         /\ Parsed(Body(a))[Len(Body(a))] = St("end", 0, JsonOf(a), <<>>)
<1>1. PICK parts, jsons : /\ AllRead(parts, jsons)
                          /\ Body(a) = Listing("{", parts, "}")
                          /\ JsonOf(a) = Listing("[", jsons, "]")
  BY BodyIs
<1> DEFINE p == Listing("{", parts, "}")
           q == Listing("[", jsons, "]")
<1>2. p \in Text /\ q \in Text BY <1>1, ListingsIn
<1>3. Len(p) > 0 /\ p[1] = "{"
  <2>1. "{" \in Characters /\ "}" \in Characters BY DEF Characters, Marks
  <2>2. parts \in Seq(Text) BY <1>1 DEF AllRead
  <2> QED BY <2>1, <2>2, ListBegins
<1>4. Reads(St("start", 0, <<>>, <<>>), p, St(IF 0 = 0 THEN "end" ELSE "after", 0, <<>> \o q, <<>>))
  <2>1. PICK in, d, j : in = "start" /\ d = 0 /\ j = <<>> OBVIOUS
  <2>2. Started(in, d) BY <2>1 DEF Started
  <2>3. j \in Text BY <2>1, NoText
  <2>4. Reads(St(in, d, j, <<>>), p, St(IF d = 0 THEN "end" ELSE "after", d, j \o q, <<>>))
    BY <1>1, <2>2, <2>3, ListReads
  <2> QED BY <2>1, <2>4
<1> HIDE DEF p, q
<1>5. <<>> \o q = q BY <1>2, JoinedNone
<1>6. ParseStart = St("start", 0, <<>>, <<>>) BY DEF ParseStart, St
<1>7. Reads(ParseStart, p, St("end", 0, q, <<>>)) BY <1>4, <1>5, <1>6
<1>8. Parsed(p)[Len(p)] = St("end", 0, q, <<>>) BY <1>2, <1>7, ParsedIs
<1> QED BY <1>1, <1>2, <1>3, <1>8 DEF p, q

LEMMA HeadIs == ASSUME NEW x \in Text, Len(x) > 0 PROVE Head(x) = x[1]
BY DEF Text

LEMMA JoinedIs ==
  ASSUME NEW x \in Text, NEW y \in Text
  PROVE  /\ Len(x \o y) = Len(x) + Len(y) /\ DOMAIN (x \o y) = 1 .. Len(x) + Len(y)
         /\ \A i \in 1..Len(x) : (x \o y)[i] = x[i]
         /\ Len(x) \in Nat /\ Len(y) \in Nat
BY DEF Text

\* parse_array() gives every array back that Postgres prints.
LEMMA ArrayIs ==
  ASSUME NEW a, GoodArray(a)
  PROVE  ParseArray(Printed(a)) = JsonOf(a)
<1> DEFINE text == Printed(a)
           eq == {i \in DOMAIN text : text[i] = "="}
           body == IF eq # {} /\ Head(text) = "[" THEN SubSeq(text, Min(eq) + 1, Len(text)) ELSE text
           b == Body(a)
           s == Parsed(b)[Len(b)]
<1>0. b \in Text /\ Len(b) > 0 BY BodyReads
<1>1. b[1] = "{" BY BodyReads
<1>2. s = St("end", 0, JsonOf(a), <<>>) BY BodyReads
<1>3. s.in = "end" /\ s.json = JsonOf(a) BY <1>2 DEF St
<1>4. text = (IF a.bounds THEN <<"[", "0:1", "]", "=">> ELSE <<>>) \o b BY DEF Printed, Body
<1>5. ParseArray(text) = LET s1 == Parsed(body)[Len(body)] IN IF s1.in = "end" THEN s1.json ELSE text
  BY DEF ParseArray
<1> HIDE DEF text, s, b
<1>6. body = b
  <2>1. CASE ~a.bounds
    <3>1. text = b BY <1>0, <1>4, <2>1, JoinedNone
    <3>2. Head(text) = "{"
      <4>1. Head(text) = text[1] BY <1>0, <3>1, HeadIs
      <4> QED BY <1>1, <3>1, <4>1
    <3>3. Head(text) # "[" BY <3>2
    <3> QED BY <3>1, <3>3
  <2>2. CASE a.bounds
    <3> DEFINE x == <<"[", "0:1", "]", "=">>
    <3>1. Len(x) = 4 /\ x[1] = "[" /\ x[2] = "0:1" /\ x[3] = "]" /\ x[4] = "=" OBVIOUS
    <3>2. \A i \in 1..3 : x[i] # "="
      <4>1. "[" # "=" /\ "0:1" # "=" /\ "]" # "=" OBVIOUS
      <4>2. \A i \in 1..3 : i = 1 \/ i = 2 \/ i = 3 OBVIOUS
      <4> HIDE DEF x
      <4> QED BY <3>1, <4>1, <4>2
    <3>3. x \in Text
      <4>1. "[" \in Characters /\ "0:1" \in Characters /\ "]" \in Characters /\ "=" \in Characters
        BY DEF Characters, Marks
      <4> QED BY <4>1 DEF Text
    <3>4. text = x \o b BY <1>4, <2>2
    <3> HIDE DEF x
    <3>5. /\ Len(text) = 4 + Len(b) /\ DOMAIN text = 1 .. 4 + Len(b)
          /\ \A i \in 1..4 : text[i] = x[i]
          /\ Len(b) \in Nat
      <4>1. Len(x) = 4 BY <3>1
      <4> QED BY <1>0, <3>3, <3>4, <4>1, JoinedIs
    <3>6. 4 \in eq /\ \A i \in eq : 4 <= i
      <4>1. 4 \in DOMAIN text /\ text[4] = "=" BY <3>1, <3>5
      <4>2. ASSUME NEW i \in eq PROVE 4 <= i
        <5>1. i \in 1 .. 4 + Len(b) /\ text[i] = "=" BY <3>5
        <5>2. CASE i \in 1..3 BY <3>2, <3>5, <5>1, <5>2
        <5> QED BY <3>5, <5>1, <5>2
      <4> QED BY <4>1, <4>2
    <3> HIDE DEF eq
    <3>7. Min(eq) = 4
      <4>1. \A y \in eq : (\A i \in eq : y <= i) => y = 4
        <5>1. eq \subseteq Int BY <3>5 DEF eq
        <5> QED BY <3>6, <5>1
      <4> QED BY <3>6, <4>1 DEF Min
    <3>8. Head(text) = "["
      <4>1. Len(text) > 0 BY <3>5
      <4>2. text \in Text BY <1>0, <3>3, <3>4, JoinedIn
      <4>3. Head(text) = text[1] BY <4>1, <4>2, HeadIs
      <4> QED BY <3>1, <3>5, <4>3
    <3>9. body = SubSeq(text, 5, Len(text)) BY <3>6, <3>7, <3>8
    <3> HIDE DEF body
    <3>10. SubSeq(text, 5, Len(text)) = SubSeq(b, 1, Len(b))
      <4>1. 5 \in Len(x) + 1 .. Len(x) + Len(b) /\ Len(text) \in Len(x) + 1 .. Len(x) + Len(b)
        <5>1. Len(x) = 4 BY <3>1
        <5>2. Len(text) = 4 + Len(b) /\ Len(b) \in Nat /\ Len(b) > 0 BY <1>0, <3>5
        <5> QED BY <5>1, <5>2
      <4>2. 5 - Len(x) = 1 /\ Len(text) - Len(x) = Len(b) BY <3>1, <3>5
      <4> QED BY <1>0, <3>3, <3>4, <4>1, <4>2, SubSeqOfConcat2 DEF Text
    <3>11. SubSeq(b, 1, Len(b)) = b BY <1>0, PrefixEnds
    <3> QED BY <3>9, <3>10, <3>11
  <2> QED BY <2>1, <2>2 DEF GoodArray
<1> HIDE DEF body
<1>7. ParseArray(text) = IF s.in = "end" THEN s.json ELSE text BY <1>5, <1>6 DEF s
<1> QED BY <1>3, <1>7 DEF text

-----------------------------------------------------------------------------
(* Rows and arrays in the answers.                                         *)

\* What RowsExact says of one answer.
Told(ask, result) ==
  /\ ask.cause = "rows" => RowsTell(result, server.engine, ask.result, server.maxRows)
  /\ \A a \in ask.array : result.array = JsonOf(a)

LEMMA ToldIs == RowsExact <=> Told(asked, answer)
BY Zenon DEF RowsExact, Told, RowsTell

LEMMA ToldNext == RowsExact' <=> Told(asked, answer)'
BY ToldIs, PTL

\* The inductive invariant: the cap is a number, and calls come to a server
\* only.
RowsInv == /\ server.maxRows \in Nat
           /\ phase # "serving" => asked = NoAsk
           /\ RowsExact

LEMMA NoAskTells == NoAsk.cause # "rows" /\ NoAsk.array = {}
BY DEF NoAsk, None

LEMMA TellsNothing ==
  ASSUME NEW ask, NEW result, ask.cause # "rows", ask.array = {}
  PROVE  Told(ask, result)
BY DEF Told

LEMMA ReplyTold ==
  ASSUME RowsInv, NEW ask, NEW result, NEW text, Reply(ask, result, text), Told(ask, result)
  PROVE  RowsInv'
<1>1. phase' = "serving" /\ server' = server /\ asked' = ask /\ answer' = result BY DEF Reply
<1>2. RowsExact' BY <1>1, ToldNext DEF Told
<1> QED BY <1>1, <1>2 DEF RowsInv

\* A number that was parsed is a natural.
LEMMA NumeralsAre == ASSUME NEW raw \in U64 PROVE Numeral[raw] \in Nat
BY DEF U64, Numeral

LEMMA CapIs ==
  ASSUME NEW g, Load(g).error = None
  PROVE  Load(g).maxRows \in Nat
<1> DEFINE raw == TextOf(g, "maxRows")
           n == Number(raw, 1000, U64)
<1>1. n \in Int
  <2>0. None \notin U64 BY DEF None, U64
  <2>1. CASE raw = None
    <3>1. n = 1000 BY <2>0, <2>1 DEF Number
    <3> QED BY <3>1
  <2>2. CASE raw # None /\ raw \in U64
    <3>1. n = Numeral[raw] BY <2>2 DEF Number
    <3> QED BY <2>2, <3>1, NumeralsAre
  <2>3. CASE raw # None /\ raw \notin U64
    <3>1. n = Garbage BY <2>3 DEF Number
    <3> QED BY <3>1 DEF Garbage
  <2> QED BY <2>1, <2>2, <2>3
<1>2. Load(g).maxRows = IF n > 0 THEN n ELSE Garbage BY FieldsAre DEF MaxRowsOf, Positive
<1>3. Load(g).maxRows # Garbage BY NoError, FieldsAre
<1> HIDE DEF n
<1> QED BY <1>1, <1>2, <1>3

LEMMA StartTold ==
  ASSUME RowsInv, Start
  PROVE  RowsInv'
<1> DEFINE c == Load(given)
<1>1. phase = "setup" /\ asked' = asked /\ answer' = answer BY DEF Start
<1>2. asked = NoAsk
  <2>1. phase # "serving" BY <1>1
  <2> QED BY <2>1 DEF RowsInv
<1>3. Told(asked, answer)' BY <1>1, <1>2, NoAskTells DEF Told
<1>4. RowsExact' BY <1>3, ToldNext
<1>5. server' = server \/ (server'.maxRows = c.maxRows /\ c.error = None)
  <2>1. \/ UNCHANGED server
        \/ /\ c.error = None
           /\ \E engine \in Engines :
                server' = [engine |-> engine, readOnly |-> c.readOnly, maxRows |-> c.maxRows,
                           secrets |-> c.secrets, known |-> Known(c)]
    BY DEF Start, Exit
  <2> HIDE DEF c
  <2> QED BY <2>1
<1>6. server'.maxRows \in Nat
  <2>1. c.error = None => c.maxRows \in Nat BY CapIs
  <2> QED BY <1>5, <2>1 DEF RowsInv
<1> QED BY <1>1, <1>2, <1>4, <1>6 DEF RowsInv

LEMMA ReasonsTold ==
  ASSUME RowsInv, Blocked \/ Fails
  PROVE  RowsInv'
<1>1. PICK cause, result, text : Reply(Because(cause), result, text) /\ cause # "rows"
  <2>1. "several statements" # "rows" /\ "write" # "rows" OBVIOUS
  <2>2. CASE Blocked
    <3>1. \E result, text : \/ Reply(Because("several statements"), result, text)
                            \/ Reply(Because("write"), result, text)
      BY <2>2, Zenon DEF Blocked
    <3> QED BY <2>1, <3>1, Zenon
  <2>3. CASE Fails
    <3>1. PICK cause \in Causes : \E m \in Messages(cause) :
            Reply(Because(cause), Failed(Sanitized(m, server.secrets).starts), Sanitized(m, server.secrets).shown)
      BY <2>3 DEF Fails
    <3>2. cause # "rows" BY DEF Causes
    <3> QED BY <3>1, <3>2, Zenon
  <2> QED BY <2>2, <2>3
<1>2. Because(cause).cause = cause /\ Because(cause).array = {} BY DEF Because, NoAsk
<1> QED BY <1>1, <1>2, TellsNothing, ReplyTold

LEMMA TableTold ==
  ASSUME RowsInv, DescribeTable
  PROVE  RowsInv'
<1>1. PICK ask, result : Reply(ask, result, {}) /\ ask.cause = "table" /\ ask.array = {}
  <2>1. \A x : /\ [NoAsk EXCEPT !.cause = "table", !.keys = x].cause = "table"
               /\ [NoAsk EXCEPT !.cause = "table", !.keys = x].array = {}
               /\ [NoAsk EXCEPT !.cause = "table", !.indexes = x].cause = "table"
               /\ [NoAsk EXCEPT !.cause = "table", !.indexes = x].array = {}
    BY DEF NoAsk
  <2>2. \/ \E x \in Schemas : \E result : Reply([NoAsk EXCEPT !.cause = "table", !.keys = x], result, {})
        \/ \E x \in IndexSets : \E result : Reply([NoAsk EXCEPT !.cause = "table", !.indexes = x], result, {})
    BY Zenon DEF DescribeTable
  <2> QED BY <2>1, <2>2, Zenon
<1> QED BY <1>1, TellsNothing, ReplyTold

\* A result of rows.
LEMMA RowsTold ==
  ASSUME RowsInv, NEW x \in Results, NEW r, r = RunQuery(server.engine, x, server.maxRows),
         NEW ask, NEW result, NEW text, Reply(ask, result, text),
         ask.cause = "rows", ask.result = x, ask.array = {},
         result.rows = r.rows, result.truncated = r.truncated
  PROVE  RowsInv'
<1>1. PICK engine, maxRows : engine = server.engine /\ maxRows = server.maxRows OBVIOUS
<1>2. x \in Seq(Int) /\ maxRows \in Nat BY <1>1, ResultsAssumption DEF RowsInv
<1>3. r = RunQuery(engine, x, maxRows) BY <1>1
<1>4. RowsTell(r, engine, x, maxRows) BY <1>2, <1>3, RowsAre
<1>5. RowsTell(result, engine, x, maxRows) BY <1>4 DEF RowsTell
<1>6. Told(ask, result) BY <1>1, <1>5 DEF Told
<1> QED BY <1>6, ReplyTold

\* A result with an array.
LEMMA ArrayTold ==
  ASSUME RowsInv, NEW a \in Arrays, NEW ask, NEW result, NEW text, Reply(ask, result, text),
         ask.cause = "array", ask.array = {a}, result.array = ParseArray(Printed(a))
  PROVE  RowsInv'
<1>1. GoodArray(a)
  <2>1. Seq(STRING) \subseteq Text BY DEF Text, Characters
  <2>2. Seq(Seq(STRING)) \subseteq Seq(Text) BY <2>1
  <2>3. Seq(Seq(Seq(STRING))) \subseteq Seq(Seq(Text)) BY <2>2
  <2>4. /\ a.flat \in BOOLEAN /\ a.bounds \in BOOLEAN /\ a.rows \in Seq(Seq(Seq(STRING)))
        /\ a.flat => a.rows # <<>>
    BY ArraysAssumption
  <2>5. a.rows \in Seq(Seq(Text)) BY <2>3, <2>4
  <2> QED BY <2>4, <2>5 DEF GoodArray
<1>2. result.array = JsonOf(a) BY <1>1, ArrayIs
<1>3. ask.cause # "rows" OBVIOUS
<1>4. Told(ask, result) BY <1>2, <1>3 DEF Told
<1> QED BY <1>4, ReplyTold

LEMMA ExecuteTold ==
  ASSUME RowsInv, ExecuteSql
  PROVE  RowsInv'
<1>1. CASE \E x \in Results :
             LET r == RunQuery(server.engine, x, server.maxRows)
             IN Reply([NoAsk EXCEPT !.cause = "rows", !.result = x],
                      [Ok EXCEPT !.rows = r.rows, !.truncated = r.truncated], {})
  <2>1. PICK x, r, ask, result :
          /\ x \in Results
          /\ r = RunQuery(server.engine, x, server.maxRows)
          /\ ask = [NoAsk EXCEPT !.cause = "rows", !.result = x]
          /\ result = [Ok EXCEPT !.rows = r.rows, !.truncated = r.truncated]
          /\ Reply(ask, result, {})
    BY <1>1, Zenon
  <2>2. ask.cause = "rows" /\ ask.result = x /\ ask.array = {} BY <2>1 DEF NoAsk
  <2>3. result.rows = r.rows /\ result.truncated = r.truncated
    <3>1. "rows" \in DOMAIN Ok /\ "truncated" \in DOMAIN Ok BY DEF Ok, NoAnswer
    <3>2. PICK y, z : y = r.rows /\ z = r.truncated OBVIOUS
    <3>3. result = [Ok EXCEPT !.rows = y, !.truncated = z] BY <2>1, <3>2, Zenon
    <3>4. result.rows = y /\ result.truncated = z BY <3>1, <3>3
    <3> QED BY <3>2, <3>4
  <2> QED BY <2>1, <2>2, <2>3, RowsTold
<1>2. CASE /\ server.engine = "postgres"
           /\ \E a \in Arrays :
                Reply([NoAsk EXCEPT !.cause = "array", !.array = {a}],
                      [Ok EXCEPT !.array = ParseArray(Printed(a))], {})
  <2>1. PICK a, ask, result :
          /\ a \in Arrays
          /\ ask = [NoAsk EXCEPT !.cause = "array", !.array = {a}]
          /\ result = [Ok EXCEPT !.array = ParseArray(Printed(a))]
          /\ Reply(ask, result, {})
    BY <1>2, Zenon
  <2>2. ask.cause = "array" /\ ask.array = {a} BY <2>1 DEF NoAsk
  <2>3. result.array = ParseArray(Printed(a)) BY <2>1 DEF Ok, NoAnswer
  <2> QED BY <2>1, <2>2, <2>3, ArrayTold
<1> QED BY <1>1, <1>2 DEF ExecuteSql

LEMMA RowsInit == Init => RowsInv
<1> SUFFICES ASSUME Init PROVE RowsInv OBVIOUS
<1>1. server.maxRows = 0 /\ asked = NoAsk BY DEF Init, NoServer
<1>2. Told(asked, answer) BY <1>1, NoAskTells, TellsNothing
<1> QED BY <1>1, <1>2, ToldIs DEF RowsInv

LEMMA RowsStep == RowsInv /\ [Next]_vars => RowsInv'
<1> SUFFICES ASSUME RowsInv, [Next]_vars PROVE RowsInv' OBVIOUS
<1>1. CASE \E i \in Inputs : \E text \in TextsAt(i[1], i[2]) : Give(i, text)
  BY <1>1 DEF Give, RowsInv, RowsExact
<1>2. CASE Start BY <1>2, StartTold
<1>3. CASE Blocked \/ Fails BY <1>3, ReasonsTold
<1>4. CASE ExecuteSql BY <1>4, ExecuteTold
<1>5. CASE DescribeTable BY <1>5, TableTold
<1>6. CASE Over
  <2>1. asked' = NoAsk /\ server' = server BY <1>6 DEF Over
  <2>2. Told(asked, answer)' BY <2>1, NoAskTells DEF Told
  <2> QED BY <2>1, <2>2, ToldNext DEF RowsInv
<1>7. CASE UNCHANGED vars BY <1>7 DEF vars, RowsInv, RowsExact
<1> QED BY <1>1, <1>2, <1>3, <1>4, <1>5, <1>6, <1>7 DEF Next

\* A result is answered row for row up to the cap, which is reported exactly
\* when it cut something off; integers are numbers where JavaScript keeps them;
\* parse_array gives back every array that Postgres prints, whatever the words
\* in it contain.
THEOREM RowsExactHolds == Spec => []RowsExact
<1>1. RowsInv => RowsExact BY DEF RowsInv
<1> QED BY <1>1, RowsInit, RowsStep, PTL DEF Spec

-----------------------------------------------------------------------------
(* Tables: keys in order.                                                  *)

\* Every part of the set that has elements has one with none before it.
WellOrdered(set, before) ==
  \A rest \in SUBSET set : rest # {} => \E e \in rest : \A f \in rest : <<f, e>> \notin before

\* s lists the set; neighbours differ.
Ordered(s, set) ==
  /\ s \in [1..Cardinality(set) -> set]
  /\ \A e \in set : \E i \in 1..Cardinality(set) : s[i] = e
  /\ \A i \in 2..Cardinality(set) : s[i] # s[i - 1]

LEMMA SortedIs ==
  ASSUME NEW set, IsFiniteSet(set), NEW before, WellOrdered(set, before)
  PROVE  Ordered(Sorted(set, before), set)
<1> DEFINE n == Cardinality(set)
           V == SUBSET set
           Chosen(rest) == Leading(rest, before)
           Turn(rest) == rest \ {Chosen(rest)}
           step == [p \in V \X (1..n) |-> Turn(p[1])]
           Is(g) == g = [i \in 0..n |-> IF i = 0 THEN set ELSE Turn(g[i - 1])]
           Left == CHOOSE g : Is(g)
           s == Sorted(set, before)
<1>1. n \in Nat BY FS_CardinalityType
<1>2. s = [i \in 1..n |-> Chosen(Left[i - 1])] BY DEF Sorted
<1>3. \A rest \in V : rest # {} => Chosen(rest) \in rest BY DEF Leading, WellOrdered
<1>4. Steps(V, n, step) BY DEF Steps
<1>5. ASSUME NEW x \in V, NEW i \in 1..n PROVE step[<<x, i>>] = Turn(x) OBVIOUS
<1>6. set \in V /\ \A x : Turn(x) = x \ {Chosen(x)} OBVIOUS
<1> HIDE DEF V, n, step, Turn, Chosen, s
<1>7. PICK f : Fold(V, set, n, step, f) BY <1>1, <1>4, <1>6, FoldExists
<1>8. \A i \in 1..n : f[i] = Turn(f[i - 1])
  <2>1. ASSUME NEW i \in 1..n PROVE f[i] = Turn(f[i - 1])
    <3>1. i - 1 \in 0..n BY <1>1
    <3>2. f[i - 1] \in V /\ f[i] = step[<<f[i - 1], i>>] BY <1>7, <3>1 DEF Fold
    <3> QED BY <1>5, <3>2
  <2> QED BY <2>1
<1>9. Is(f) BY <1>1, <1>7, <1>8 DEF Fold
<1>10. Is(Left) BY <1>9
<1> HIDE DEF Left
<1>11. /\ Left = [i \in 0..n |-> Left[i]] /\ Left[0] = set
       /\ \A i \in 1..n : Left[i] = Turn(Left[i - 1])
  <2>1. \A i \in 0..n : Left[i] = IF i = 0 THEN set ELSE Turn(Left[i - 1]) BY <1>10
  <2>2. \A i \in 1..n : i \in 0..n /\ i # 0 BY <1>1
  <2>3. Left[0] = set BY <1>1, <2>1
  <2>4. \A i \in 1..n : Left[i] = Turn(Left[i - 1]) BY <2>1, <2>2
  <2>5. Left = [i \in 0..n |-> Left[i]] BY <1>10
  <2> QED BY <2>3, <2>4, <2>5
<1>12. Left \in [0..n -> V]
  <2>1. \A i \in 1..n : Left[i - 1] \in V => Left[i] = step[<<Left[i - 1], i>>] BY <1>5, <1>11
  <2>2. Fold(V, set, n, step, Left) BY <1>1, <1>4, <1>6, <1>11, <2>1, FoldIn
  <2> QED BY <2>2 DEF Fold
<1> DEFINE Size == {i \in 0..n : IsFiniteSet(Left[i]) /\ Cardinality(Left[i]) = n - i}
<1>13. 0..n \subseteq Size
  <2>1. 0 \in Size BY <1>1, <1>11 DEF n
  <2>2. ASSUME NEW i \in 0 .. n - 1, i \in Size PROVE i + 1 \in Size
    <3> DEFINE k == i + 1
    <3>1. i \in 0..n /\ k \in 1..n /\ k \in 0..n /\ k - 1 = i BY <1>1
    <3>2. IsFiniteSet(Left[i]) /\ Cardinality(Left[i]) = n - i /\ n - i # 0 BY <1>1, <2>2
    <3>3. Left[i] # {} BY <3>2, FS_EmptySet
    <3>4. Chosen(Left[i]) \in Left[i] BY <1>3, <1>12, <3>1, <3>3
    <3>5. Left[k] = Left[i] \ {Chosen(Left[i])} BY <1>6, <1>11, <3>1
    <3>6. IsFiniteSet(Left[k]) /\ Cardinality(Left[k]) = n - i - 1 BY <3>2, <3>4, <3>5, FS_RemoveElement
    <3>7. n - i - 1 = n - k BY <1>1
    <3>8. k \in Size BY <3>1, <3>6, <3>7
    <3> QED BY <3>8
  <2> HIDE DEF Size
  <2> QED BY <1>1, <2>1, <2>2, Upwards
<1>14. ASSUME NEW i \in 1..n
       PROVE  /\ s[i] \in Left[i - 1] /\ s[i] \in set
              /\ Left[i] = Left[i - 1] \ {s[i]}
  <2>1. i - 1 \in 0..n BY <1>1
  <2>2. IsFiniteSet(Left[i - 1]) /\ Cardinality(Left[i - 1]) # 0 BY <1>1, <1>13, <2>1
  <2>3. Left[i - 1] # {} BY <2>2, FS_EmptySet
  <2>4. Chosen(Left[i - 1]) \in Left[i - 1] BY <1>3, <1>12, <2>1, <2>3
  <2>5. s[i] = Chosen(Left[i - 1]) BY <1>2
  <2>6. Left[i - 1] \subseteq set BY <1>12, <2>1 DEF V
  <2> QED BY <1>6, <1>11, <2>4, <2>5, <2>6
<1>15. Left[n] = {}
  <2>1. n \in 0..n /\ n - n = 0 BY <1>1
  <2>2. IsFiniteSet(Left[n]) /\ Cardinality(Left[n]) = 0 BY <1>13, <2>1
  <2> QED BY <2>2, FS_EmptySet
<1>16. ASSUME NEW e \in set PROVE \E i \in 1..n : s[i] = e
  <2> SUFFICES ASSUME \A i \in 1..n : s[i] # e PROVE FALSE OBVIOUS
  <2> DEFINE S == {i \in 0..n : e \in Left[i]}
  <2>1. 0 \in S BY <1>1, <1>11
  <2>2. ASSUME NEW i \in 0 .. n - 1, i \in S PROVE i + 1 \in S
    <3> DEFINE k == i + 1
    <3>1. k \in 1..n /\ k \in 0..n /\ k - 1 = i BY <1>1
    <3>2. e \in Left[k] BY <1>14, <2>2, <3>1
    <3>3. k \in S BY <3>1, <3>2
    <3> QED BY <3>3
  <2> HIDE DEF S
  <2>3. 0..n \subseteq S BY <1>1, <2>1, <2>2, Upwards
  <2>4. n \in S BY <1>1, <2>3
  <2> QED BY <1>15, <2>4 DEF S
<1>17. ASSUME NEW i \in 2..n PROVE s[i] # s[i - 1]
  <2> DEFINE k == i - 1
  <2>1. i \in 1..n /\ k \in 1..n BY <1>1
  <2>2. Left[k] = Left[k - 1] \ {s[k]} BY <1>14, <2>1
  <2>3. s[i] \in Left[k] BY <1>14, <2>1
  <2> QED BY <2>2, <2>3
<1>18. s \in [1..n -> set]
  <2>1. \A i \in 1..n : s[i] \in set BY <1>14
  <2>2. s = [i \in 1..n |-> s[i]] BY <1>2
  <2> QED BY <2>1, <2>2
<1>19. Ordered(s, set) BY <1>16, <1>17, <1>18 DEF Ordered, n
<1> QED BY <1>19 DEF s

-----------------------------------------------------------------------------
(* Tables: what a row does to the entries.                                 *)

\* h goes as f does over x, and then as g does over y.
Joint(h, f, g, x, y) ==
  /\ h[0] = f[0] /\ h[Len(x \o y)] = g[Len(y)]
  /\ \A i \in 1..Len(x \o y) :
       \/ /\ i \in 1..Len(x)
          /\ h[i] = f[i] /\ h[i - 1] = f[i - 1] /\ (x \o y)[i] = x[i]
       \/ /\ i - Len(x) \in 1..Len(y)
          /\ h[i] = g[i - Len(x)] /\ h[i - 1] = g[i - Len(x) - 1]
          /\ (x \o y)[i] = y[i - Len(x)]

LEMMA JointExists ==
  ASSUME NEW V, NEW x \in Seq(V), NEW y \in Seq(V), NEW f, NEW g, f[Len(x)] = g[0]
  PROVE  \E h : Joint(h, f, g, x, y)
<1> DEFINE m == Len(x)
           n == Len(y)
           z == x \o y
           h == [i \in 0 .. m + n |-> IF i <= m THEN f[i] ELSE g[i - m]]
<1>1. /\ m \in Nat /\ n \in Nat /\ Len(z) = m + n
      /\ \A i \in 1..m : z[i] = x[i]
      /\ \A i \in m + 1 .. m + n : z[i] = y[i - m]
  OBVIOUS
<1>2. /\ \A i \in 0..m : h[i] = f[i]
      /\ \A i \in m + 1 .. m + n : h[i] = g[i - m]
  BY <1>1
<1> HIDE DEF h, z, m, n
<1>3. f[m] = g[0] BY DEF m
<1>4. h[0] = f[0] BY <1>1, <1>2
<1>5. h[m + n] = g[n]
  <2>1. CASE n = 0
    <3>1. m + n = m /\ m \in 0..m BY <1>1, <2>1
    <3> QED BY <1>2, <1>3, <2>1, <3>1
  <2>2. CASE n # 0
    <3> DEFINE k == m + n
    <3>1. k \in m + 1 .. m + n /\ k - m = n BY <1>1, <2>2
    <3> HIDE DEF k
    <3>2. h[k] = g[k - m] BY <1>2, <3>1
    <3>3. h[k] = g[n] BY <3>1, <3>2
    <3> QED BY <3>3 DEF k
  <2> QED BY <2>1, <2>2
<1>6. ASSUME NEW i \in 1 .. m + n
      PROVE  \/ i \in 1..m /\ h[i] = f[i] /\ h[i - 1] = f[i - 1] /\ z[i] = x[i]
             \/ i - m \in 1..n /\ h[i] = g[i - m] /\ h[i - 1] = g[i - m - 1] /\ z[i] = y[i - m]
  <2>1. CASE i <= m
    <3>1. i \in 1..m /\ i \in 0..m /\ i - 1 \in 0..m BY <1>1, <2>1
    <3> QED BY <1>1, <1>2, <3>1
  <2>2. CASE i = m + 1
    <3>1. i \in m + 1 .. m + n /\ i - m = 1 /\ i - m - 1 = 0 /\ i - 1 = m /\ 1 \in 1..n /\ m \in 0..m
      BY <1>1, <2>2
    <3>2. h[i] = g[i - m] /\ z[i] = y[i - m] BY <1>1, <1>2, <3>1
    <3>3. h[i - 1] = g[i - m - 1] BY <1>2, <1>3, <3>1
    <3> QED BY <3>1, <3>2, <3>3
  <2>3. CASE i > m + 1
    <3>1. i \in m + 1 .. m + n /\ i - m \in 1..n /\ i - 1 \in m + 1 .. m + n /\ i - 1 - m = i - m - 1
      BY <1>1, <2>3
    <3>2. h[i] = g[i - m] /\ z[i] = y[i - m] BY <1>1, <1>2, <3>1
    <3>3. h[i - 1] = g[i - 1 - m] BY <1>2, <3>1
    <3> QED BY <3>1, <3>2, <3>3
  <2> QED BY <1>1, <2>1, <2>2, <2>3
<1>7. /\ h[0] = f[0] /\ h[Len(z)] = g[n]
      /\ \A i \in 1..Len(z) :
           \/ i \in 1..m /\ h[i] = f[i] /\ h[i - 1] = f[i - 1] /\ z[i] = x[i]
           \/ i - m \in 1..n /\ h[i] = g[i - m] /\ h[i - 1] = g[i - m - 1] /\ z[i] = y[i - m]
  BY <1>1, <1>4, <1>5, <1>6
<1>8. Joint(h, f, g, x, y) BY <1>7 DEF Joint, z, m, n
<1> QED BY <1>8

\* The rows x take the entries from s to r.
Growth(f, s, x, r) ==
  f[0] = s /\ f[Len(x)] = r /\ \A i \in 1..Len(x) : f[i] = Grown(f[i - 1], x[i])
Grows(s, x, r) == \E f : Growth(f, s, x, r)

LEMMA GrowsNone == ASSUME NEW s PROVE Grows(s, <<>>, s)
<1> DEFINE f == [i \in 0..0 |-> s]
           x == <<>>
<1>1. Len(x) = 0 /\ f[0] = s OBVIOUS
<1> HIDE DEF f, x
<1>2. Growth(f, s, x, s) BY <1>1 DEF Growth
<1> QED BY <1>2 DEF Grows, x

LEMMA GrowsOn ==
  ASSUME NEW V, NEW x \in Seq(V), NEW y \in Seq(V), NEW s, NEW r, NEW u, Grows(s, x, r), Grows(r, y, u)
  PROVE  Grows(s, x \o y, u)
<1>1. PICK f : Growth(f, s, x, r) BY DEF Grows
<1>2. PICK g : Growth(g, r, y, u) BY DEF Grows
<1> DEFINE m == Len(x)
           n == Len(y)
           z == x \o y
<1>3. f[m] = g[0] /\ f[0] = s /\ g[n] = u BY <1>1, <1>2 DEF Growth
<1>0. PICK h : Joint(h, f, g, x, y) BY <1>3, JointExists
<1>4. /\ h[0] = f[0] /\ h[Len(z)] = g[n]
      /\ \A i \in 1..Len(z) :
           \/ i \in 1..m /\ h[i] = f[i] /\ h[i - 1] = f[i - 1] /\ z[i] = x[i]
           \/ i - m \in 1..n /\ h[i] = g[i - m] /\ h[i - 1] = g[i - m - 1] /\ z[i] = y[i - m]
  BY <1>0 DEF Joint
<1>5. /\ \A i \in 1..m : f[i] = Grown(f[i - 1], x[i])
      /\ \A i \in 1..n : g[i] = Grown(g[i - 1], y[i])
  BY <1>1, <1>2 DEF Growth
<1> HIDE DEF m, n, z
<1>6. ASSUME NEW i \in 1..Len(z) PROVE h[i] = Grown(h[i - 1], z[i])
  <2>1. CASE i \in 1..m /\ h[i] = f[i] /\ h[i - 1] = f[i - 1] /\ z[i] = x[i]
    BY <1>5, <2>1
  <2>2. CASE i - m \in 1..n /\ h[i] = g[i - m] /\ h[i - 1] = g[i - m - 1] /\ z[i] = y[i - m]
    <3> DEFINE k == i - m
    <3>1. k \in 1..n /\ h[i] = g[k] /\ h[i - 1] = g[k - 1] /\ z[i] = y[k] BY <2>2
    <3> HIDE DEF k
    <3> QED BY <1>5, <3>1
  <2> QED BY <1>4, <2>1, <2>2
<1>7. Growth(h, s, z, u) BY <1>3, <1>4, <1>6 DEF Growth
<1> QED BY <1>7 DEF Grows, z

\* There is one way to group rows.
LEMMA GroupedIs ==
  ASSUME NEW V, NEW x \in Seq(V), NEW r, Grows(<<>>, x, r)
  PROVE  Grouped(x) = r
<1>1. PICK f0 : Growth(f0, <<>>, x, r) BY DEF Grows
<1> DEFINE n == Len(x)
           none == <<>>
           Is(g) == g = [i \in 0..n |-> IF i = 0 THEN none ELSE Grown(g[i - 1], x[i])]
           f == [i \in 0..n |-> f0[i]]
           g == CHOOSE h : Is(h)
<1>2. n \in Nat OBVIOUS
<1>3. Grouped(x) = g[n] BY DEF Grouped
<1>4. f0[0] = none /\ f0[n] = r /\ \A i \in 1..n : f0[i] = Grown(f0[i - 1], x[i])
  BY <1>1 DEF Growth
<1> HIDE DEF n, none
<1>5. \A i \in 0..n : f[i] = f0[i] OBVIOUS
<1>6. \A i \in 1..n : i - 1 \in 0..n /\ i \in 0..n BY <1>2
<1>7. f = [i \in 0..n |-> f[i]] OBVIOUS
<1> HIDE DEF f
<1>8. \A i \in 0..n : f[i] = IF i = 0 THEN none ELSE Grown(f[i - 1], x[i])
  BY <1>2, <1>4, <1>5, <1>6
<1>9. Is(f) BY <1>7, <1>8
<1>10. Is(g) BY <1>9
<1> HIDE DEF g
<1>11. \A i \in 0..n : g[i] = IF i = 0 THEN none ELSE Grown(g[i - 1], x[i]) BY <1>10
<1>12. Alike(n, g, f)
  <2>1. g[0] = f[0] BY <1>2, <1>8, <1>11
  <2>2. ASSUME NEW i \in 1..n, g[i - 1] = f[i - 1] PROVE g[i] = f[i]
    <3>1. i \in 0..n /\ i # 0 BY <1>2
    <3> QED BY <1>8, <1>11, <2>2, <3>1
  <2> QED BY <2>1, <2>2 DEF Alike
<1>13. g[n] = f[n] BY <1>2, <1>12, Same
<1> QED BY <1>2, <1>3, <1>4, <1>5, <1>13

\* The last entry, and what replaces it.
WithLast(e, x) == [e EXCEPT ![Len(e)] = x]

LEMMA LastOf ==
  ASSUME NEW V, NEW e \in Seq(V), NEW x, NEW y
  PROVE  /\ Append(e, x) # <<>> /\ Len(Append(e, x)) = Len(e) + 1
         /\ Append(e, x)[Len(e) + 1] = x /\ Last(Append(e, x)) = x
         /\ WithLast(Append(e, x), y) = Append(e, y)
<1> DEFINE W == V \union {x, y}
           n == Len(e)
<1>1. e \in Seq(W) /\ x \in W /\ y \in W /\ n \in Nat OBVIOUS
<1>2. \A z \in W : /\ Append(e, z) \in Seq(W) /\ Len(Append(e, z)) = n + 1
                   /\ Append(e, z)[n + 1] = z
                   /\ \A i \in 1..n : Append(e, z)[i] = e[i]
  BY <1>1
<1> HIDE DEF W, n
<1>3. [Append(e, x) EXCEPT ![n + 1] = y] = Append(e, y)
  <2> DEFINE a == Append(e, x)
             b == Append(e, y)
             c == [a EXCEPT ![n + 1] = y]
  <2>1. a \in Seq(W) /\ b \in Seq(W) /\ Len(a) = n + 1 /\ Len(b) = n + 1 BY <1>1, <1>2
  <2>2. DOMAIN a = 1 .. n + 1 /\ DOMAIN b = 1 .. n + 1 BY <1>1, <2>1
  <2>3. b = [i \in 1 .. n + 1 |-> b[i]]
    <3> HIDE DEF b
    <3> QED BY <2>1, <2>2, LenProperties
  <2>4. \A i \in 1..n : a[i] = b[i] BY <1>1, <1>2
  <2>5. b[n + 1] = y BY <1>1, <1>2
  <2> HIDE DEF a, b
  <2>6. c = [i \in 1 .. n + 1 |-> IF i = n + 1 THEN y ELSE a[i]] BY <2>2
  <2>7. \A i \in 1 .. n + 1 : i = n + 1 \/ i \in 1..n BY <1>1
  <2>8. \A i \in 1 .. n + 1 : (IF i = n + 1 THEN y ELSE a[i]) = b[i] BY <2>4, <2>5, <2>7
  <2>9. c = b BY <2>3, <2>6, <2>8
  <2> QED BY <2>9 DEF a, b
<1>4. Append(e, x) # <<>> /\ Len(Append(e, x)) = n + 1 /\ Append(e, x)[n + 1] = x
  <2>1. Len(Append(e, x)) = n + 1 BY <1>1, <1>2
  <2>2. n + 1 # 0 /\ Len(<<>>) = 0 BY <1>1
  <2> QED BY <1>1, <1>2, <2>1, <2>2
<1>5. Last(Append(e, x)) = x BY <1>4 DEF Last
<1>6. WithLast(Append(e, x), y) = Append(e, y) BY <1>3, <1>4 DEF WithLast
<1> QED BY <1>4, <1>5, <1>6 DEF n

Begins(e, name) == e = <<>> \/ Last(e).name # name

LEMMA EntryIs ==
  ASSUME NEW name, NEW ref, NEW cs, NEW rs
  PROVE  /\ Entry(name, ref, cs, rs).name = name /\ Entry(name, ref, cs, rs).ref = ref
         /\ Entry(name, ref, cs, rs).columns = cs /\ Entry(name, ref, cs, rs).refColumns = rs
BY DEF Entry

LEMMA GrownFirst ==
  ASSUME NEW e, NEW row, Begins(e, row.name)
  PROVE  Grown(e, row) = Append(e, Entry(row.name, row.ref, <<row.column>>, <<row.refColumn>>))
BY DEF Grown, Starts, Begins

GrowsBy(e, ref, cs, rs, row) ==
  Grown(Append(e, Entry(row.name, ref, cs, rs)), row)
    = Append(e, Entry(row.name, ref, Append(cs, row.column), Append(rs, row.refColumn)))

LEMMA GrownMore ==
  ASSUME NEW V, NEW e \in Seq(V), NEW ref, NEW cs, NEW rs, NEW row
  PROVE  GrowsBy(e, ref, cs, rs, row)
<1> DEFINE name == row.name
           x == Entry(name, ref, cs, rs)
           a == Append(e, x)
           y == Entry(name, ref, Append(cs, row.column), Append(rs, row.refColumn))
           n == Len(e) + 1
<1>1. x.name = name /\ x.ref = ref /\ x.columns = cs /\ x.refColumns = rs BY EntryIs
<1> HIDE DEF x
<1>2. a # <<>> /\ Len(a) = n /\ a[n] = x /\ Last(a) = x BY LastOf
<1>3. WithLast(a, y) = Append(e, y)
  <2> HIDE DEF y
  <2> QED BY LastOf
<1>4. ~Starts(a, row) BY <1>1, <1>2 DEF Starts
<1> DEFINE z == a[Len(a)]
<1>5. z = x BY <1>2
<1>6. Grown(a, row) = [a EXCEPT ![Len(a)] =
                         Entry(z.name, z.ref, Append(z.columns, row.column), Append(z.refColumns, row.refColumn))]
  BY <1>4 DEF Grown
<1> HIDE DEF z
<1>7. Grown(a, row) = WithLast(a, y)
  <2>1. z.name = name /\ z.ref = ref /\ z.columns = cs /\ z.refColumns = rs BY <1>1, <1>5
  <2>2. y = Entry(z.name, z.ref, Append(z.columns, row.column), Append(z.refColumns, row.refColumn)) BY <2>1
  <2> HIDE DEF y
  <2> QED BY <1>6, <2>2 DEF WithLast
<1> QED BY <1>3, <1>7 DEF x, GrowsBy

\* A key has columns, and as many of the other table's.
Columned(k) ==
  /\ k.columns \in Seq(STRING) /\ k.columns # <<>>
  /\ k.refColumns \in Seq(STRING) /\ Len(k.refColumns) = Len(k.columns)

LEMMA RowIs ==
  ASSUME NEW k, Columned(k)
  PROVE  /\ Len(RowsOf(k)) = Len(k.columns)
         /\ \A i \in 1..Len(k.columns) :
              /\ RowsOf(k)[i].name = k.name /\ RowsOf(k)[i].ref = k.ref
              /\ RowsOf(k)[i].column = k.columns[i] /\ RowsOf(k)[i].refColumn = k.refColumns[i]
<1>1. DOMAIN k.columns = 1..Len(k.columns) /\ Len(k.columns) \in Nat BY DEF Columned
<1>3. Len(RowsOf(k)) = Len(k.columns) BY <1>1 DEF RowsOf
<1>4. ASSUME NEW i \in 1..Len(k.columns)
      PROVE  /\ RowsOf(k)[i].name = k.name /\ RowsOf(k)[i].ref = k.ref
             /\ RowsOf(k)[i].column = k.columns[i] /\ RowsOf(k)[i].refColumn = k.refColumns[i]
  <2>1. RowsOf(k)[i] = [name |-> k.name, on |-> k.table, column |-> k.columns[i], pos |-> i,
                        ref |-> k.ref, refColumn |-> k.refColumns[i]]
    BY <1>1 DEF RowsOf
  <2> QED BY <2>1
<1> QED BY <1>3, <1>4

EntryOf(k) == Entry(k.name, k.ref, k.columns, k.refColumns)

LEMMA FirstColumns ==
  ASSUME NEW x \in Seq(STRING)
  PROVE  /\ SubSeq(x, 1, Len(x)) = x
         /\ x # <<>> => SubSeq(x, 1, 1) = <<x[1]>>
         /\ \A i \in 2..Len(x) : SubSeq(x, 1, i) = Append(SubSeq(x, 1, i - 1), x[i])
<1>1. SubSeq(x, 1, Len(x)) = x BY SubSeqFull
<1>2. x # <<>> => 1 \in 1..Len(x) /\ x[1] \in STRING OBVIOUS
<1>3. x # <<>> => SubSeq(x, 1, 1) = <<x[1]>>
  <2> SUFFICES ASSUME x # <<>> PROVE SubSeq(x, 1, 1) = <<x[1]>> OBVIOUS
  <2>1. SubSeq(x, 1, 1) = SubSeq(x, 1, 1 - 1) \o <<x[1]>> BY <1>2, SubSeqRecursiveSecond
  <2>2. SubSeq(x, 1, 1 - 1) = <<>> BY SubSeqEmpty
  <2>3. <<>> \o <<x[1]>> = <<x[1]>> BY <1>2
  <2> QED BY <2>1, <2>2, <2>3
<1>4. ASSUME NEW i \in 2..Len(x) PROVE SubSeq(x, 1, i) = Append(SubSeq(x, 1, i - 1), x[i])
  <2>1. 1 \in 1..Len(x) /\ i - 1 \in 0..Len(x) /\ x[i] \in STRING /\ i \in 1..Len(x) OBVIOUS
  <2>2. SubSeq(x, 1, i) = SubSeq(x, 1, i - 1) \o <<x[i]>> BY <2>1, SubSeqRecursiveSecond
  <2>3. SubSeq(x, 1, i - 1) \in Seq(STRING) 
    <3>1. \A j \in 1..i - 1 : x[j] \in STRING OBVIOUS
    <3> QED BY <2>1, <3>1, SubSeqProperties
  <2> QED BY <2>1, <2>2, <2>3, AppendIsConcat
<1> QED BY <1>1, <1>3, <1>4

\* A key's rows add its entry.
LEMMA KeyGrows ==
  ASSUME NEW V, NEW e \in Seq(V), NEW k, Columned(k), Begins(e, k.name)
  PROVE  Grows(e, RowsOf(k), Append(e, EntryOf(k)))
<1> DEFINE n == Len(k.columns)
           x == RowsOf(k)
           So(i) == Append(e, Entry(k.name, k.ref, SubSeq(k.columns, 1, i), SubSeq(k.refColumns, 1, i)))
           f == [i \in 0..n |-> IF i = 0 THEN e ELSE So(i)]
<1>1. n \in Nat /\ n # 0 BY DEF Columned
<1>2. /\ Len(x) = n
      /\ \A i \in 1..n : /\ x[i].name = k.name /\ x[i].ref = k.ref
                         /\ x[i].column = k.columns[i] /\ x[i].refColumn = k.refColumns[i]
  BY RowIs
<1>3. SubSeq(k.columns, 1, n) = k.columns /\ SubSeq(k.refColumns, 1, n) = k.refColumns
  BY FirstColumns DEF Columned
<1>4. SubSeq(k.columns, 1, 1) = <<k.columns[1]>> /\ SubSeq(k.refColumns, 1, 1) = <<k.refColumns[1]>>
  <2>1. k.refColumns # <<>> BY <1>1 DEF Columned
  <2> QED BY <2>1, FirstColumns DEF Columned
<1>5. \A i \in 2..n : /\ SubSeq(k.columns, 1, i) = Append(SubSeq(k.columns, 1, i - 1), k.columns[i])
                      /\ SubSeq(k.refColumns, 1, i) = Append(SubSeq(k.refColumns, 1, i - 1), k.refColumns[i])
  BY FirstColumns DEF Columned
<1>6. f[0] = e /\ \A i \in 1..n : f[i] = So(i) BY <1>1
<1> HIDE DEF f, x, n
<1>7. f[n] = Append(e, EntryOf(k))
  <2>1. n \in 1..n BY <1>1
  <2>2. f[n] = So(n) BY <1>6, <2>1
  <2>3. So(n) = Append(e, EntryOf(k)) BY <1>3 DEF EntryOf
  <2> QED BY <2>2, <2>3
<1>8. ASSUME NEW i \in 1..n PROVE f[i] = Grown(f[i - 1], x[i])
  <2> DEFINE row == x[i]
  <2>1. row.name = k.name /\ row.ref = k.ref /\ row.column = k.columns[i] /\ row.refColumn = k.refColumns[i]
    BY <1>2
  <2> HIDE DEF row
  <2>2. CASE i = 1
    <3>1. Begins(e, row.name) BY <2>1
    <3>2. Grown(e, row) = Append(e, Entry(row.name, row.ref, <<row.column>>, <<row.refColumn>>))
      BY <3>1, GrownFirst
    <3>3. Grown(e, row) = So(1) BY <1>4, <2>1, <2>2, <3>2
    <3>4. i - 1 = 0 /\ f[i] = So(1) BY <1>6, <2>2
    <3> QED BY <1>6, <3>3, <3>4 DEF row
  <2>3. CASE i # 1
    <3>1. i \in 2..n /\ i - 1 \in 1..n BY <1>1, <2>3
    <3> DEFINE cs == SubSeq(k.columns, 1, i - 1)
               rs == SubSeq(k.refColumns, 1, i - 1)
    <3>2. f[i - 1] = Append(e, Entry(k.name, k.ref, cs, rs)) BY <1>6, <3>1
    <3>3. f[i] = Append(e, Entry(k.name, k.ref, Append(cs, row.column), Append(rs, row.refColumn)))
      BY <1>5, <1>6, <2>1, <3>1
    <3> HIDE DEF cs, rs
    <3>5. Grown(Append(e, Entry(k.name, k.ref, cs, rs)), row)
            = Append(e, Entry(k.name, k.ref, Append(cs, row.column), Append(rs, row.refColumn)))
      <4>1. GrowsBy(e, k.ref, cs, rs, row) BY GrownMore
      <4> QED BY <2>1, <4>1 DEF GrowsBy
    <3>4. Grown(f[i - 1], row) = f[i] BY <3>2, <3>3, <3>5
    <3> QED BY <3>4 DEF row
  <2> QED BY <2>2, <2>3
<1>9. Growth(f, e, x, Append(e, EntryOf(k))) BY <1>2, <1>6, <1>7, <1>8 DEF Growth
<1> QED BY <1>9 DEF Grows, x

-----------------------------------------------------------------------------
(* Tables: what the keys of a table give.                                  *)

\* The keys of one table: no name is there twice.
Table(keys) ==
  /\ IsFiniteSet(keys)
  /\ \A k \in keys : k.name \in Nat /\ Columned(k)
  /\ \A k, l \in keys : k.name = l.name => k = l

LEMMA ByNameIs ==
  ASSUME NEW keys, Table(keys)
  PROVE  Ordered(ByName(keys), keys)
<1> DEFINE before == {pair \in keys \X keys : pair[1].name < pair[2].name}
<1>1. ASSUME NEW rest \in SUBSET keys, rest # {}
      PROVE  \E e \in rest : \A f \in rest : <<f, e>> \notin before
  <2> DEFINE names == {k.name : k \in rest}
  <2>1. names \in SUBSET Nat /\ names # {} BY <1>1 DEF Table
  <2> HIDE DEF names
  <2>2. PICK x \in names : \A y \in names : x <= y BY <2>1, LeastNat
  <2>3. PICK e \in rest : e.name = x BY <2>2 DEF names
  <2>4. ASSUME NEW f \in rest PROVE <<f, e>> \notin before
    <3>1. f.name \in names /\ x \in Nat /\ f.name \in Nat BY <2>1, <2>2 DEF names
    <3>2. x <= f.name BY <2>2, <3>1
    <3> QED BY <2>3, <3>1, <3>2
  <2> QED BY <2>4
<1> HIDE DEF before
<1>2. WellOrdered(keys, before) BY <1>1 DEF WellOrdered
<1>3. Ordered(Sorted(keys, before), keys) BY <1>2, SortedIs DEF Table
<1> QED BY <1>3 DEF ByName, before

\* The entries of the first keys of a list.
EntriesTo(s, i) == [j \in 1..i |-> EntryOf(s[j])]
EntrySet(keys) == {EntryOf(k) : k \in keys}

OneByOne(keys, n, s) ==
  /\ EntriesTo(s, 0) = <<>>
  /\ \A i \in 0..n : EntriesTo(s, i) \in Seq(EntrySet(keys)) /\ Len(EntriesTo(s, i)) = i
  /\ \A i \in 1..n : /\ EntriesTo(s, i) = Append(EntriesTo(s, i - 1), EntryOf(s[i]))
                     /\ Last(EntriesTo(s, i)) = EntryOf(s[i])

LEMMA EntriesAre ==
  ASSUME NEW keys, NEW n \in Nat, NEW s \in [1..n -> keys]
  PROVE  OneByOne(keys, n, s)
<1>1. EntriesTo(s, 0) = <<>> BY DEF EntriesTo
<1>2. ASSUME NEW i \in 0..n
      PROVE  EntriesTo(s, i) \in Seq(EntrySet(keys)) /\ Len(EntriesTo(s, i)) = i
  <2>1. \A j \in 1..i : EntryOf(s[j]) \in EntrySet(keys) BY DEF EntrySet
  <2> QED BY <2>1 DEF EntriesTo
<1>3. ASSUME NEW i \in 1..n
      PROVE  /\ EntriesTo(s, i) = Append(EntriesTo(s, i - 1), EntryOf(s[i]))
             /\ Last(EntriesTo(s, i)) = EntryOf(s[i])
  <2> DEFINE x == EntriesTo(s, i - 1)
             V == EntrySet(keys)
             z == EntryOf(s[i])
  <2>0. i - 1 \in 0..n /\ i \in 0..n OBVIOUS
  <2>1. x \in Seq(V) /\ Len(x) = i - 1 BY <1>2, <2>0
  <2>2. z \in V BY DEF EntrySet
  <2>3. \A j \in 1 .. i - 1 : x[j] = EntryOf(s[j]) BY DEF EntriesTo
  <2>4. EntriesTo(s, i) = [j \in 1..i |-> EntryOf(s[j])] BY DEF EntriesTo
  <2> HIDE DEF x, V, z
  <2>5. Append(x, z) = [j \in 1..i |-> IF j = i THEN z ELSE x[j]]
    <3> DEFINE a == Append(x, z)
    <3>1. /\ a \in Seq(V) /\ Len(a) = i /\ a[i] = z
          /\ \A j \in 1 .. i - 1 : a[j] = x[j]
      BY <2>1, <2>2
    <3> HIDE DEF a
    <3>2. a = [j \in 1..i |-> a[j]] BY <3>1, LenProperties
    <3>3. \A j \in 1..i : j = i \/ j \in 1 .. i - 1 OBVIOUS
    <3>4. a = [j \in 1..i |-> IF j = i THEN z ELSE x[j]] BY <3>1, <3>2, <3>3
    <3> QED BY <3>4 DEF a
  <2>6. \A j \in 1..i : (IF j = i THEN z ELSE x[j]) = EntryOf(s[j]) BY <2>3 DEF z
  <2>7. EntriesTo(s, i) = Append(x, z) BY <2>4, <2>5, <2>6
  <2>8. Last(Append(x, z)) = z BY <2>1, LastOf
  <2> QED BY <2>7, <2>8 DEF x, z
<1> QED BY <1>1, <1>2, <1>3 DEF OneByOne

\* Entries that tell what there is, each once.
TellsAll(entries, keys) == Len(entries) = Cardinality(keys) /\ Range(entries) = EntrySet(keys)

LEMMA EntriesTell ==
  ASSUME NEW keys, IsFiniteSet(keys), NEW s, Ordered(s, keys)
  PROVE  TellsAll(EntriesTo(s, Cardinality(keys)), keys)
<1> DEFINE n == Cardinality(keys)
           x == EntriesTo(s, n)
<1>1. n \in Nat /\ s \in [1..n -> keys] BY FS_CardinalityType DEF Ordered
<1>2. \A e \in keys : \E i \in 1..n : s[i] = e BY DEF Ordered
<1> HIDE DEF n
<1>3. Len(x) = n /\ DOMAIN x = 1..n /\ \A i \in 1..n : x[i] = EntryOf(s[i])
  <2>1. DOMAIN x = 1..n /\ \A i \in 1..n : x[i] = EntryOf(s[i]) BY DEF EntriesTo
  <2>2. n \in 0..n BY <1>1
  <2>3. \A i \in 0..n : Len(EntriesTo(s, i)) = i
    <3>1. OneByOne(keys, n, s) BY <1>1, EntriesAre
    <3> QED BY <3>1 DEF OneByOne
  <2>4. Len(x) = n BY <2>2, <2>3
  <2> QED BY <2>1, <2>4
<1> HIDE DEF x
<1>4. Range(x) = EntrySet(keys)
  <2>1. ASSUME NEW y \in EntrySet(keys) PROVE \E i \in 1..n : x[i] = y
    <3>1. PICK k \in keys : y = EntryOf(k) BY DEF EntrySet
    <3>2. PICK i \in 1..n : s[i] = k BY <1>2
    <3> QED BY <1>3, <3>1, <3>2
  <2>2. ASSUME NEW i \in 1..n PROVE x[i] \in EntrySet(keys) BY <1>1, <1>3 DEF EntrySet
  <2> QED BY <1>3, <2>1, <2>2 DEF Range
<1>5. TellsAll(x, keys) BY <1>3, <1>4 DEF TellsAll, n
<1> QED BY <1>5 DEF x, n

\* The rows of the keys.
RowSet(keys) == UNION {Range(RowsOf(k)) : k \in keys}

LEMMA RowsIn ==
  ASSUME NEW keys, NEW k \in keys, Columned(k)
  PROVE  RowsOf(k) \in Seq(RowSet(keys))
<1> DEFINE x == RowsOf(k)
           n == Len(k.columns)
<1>1. Len(x) = n BY RowIs
<1>2. n \in Nat /\ DOMAIN k.columns = 1..n BY DEF Columned
<1>3. x = [i \in 1..n |-> x[i]] BY <1>2 DEF RowsOf
<1> HIDE DEF x, n
<1>4. \A i \in 1..n : x[i] \in Range(x) BY <1>3 DEF Range
<1>5. \A i \in 1..n : x[i] \in RowSet(keys) BY <1>4 DEF RowSet, x
<1>6. x \in Seq(RowSet(keys)) BY <1>2, <1>3, <1>5
<1> QED BY <1>6 DEF x

\* FlattenSeq appends one sequence after the other.
Chain(g, seqs) ==
  /\ FlattenSeq(seqs) = g[Len(seqs)]
  /\ g[1] = seqs[1]
  /\ \A i \in 2..Len(seqs) : g[i] = g[i - 1] \o seqs[i]

LEMMA FlattenIs ==
  ASSUME NEW R, NEW seqs \in Seq(Seq(R)), Len(seqs) # 0
  PROVE  \E g : Chain(g, seqs)
<1> DEFINE n == Len(seqs)
           V == Seq(R)
           none == <<>>
           Turn(x, i) == x \o seqs[i]
           step == [p \in V \X (1..n) |-> Turn(p[1], p[2])]
           Is(g) == g = [i \in 1..n |-> IF i = 1 THEN seqs[i] ELSE g[i - 1] \o seqs[i]]
           g == CHOOSE h : Is(h)
<1>1. n \in Nat /\ none \in V /\ n # 0 OBVIOUS
<1>2. FlattenSeq(seqs) = g[n] BY DEF FlattenSeq
<1>3. \A i \in 1..n : seqs[i] \in V OBVIOUS
<1>4. Steps(V, n, step)
  <2>1. \A x \in V, i \in 1..n : Turn(x, i) \in V BY <1>3
  <2> HIDE DEF Turn
  <2> QED BY <2>1 DEF Steps
<1>5. \A x \in V, i \in 1..n : step[<<x, i>>] = x \o seqs[i] OBVIOUS
<1>6. \A x \in V : none \o x = x OBVIOUS
<1> HIDE DEF n, V, none, step, g
<1>7. PICK f : Fold(V, none, n, step, f) BY <1>1, <1>4, FoldExists
<1> DEFINE h == [i \in 1..n |-> f[i]]
<1>8. ASSUME NEW i \in 1..n PROVE h[i] = IF i = 1 THEN seqs[i] ELSE h[i - 1] \o seqs[i]
  <2>1. i - 1 \in 0..n /\ i \in 0..n BY <1>1
  <2>2. f[i - 1] \in V /\ f[i] = step[<<f[i - 1], i>>] BY <1>7, <2>1 DEF Fold
  <2>3. f[i] = f[i - 1] \o seqs[i] BY <1>5, <2>2
  <2>4. CASE i = 1
    <3>1. f[i - 1] = none BY <1>7, <2>4 DEF Fold
    <3>2. f[i] = none \o seqs[i] BY <2>3, <3>1
    <3>3. f[i] = seqs[i] BY <1>3, <1>6, <3>2
    <3> QED BY <2>4, <3>3
  <2>5. CASE i # 1
    <3>1. i - 1 \in 1..n BY <1>1, <2>5
    <3> QED BY <2>3, <2>5, <3>1
  <2> QED BY <2>4, <2>5
<1>9. h = [i \in 1..n |-> h[i]] OBVIOUS
<1> HIDE DEF h
<1>10. Is(h) BY <1>8, <1>9
<1>11. Is(g) BY <1>10 DEF g
<1>12. \A i \in 1..n : g[i] = IF i = 1 THEN seqs[i] ELSE g[i - 1] \o seqs[i] BY <1>11
<1>13. g[1] = seqs[1]
  <2>1. 1 \in 1..n BY <1>1
  <2> QED BY <1>12, <2>1
<1>14. \A i \in 2..n : g[i] = g[i - 1] \o seqs[i]
  <2>1. \A i \in 2..n : i \in 1..n /\ i # 1 BY <1>1
  <2> QED BY <1>12, <2>1
<1>15. Chain(g, seqs) BY <1>2, <1>13, <1>14 DEF Chain, n
<1> QED BY <1>15

\* The rows of a list of keys add their entries, key by key.
PartsOf(s) == [i \in DOMAIN s |-> RowsOf(s[i])]

LEMMA PartGrows ==
  ASSUME NEW keys, Table(keys), NEW n \in Nat, NEW s \in [1..n -> keys],
         \A i \in 2..n : s[i] # s[i - 1], NEW i \in 1..n
  PROVE  Grows(EntriesTo(s, i - 1), RowsOf(s[i]), EntriesTo(s, i))
<1> DEFINE e == EntriesTo(s, i - 1)
           k == s[i]
<1>1. OneByOne(keys, n, s) BY EntriesAre
<1>2. e \in Seq(EntrySet(keys)) /\ EntriesTo(s, i) = Append(e, EntryOf(k))
  <2>1. i - 1 \in 0..n OBVIOUS
  <2> QED BY <1>1, <2>1 DEF OneByOne
<1>3. k \in keys /\ Columned(k) BY DEF Table
<1>4. Begins(e, k.name)
  <2>1. CASE i = 1
    <3>1. e = <<>> BY <1>1, <2>1 DEF OneByOne
    <3> QED BY <3>1 DEF Begins
  <2>2. CASE i # 1
    <3> DEFINE l == s[i - 1]
    <3>1. i - 1 \in 1..n /\ i \in 2..n BY <2>2
    <3>2. l \in keys /\ l # k BY <3>1
    <3>3. l.name # k.name BY <1>3, <3>2 DEF Table
    <3>4. Last(e) = EntryOf(l) BY <1>1, <3>1 DEF OneByOne
    <3> HIDE DEF l, k, e
    <3>5. EntryOf(l).name = l.name BY EntryIs DEF EntryOf
    <3> QED BY <3>3, <3>4, <3>5 DEF Begins
  <2> QED BY <2>1, <2>2
<1> HIDE DEF e, k
<1>5. Grows(e, RowsOf(k), Append(e, EntryOf(k))) BY <1>2, <1>3, <1>4, KeyGrows
<1> QED BY <1>2, <1>5 DEF e, k

LEMMA PartsGrow ==
  ASSUME NEW keys, Table(keys), NEW s, Ordered(s, keys)
  PROVE  /\ FlattenSeq(PartsOf(s)) \in Seq(RowSet(keys))
         /\ Grows(<<>>, FlattenSeq(PartsOf(s)), EntriesTo(s, Cardinality(keys)))
<1> DEFINE n == Cardinality(keys)
           x == PartsOf(s)
           R == RowSet(keys)
           none == <<>>
<1>1. n \in Nat BY FS_CardinalityType DEF Table
<1>2. s \in [1..n -> keys] /\ \A i \in 2..n : s[i] # s[i - 1] BY DEF Ordered
<1> HIDE DEF n
<1>3. DOMAIN x = 1..n /\ \A i \in 1..n : x[i] = RowsOf(s[i]) BY <1>2 DEF PartsOf
<1>4. \A i \in 1..n : x[i] \in Seq(R)
  <2>1. ASSUME NEW i \in 1..n PROVE x[i] \in Seq(R)
    <3>1. s[i] \in keys /\ Columned(s[i]) BY <1>2 DEF Table
    <3>2. RowsOf(s[i]) \in Seq(R) BY <3>1, RowsIn
    <3> QED BY <1>3, <3>2
  <2> QED BY <2>1
<1>5. x \in Seq(Seq(R)) /\ Len(x) = n
  <2>1. x = [i \in 1..n |-> x[i]] BY <1>2 DEF PartsOf
  <2> HIDE DEF x, R
  <2> QED BY <1>1, <1>4, <2>1
<1>6. \A i \in 1..n : Grows(EntriesTo(s, i - 1), x[i], EntriesTo(s, i))
  <2>1. ASSUME NEW i \in 1..n PROVE Grows(EntriesTo(s, i - 1), x[i], EntriesTo(s, i))
    <3>1. Grows(EntriesTo(s, i - 1), RowsOf(s[i]), EntriesTo(s, i)) BY <1>1, <1>2, PartGrows
    <3> QED BY <1>3, <3>1
  <2> QED BY <2>1
<1>7. EntriesTo(s, 0) = none BY DEF EntriesTo
<1> HIDE DEF x, R
<1>8. CASE n = 0
  <2>1. x = <<>> BY <1>5, <1>8
  <2>2. FlattenSeq(x) = <<>> BY <2>1 DEF FlattenSeq
  <2>3. Grows(none, none, none) BY GrowsNone
  <2>4. <<>> \in Seq(R) OBVIOUS
  <2>5. Grows(none, FlattenSeq(x), EntriesTo(s, n)) BY <1>7, <1>8, <2>2, <2>3
  <2> QED BY <2>2, <2>4, <2>5 DEF x, R, n
<1>9. CASE n # 0
  <2>1. PICK g : Chain(g, x) BY <1>5, <1>9, FlattenIs
  <2>2. /\ FlattenSeq(x) = g[n] /\ g[1] = x[1]
        /\ \A i \in 2..n : g[i] = g[i - 1] \o x[i]
    BY <1>5, <2>1 DEF Chain
  <2> DEFINE S == {i \in 1..n : g[i] \in Seq(R) /\ Grows(none, g[i], EntriesTo(s, i))}
  <2>3. 1 \in S
    <3>1. 1 \in 1..n /\ 1 - 1 = 0 BY <1>1, <1>9
    <3>2. Grows(EntriesTo(s, 1 - 1), x[1], EntriesTo(s, 1)) BY <1>6, <3>1
    <3> QED BY <1>4, <1>7, <2>2, <3>1, <3>2
  <2>4. ASSUME NEW i \in 1 .. n - 1, i \in S PROVE i + 1 \in S
    <3> DEFINE k == i + 1
    <3>1. k \in 1..n /\ k \in 2..n /\ k - 1 = i BY <1>1
    <3>2. g[k] = g[i] \o x[k] BY <2>2, <3>1
    <3>3. Grows(EntriesTo(s, i), x[k], EntriesTo(s, k)) BY <1>6, <3>1
    <3>4. g[i] \in Seq(R) /\ x[k] \in Seq(R) /\ Grows(none, g[i], EntriesTo(s, i)) BY <1>4, <2>4, <3>1
    <3> HIDE DEF k
    <3>5. Grows(none, g[i] \o x[k], EntriesTo(s, k)) BY <3>3, <3>4, GrowsOn
    <3>6. g[i] \o x[k] \in Seq(R) BY <3>4
    <3>7. k \in S BY <3>1, <3>2, <3>5, <3>6
    <3> QED BY <3>7 DEF k
  <2> HIDE DEF S
  <2>5. 1..n \subseteq S BY <1>1, <2>3, <2>4, Upwards
  <2>6. n \in S BY <1>1, <1>9, <2>5
  <2> QED BY <2>2, <2>6 DEF S, x, R, n
<1> QED BY <1>8, <1>9

\* The keys of a table are told from their rows.
LEMMA ListedIs ==
  ASSUME NEW keys, Table(keys)
  PROVE  Listed(keys) \in Seq(RowSet(keys)) /\ TellsAll(Grouped(Listed(keys)), keys)
<1> DEFINE s == ByName(keys)
           x == Listed(keys)
           y == EntriesTo(s, Cardinality(keys))
<1>1. x = FlattenSeq(PartsOf(s)) BY DEF Listed, PartsOf
<1> HIDE DEF s, x
<1>2. Ordered(s, keys) BY ByNameIs DEF s
<1>3. x \in Seq(RowSet(keys)) /\ Grows(<<>>, x, y) BY <1>1, <1>2, PartsGrow
<1> HIDE DEF y
<1>4. Grouped(x) = y BY <1>3, GroupedIs
<1>5. TellsAll(y, keys) BY <1>2, EntriesTell DEF y, Table
<1> QED BY <1>3, <1>4, <1>5 DEF x

\* Postgres's query leaves nothing out where no column is an expression.
LEMMA WithNamesIs ==
  ASSUME NEW R, \A r \in R : r.column # Expression, NEW rows \in Seq(R)
  PROVE  WithNames(rows) = rows
<1> DEFINE n == Len(rows)
           none == <<>>
           Turn(x, i) == IF rows[i].column = Expression THEN x ELSE Append(x, rows[i])
           Is(g) == g = [i \in 0..n |-> IF i = 0 THEN none ELSE Turn(g[i - 1], i)]
           f == [i \in 0..n |-> SubSeq(rows, 1, i)]
           g == CHOOSE h : Is(h)
<1>1. n \in Nat OBVIOUS
<1>2. WithNames(rows) = g[n] BY DEF WithNames
<1>3. \A i \in 1..n : \A x : Turn(x, i) = Append(x, rows[i]) OBVIOUS
<1>4. ASSUME NEW i \in 1..n PROVE SubSeq(rows, 1, i) = Append(SubSeq(rows, 1, i - 1), rows[i])
  <2>1. 1 \in 1..Len(rows) /\ i - 1 \in 0..Len(rows) /\ rows[i] \in R /\ i \in 1..Len(rows) OBVIOUS
  <2>2. SubSeq(rows, 1, i) = SubSeq(rows, 1, i - 1) \o <<rows[i]>> BY <2>1, SubSeqRecursiveSecond
  <2>3. SubSeq(rows, 1, i - 1) \in Seq(R)
    <3>1. \A j \in 1..i - 1 : rows[j] \in R OBVIOUS
    <3> QED BY <2>1, <3>1, SubSeqProperties
  <2> QED BY <2>1, <2>2, <2>3, AppendIsConcat
<1>5. SubSeq(rows, 1, 0) = none /\ SubSeq(rows, 1, n) = rows BY SubSeqEmpty, SubSeqFull
<1>6. f = [i \in 0..n |-> f[i]] /\ \A i \in 0..n : f[i] = SubSeq(rows, 1, i) OBVIOUS
<1>7. \A i \in 1..n : i \in 0..n /\ i - 1 \in 0..n /\ i # 0 BY <1>1
<1> HIDE DEF n, none, Turn, f, g
<1>8. f[0] = none /\ f[n] = rows
  <2>1. 0 \in 0..n /\ n \in 0..n BY <1>1
  <2>2. f[0] = SubSeq(rows, 1, 0) /\ f[n] = SubSeq(rows, 1, n) BY <1>6, <2>1
  <2> QED BY <1>5, <2>2
<1>9. \A i \in 1..n : f[i] = Turn(f[i - 1], i)
  <2>1. ASSUME NEW i \in 1..n PROVE f[i] = Turn(f[i - 1], i)
    <3>1. i \in 0..n /\ i - 1 \in 0..n BY <1>7
    <3>2. f[i] = SubSeq(rows, 1, i) /\ f[i - 1] = SubSeq(rows, 1, i - 1) BY <1>6, <3>1
    <3>3. f[i] = Append(f[i - 1], rows[i]) BY <1>4, <3>2
    <3> QED BY <1>3, <3>3
  <2> QED BY <2>1
<1>10. Is(f)
  <2>1. \A i \in 0..n : f[i] = IF i = 0 THEN none ELSE Turn(f[i - 1], i)
    <3>1. \A i \in 0..n : i = 0 \/ i \in 1..n BY <1>1
    <3> QED BY <1>7, <1>8, <1>9, <3>1
  <2> QED BY <1>6, <2>1
<1>11. Is(g) BY <1>10 DEF g
<1>12. \A i \in 0..n : g[i] = IF i = 0 THEN none ELSE Turn(g[i - 1], i) BY <1>11
<1>13. g[0] = none BY <1>1, <1>12
<1>14. \A i \in 1..n : g[i] = Turn(g[i - 1], i) BY <1>7, <1>12
<1>15. \A i \in 1..n : g[i - 1] = f[i - 1] => g[i] = f[i] BY <1>9, <1>14
<1>16. Alike(n, g, f) BY <1>8, <1>13, <1>15 DEF Alike
<1>17. g[n] = f[n] BY <1>1, <1>16, Same
<1> QED BY <1>2, <1>8, <1>17

\* Postgres's query, where every key has one column and no two have one name:
\* one row for each key of the table.
Single(keys) ==
  /\ IsFiniteSet(keys)
  /\ \A k \in keys : k.name \in Nat /\ Columned(k) /\ Len(k.columns) = 1
  /\ \A k, l \in keys : k.name = l.name => k = l

JoinedRow(k) ==
  [name |-> k.name, column |-> k.columns[1], pos |-> 1, ref |-> k.ref,
   refColumn |-> k.refColumns[1], on |-> k.table, refOn |-> k.table]
OwnKeys(keys, table) == {k \in keys : k.table = table}
JoinedRows(keys, table) == {JoinedRow(k) : k \in OwnKeys(keys, table)}

\* A row of the query, from the two rows it joins.
Join(name, p, q) ==
  [name |-> name, column |-> p.column, pos |-> p.pos, ref |-> q.ref,
   refColumn |-> q.refColumn, on |-> p.on, refOn |-> q.on]

LEMMA SingleRow ==
  ASSUME NEW keys, Single(keys), NEW k \in keys
  PROVE  /\ Range(RowsOf(k)) = {RowsOf(k)[1]}
         /\ Join(k.name, RowsOf(k)[1], RowsOf(k)[1]) = JoinedRow(k)
<1>1. DOMAIN k.columns = 1..1 BY DEF Single, Columned
<1>2. DOMAIN RowsOf(k) = {1} BY <1>1 DEF RowsOf
<1>3. Range(RowsOf(k)) = {RowsOf(k)[1]} BY <1>2 DEF Range
<1>4. RowsOf(k)[1] = [name |-> k.name, on |-> k.table, column |-> k.columns[1], pos |-> 1,
                      ref |-> k.ref, refColumn |-> k.refColumns[1]]
  BY <1>1 DEF RowsOf
<1> DEFINE p == RowsOf(k)[1]
<1>5. /\ p.column = k.columns[1] /\ p.pos = 1 /\ p.ref = k.ref
      /\ p.refColumn = k.refColumns[1] /\ p.on = k.table
  BY <1>4
<1> HIDE DEF p
<1>6. Join(k.name, p, p) = JoinedRow(k) BY <1>5 DEF Join, JoinedRow
<1> QED BY <1>3, <1>6 DEF p

InOrder(rows) ==
  {pair \in rows \X rows : \/ pair[1].name < pair[2].name
                           \/ pair[1].name = pair[2].name /\ pair[1].pos < pair[2].pos}

LEMMA JoinedSorted ==
  ASSUME NEW keys, Single(keys), NEW table
  PROVE  Joined(keys, table) = Sorted(JoinedRows(keys, table), InOrder(JoinedRows(keys, table)))
<1> DEFINE Named(k) == UNION {Range(RowsOf(l)) : l \in {l \in keys : l.name = k.name}}
           Pairs(k) == {Join(k.name, pair[1], pair[2]) : pair \in Named(k) \X Named(k)}
           rows == UNION {Pairs(k) : k \in {k \in keys : k.table = table}}
<1>1. Joined(keys, table) = Sorted(rows, InOrder(rows)) BY DEF Joined, InOrder, Join
<1>2. ASSUME NEW k \in keys PROVE Pairs(k) = {JoinedRow(k)}
  <2> DEFINE p == RowsOf(k)[1]
  <2>1. {l \in keys : l.name = k.name} = {k} BY DEF Single
  <2>2. Named(k) = Range(RowsOf(k)) BY <2>1
  <2>3. Range(RowsOf(k)) = {p} /\ Join(k.name, p, p) = JoinedRow(k) BY SingleRow
  <2>4. Named(k) = {p} BY <2>2, <2>3
  <2> HIDE DEF Named, p
  <2>5. Named(k) \X Named(k) = {<<p, p>>} BY <2>4
  <2>6. Pairs(k) = {Join(k.name, p, p)}
    <3>1. \A pair \in {<<p, p>>} : pair[1] = p /\ pair[2] = p OBVIOUS
    <3>2. Pairs(k) = {Join(k.name, pair[1], pair[2]) : pair \in {<<p, p>>}} BY <2>5
    <3>3. <<p, p>> \in {<<p, p>>} OBVIOUS
    <3> HIDE DEF Pairs
    <3> QED BY <3>1, <3>2, <3>3
  <2> QED BY <2>3, <2>6
<1> HIDE DEF Pairs
<1>3. rows = JoinedRows(keys, table) BY <1>2 DEF JoinedRows, OwnKeys
<1> HIDE DEF rows
<1> QED BY <1>1, <1>3

LEMMA JoinedOrdered ==
  ASSUME NEW keys, Single(keys), NEW table
  PROVE  /\ Ordered(Joined(keys, table), JoinedRows(keys, table))
         /\ Cardinality(JoinedRows(keys, table)) = Cardinality(OwnKeys(keys, table))
         /\ IsFiniteSet(OwnKeys(keys, table))
<1> DEFINE own == OwnKeys(keys, table)
           rows == JoinedRows(keys, table)
           before == InOrder(rows)
           f == [k \in own |-> JoinedRow(k)]
<1>1. own \in SUBSET keys /\ IsFiniteSet(own) BY FS_Subset DEF Single, OwnKeys
<1>2. rows = {JoinedRow(k) : k \in own} BY DEF JoinedRows
<1>3. \A k : JoinedRow(k).name = k.name /\ JoinedRow(k).pos = 1 BY DEF JoinedRow
<1>4. \A k, l \in own : JoinedRow(k) = JoinedRow(l) => k = l BY <1>1, <1>3 DEF Single
<1>5. \A r \in rows : r.name \in Nat /\ r.pos = 1 BY <1>1, <1>2, <1>3 DEF Single
<1> HIDE DEF own, rows
<1>6. f \in Surjection(own, rows)
  <2>1. f \in [own -> rows] BY <1>2
  <2>2. \A r \in rows : \E k \in own : f[k] = r BY <1>2
  <2> QED BY <2>1, <2>2 DEF Surjection
<1>7. f \in Injection(own, rows)
  <2>1. f \in [own -> rows] BY <1>2
  <2>2. \A k, l \in own : f[k] = f[l] => k = l BY <1>4
  <2> QED BY <2>1, <2>2 DEF Injection, IsInjective
<1> HIDE DEF f
<1>8. IsFiniteSet(rows) /\ Cardinality(rows) = Cardinality(own)
  BY <1>1, <1>6, <1>7, FS_Surjection
<1>9. ASSUME NEW rest \in SUBSET rows, rest # {}
      PROVE  \E e \in rest : \A g \in rest : <<g, e>> \notin before
  <2> DEFINE names == {r.name : r \in rest}
  <2>1. names \in SUBSET Nat /\ names # {} BY <1>5, <1>9
  <2> HIDE DEF names
  <2>2. PICK x \in names : \A y \in names : x <= y BY <2>1, LeastNat
  <2>3. PICK e \in rest : e.name = x BY <2>2 DEF names
  <2>4. ASSUME NEW g \in rest PROVE <<g, e>> \notin before
    <3>1. g.name \in names /\ x \in Nat /\ g.name \in Nat BY <2>1, <2>2 DEF names
    <3>2. x <= g.name BY <2>2, <3>1
    <3>3. g.pos = 1 /\ e.pos = 1 BY <1>5
    <3> QED BY <2>3, <3>1, <3>2, <3>3 DEF InOrder
  <2> QED BY <2>4
<1> HIDE DEF before
<1>10. WellOrdered(rows, before) BY <1>9 DEF WellOrdered
<1>11. Ordered(Sorted(rows, before), rows) BY <1>8, <1>10, SortedIs
<1>12. Joined(keys, table) = Sorted(rows, before)
  <2>1. Joined(keys, table) = Sorted(JoinedRows(keys, table), InOrder(JoinedRows(keys, table)))
    BY JoinedSorted
  <2> QED BY <2>1 DEF rows, before
<1> QED BY <1>1, <1>8, <1>11, <1>12 DEF own, rows

LEMMA JoinedRowIs ==
  ASSUME NEW keys, Single(keys), NEW k \in keys
  PROVE  /\ JoinedRow(k).name = k.name
         /\ Entry(JoinedRow(k).name, JoinedRow(k).ref, <<JoinedRow(k).column>>, <<JoinedRow(k).refColumn>>)
              = EntryOf(k)
<1>1. k.columns = <<k.columns[1]>> /\ k.refColumns = <<k.refColumns[1]>> BY DEF Single, Columned
<1>2. /\ JoinedRow(k).name = k.name /\ JoinedRow(k).ref = k.ref
      /\ JoinedRow(k).column = k.columns[1] /\ JoinedRow(k).refColumn = k.refColumns[1]
  BY DEF JoinedRow
<1> QED BY <1>1, <1>2 DEF EntryOf

\* Its rows tell the keys, too.
LEMMA JoinedTells ==
  ASSUME NEW keys, Single(keys), NEW table
  PROVE  TellsAll(Grouped(Joined(keys, table)), OwnKeys(keys, table))
<1> DEFINE own == OwnKeys(keys, table)
           rows == JoinedRows(keys, table)
           x == Joined(keys, table)
           n == Cardinality(own)
           s == [i \in 1..n |-> CHOOSE k \in own : JoinedRow(k) = x[i]]
           f == [i \in 0..n |-> EntriesTo(s, i)]
<1>1. /\ Cardinality(rows) = n /\ IsFiniteSet(own)
      /\ x \in [1..n -> rows]
      /\ \A r \in rows : \E i \in 1..n : x[i] = r
      /\ \A i \in 2..n : x[i] # x[i - 1]
  BY JoinedOrdered DEF Ordered
<1>2. rows = {JoinedRow(k) : k \in own} /\ own \subseteq keys BY DEF JoinedRows, OwnKeys
<1> HIDE DEF own, rows, x
<1>3. n \in Nat BY <1>1, FS_CardinalityType
<1> HIDE DEF n
<1>4. ASSUME NEW i \in 1..n PROVE s[i] \in own /\ JoinedRow(s[i]) = x[i]
  <2>1. \E k \in own : JoinedRow(k) = x[i] BY <1>1, <1>2
  <2> QED BY <2>1
<1>5. s \in [1..n -> own]
  <2>1. s = [i \in 1..n |-> s[i]] /\ \A i \in 1..n : s[i] \in own BY <1>4
  <2> HIDE DEF s
  <2> QED BY <2>1
<1> HIDE DEF s
<1>6. \A k, l \in own : k.name = l.name => k = l BY <1>2 DEF Single
<1>7. \A k \in own : JoinedRow(k).name = k.name
  BY <1>2, JoinedRowIs
<1>8. ASSUME NEW k \in own PROVE \E i \in 1..n : s[i] = k
  <2>1. PICK i \in 1..n : x[i] = JoinedRow(k) BY <1>1, <1>2
  <2>2. s[i] \in own /\ JoinedRow(s[i]) = JoinedRow(k) BY <1>4, <2>1
  <2>3. s[i].name = k.name BY <1>7, <2>2
  <2> QED BY <1>6, <2>2, <2>3
<1>9. \A i \in 2..n : s[i] # s[i - 1]
  <2>1. ASSUME NEW i \in 2..n PROVE s[i] # s[i - 1]
    <3>1. i \in 1..n /\ i - 1 \in 1..n BY <1>3
    <3>2. x[i] # x[i - 1] BY <1>1
    <3> QED BY <1>4, <3>1, <3>2
  <2> QED BY <2>1
<1>10. Ordered(s, own) BY <1>5, <1>8, <1>9 DEF Ordered, n
<1>11. OneByOne(own, n, s) BY <1>3, <1>5, EntriesAre
<1>12. ASSUME NEW i \in 1..n PROVE f[i] = Grown(f[i - 1], x[i])
  <2> DEFINE e == EntriesTo(s, i - 1)
             k == s[i]
             r == x[i]
  <2>1. f[i] = EntriesTo(s, i) /\ f[i - 1] = e
    <3>1. i \in 0..n /\ i - 1 \in 0..n BY <1>3
    <3> QED BY <3>1
  <2>2. EntriesTo(s, i) = Append(e, EntryOf(k)) BY <1>11 DEF OneByOne
  <2>3. k \in own /\ k \in keys /\ r = JoinedRow(k) BY <1>2, <1>4
  <2>4. Begins(e, k.name)
    <3>1. CASE i = 1
      <4>1. e = <<>> BY <1>11, <3>1 DEF OneByOne
      <4> QED BY <4>1 DEF Begins
    <3>2. CASE i # 1
      <4> DEFINE l == s[i - 1]
      <4>1. i - 1 \in 1..n /\ i \in 2..n BY <1>3, <3>2
      <4>2. l \in own /\ l # k BY <1>5, <1>9, <4>1
      <4>3. l.name # k.name BY <1>6, <2>3, <4>2
      <4>4. Last(e) = EntryOf(l) BY <1>11, <4>1 DEF OneByOne
      <4> HIDE DEF l, k, e
      <4>5. EntryOf(l).name = l.name BY EntryIs DEF EntryOf
      <4> QED BY <4>3, <4>4, <4>5 DEF Begins
    <3> QED BY <3>1, <3>2
  <2> HIDE DEF e, k, r, f
  <2>5. /\ r.name = k.name
        /\ Entry(r.name, r.ref, <<r.column>>, <<r.refColumn>>) = EntryOf(k)
    BY <2>3, JoinedRowIs
  <2>6. Begins(e, r.name) BY <2>4, <2>5
  <2>7. Grown(e, r) = Append(e, EntryOf(k)) BY <2>5, <2>6, GrownFirst
  <2> QED BY <2>1, <2>2, <2>7 DEF r
<1> DEFINE y == EntriesTo(s, n)
<1>13. f[0] = <<>> /\ f[n] = y
  <2>1. 0 \in 0..n /\ n \in 0..n BY <1>3
  <2> QED BY <1>11, <2>1 DEF OneByOne
<1>14. x \in Seq(rows) /\ Len(x) = n BY <1>1, <1>3
<1> HIDE DEF f, y
<1>15. Growth(f, <<>>, x, y) BY <1>12, <1>13, <1>14 DEF Growth
<1>16. Grouped(x) = y BY <1>14, <1>15, GroupedIs DEF Grows
<1>17. TellsAll(y, own) BY <1>1, <1>10, EntriesTell DEF y, n
<1> QED BY <1>16, <1>17 DEF x, own

-----------------------------------------------------------------------------
(* Tables in the answers.                                                  *)

LEMMA TellsIs ==
  ASSUME NEW entries, NEW declared
  PROVE  Tells(entries, declared) <=> TellsAll(entries, OwnKeys(declared, "t"))
BY DEF Tells, TellsAll, OwnKeys, EntrySet, EntryOf

LEMMA TellsNone == Tells(<<>>, {})
<1> DEFINE x == <<>>
<1>1. OwnKeys({}, "t") = {} BY DEF OwnKeys
<1>2. Len(x) = 0 /\ DOMAIN x = {} OBVIOUS
<1>3. Range(x) = {} BY <1>2 DEF Range
<1>4. EntrySet({}) = {} BY DEF EntrySet
<1> HIDE DEF x
<1>5. TellsAll(x, OwnKeys({}, "t")) BY <1>1, <1>2, <1>3, <1>4, FS_EmptySet DEF TellsAll
<1> QED BY <1>5, TellsIs DEF x

LEMMA CataloguedIs ==
  ASSUME NEW keys, Catalogued(keys)
  PROVE  /\ \A k \in keys : k.name \in Nat /\ Columned(k)
         /\ Table(OwnKeys(keys, "t"))
<1>1. \A k \in keys : k.name \in Nat /\ Columned(k)
  <2>1. ASSUME NEW k \in keys PROVE k.name \in Nat /\ Columned(k)
    <3>1. /\ k.name \in Nat /\ k.columns \in Seq(STRING) /\ k.columns # <<>>
          /\ k.refColumns \in Seq(STRING) /\ Len(k.refColumns) = Len(k.columns)
      BY DEF Catalogued
    <3> QED BY <3>1 DEF Columned
  <2> QED BY <2>1
<1> DEFINE own == OwnKeys(keys, "t")
<1>2. own \subseteq keys /\ \A k \in own : k.table = "t" BY DEF OwnKeys
<1> HIDE DEF own
<1>3. IsFiniteSet(own) BY <1>2, FS_Subset DEF Catalogued
<1>4. \A k, l \in own : k.name = l.name => k = l BY <1>2 DEF Catalogued
<1>5. Table(own) BY <1>1, <1>2, <1>3, <1>4 DEF Table
<1> QED BY <1>1, <1>5 DEF own

\* Where Postgres does not tell the foreign keys.
Blurred(engine, keys) ==
  /\ engine = "postgres"
  /\ \E k, l \in keys : Len(k.columns) > 1 \/ (k # l /\ k.name = l.name)

LEMMA KeysTell ==
  ASSUME NEW keys, Catalogued(keys), NEW engine, ~Blurred(engine, keys)
  PROVE  Tells(ForeignKeys(engine, keys, "t"), keys)
<1> DEFINE own == OwnKeys(keys, "t")
<1>1. CASE engine # "postgres"
  <2>1. ForeignKeys(engine, keys, "t") = Grouped(Listed(own)) BY <1>1 DEF ForeignKeys, OwnKeys
  <2>2. TellsAll(Grouped(Listed(own)), own) BY CataloguedIs, ListedIs
  <2> QED BY <2>1, <2>2, TellsIs
<1>2. CASE engine = "postgres"
  <2>1. \A k \in keys : ~(Len(k.columns) > 1) BY <1>2 DEF Blurred
  <2>2. \A k, l \in keys : k.name = l.name => k = l BY <1>2 DEF Blurred
  <2>3. \A k \in keys : k.name \in Nat /\ Columned(k) BY CataloguedIs
  <2>4. ASSUME NEW k \in keys PROVE Len(k.columns) = 1
    <3>1. k.columns \in Seq(STRING) /\ k.columns # <<>> BY <2>3 DEF Columned
    <3> DEFINE n == Len(k.columns)
    <3>2. n \in Nat /\ n # 0 BY <3>1
    <3>3. ~(n > 1) BY <2>1
    <3> HIDE DEF n
    <3>4. n = 1 BY <3>2, <3>3
    <3> QED BY <3>4 DEF n
  <2>5. Single(keys) BY <2>2, <2>3, <2>4 DEF Single, Catalogued
  <2>6. TellsAll(Grouped(Joined(keys, "t")), own) BY <2>5, JoinedTells
  <2>7. ForeignKeys(engine, keys, "t") = Grouped(Joined(keys, "t")) BY <1>2 DEF ForeignKeys
  <2> QED BY <2>6, <2>7, TellsIs
<1> QED BY <1>1, <1>2

LEMMA IndexesTell ==
  ASSUME NEW indexes, Catalogued(indexes), \A ix \in indexes : ix.table = "t",
         \A ix \in indexes : Expression \notin Range(ix.columns), NEW engine
  PROVE  Tells(Indexes(engine, indexes), indexes)
<1> DEFINE x == Listed(indexes)
           R == RowSet(indexes)
<1>1. OwnKeys(indexes, "t") = indexes BY DEF OwnKeys
<1>2. Table(indexes) /\ \A ix \in indexes : Columned(ix) BY <1>1, CataloguedIs
<1>3. x \in Seq(R) /\ TellsAll(Grouped(x), indexes) BY <1>2, ListedIs
<1>4. ASSUME NEW r \in R PROVE r.column # Expression
  <2>1. PICK ix \in indexes : r \in Range(RowsOf(ix)) BY DEF RowSet
  <2>2. ix.columns \in Seq(STRING) BY <1>2 DEF Columned
  <2> DEFINE n == Len(ix.columns)
  <2>3. n \in Nat /\ DOMAIN ix.columns = 1..n BY <2>2
  <2>4. DOMAIN RowsOf(ix) = 1..n BY <2>3 DEF RowsOf
  <2> HIDE DEF n
  <2>5. PICK i \in 1..n : r = RowsOf(ix)[i] BY <2>1, <2>4 DEF Range
  <2>6. r.column = ix.columns[i] BY <1>2, <2>5, RowIs DEF n
  <2>7. ix.columns[i] \in Range(ix.columns) BY <2>3 DEF Range
  <2> QED BY <2>6, <2>7
<1> HIDE DEF x, R
<1>5. WithNames(x) = x BY <1>3, <1>4, WithNamesIs
<1>6. Indexes(engine, indexes) = Grouped(x) BY <1>5 DEF Indexes, x
<1> QED BY <1>1, <1>3, <1>6, TellsIs

\* What DescribeExact says of one answer.
DescribedAs(ask, result) ==
  ask.cause = "table" =>
    /\ (\A ix \in ask.indexes : Expression \notin Range(ix.columns)) =>
         Tells(result.indexes, ask.indexes)
    /\ Tells(result.foreignKeys, ask.keys) \/ Blurred(server.engine, ask.keys)

LEMMA DescribedIs == DescribeExact <=> DescribedAs(asked, answer)
BY Zenon DEF DescribeExact, DescribedAs, Blurred

LEMMA DescribedNext == DescribeExact' <=> DescribedAs(asked, answer)'
BY DescribedIs, PTL

\* The inductive invariant: calls come to a server only.
DescribeInv == (phase # "serving" => asked = NoAsk) /\ DescribeExact

LEMMA ReplyDescribed ==
  ASSUME NEW ask, NEW result, NEW text, Reply(ask, result, text), DescribedAs(ask, result)
  PROVE  DescribeInv'
<1>1. phase' = "serving" /\ server' = server /\ asked' = ask /\ answer' = result BY DEF Reply
<1>2. DescribeExact' BY <1>1, DescribedNext DEF DescribedAs
<1> QED BY <1>1, <1>2 DEF DescribeInv

LEMMA KeysDescribed ==
  ASSUME NEW keys \in Schemas, NEW ask, NEW result, NEW text, Reply(ask, result, text),
         ask.keys = keys, ask.indexes = {},
         result.foreignKeys = ForeignKeys(server.engine, keys, "t"), result.indexes = <<>>
  PROVE  DescribeInv'
<1>1. Catalogued(keys) BY CatalogsAssumption
<1>2. PICK engine : engine = server.engine OBVIOUS
<1>3. Tells(ForeignKeys(engine, keys, "t"), keys) \/ Blurred(engine, keys) BY <1>1, KeysTell
<1>4. DescribedAs(ask, result) BY <1>2, <1>3, TellsNone DEF DescribedAs
<1> QED BY <1>4, ReplyDescribed

LEMMA IndexesDescribed ==
  ASSUME NEW indexes \in IndexSets, NEW ask, NEW result, NEW text, Reply(ask, result, text),
         ask.keys = {}, ask.indexes = indexes, result.foreignKeys = <<>>,
         \/ result.indexes = Indexes(server.engine, indexes)
         \/ DescribeFails(server.engine, indexes)
  PROVE  DescribeInv'
<1>1. Catalogued(indexes) /\ \A ix \in indexes : ix.table = "t" BY CatalogsAssumption
<1>2. PICK engine : engine = server.engine OBVIOUS
<1>3. ASSUME \A ix \in indexes : Expression \notin Range(ix.columns)
      PROVE  Tells(result.indexes, indexes)
  <2>1. ~DescribeFails(engine, indexes) BY <1>3 DEF DescribeFails
  <2>2. result.indexes = Indexes(engine, indexes) BY <1>2, <2>1
  <2>3. Tells(Indexes(engine, indexes), indexes) BY <1>1, <1>3, IndexesTell
  <2> QED BY <2>2, <2>3
<1>4. DescribedAs(ask, result) BY <1>3, TellsNone DEF DescribedAs
<1> QED BY <1>4, ReplyDescribed

LEMMA TableDescribed ==
  ASSUME DescribeTable
  PROVE  DescribeInv'
<1>1. CASE \E keys \in Schemas :
             Reply([NoAsk EXCEPT !.cause = "table", !.keys = keys],
                   [Ok EXCEPT !.foreignKeys = ForeignKeys(server.engine, keys, "t")], {})
  <2>1. PICK keys, ask, result :
          /\ keys \in Schemas
          /\ ask = [NoAsk EXCEPT !.cause = "table", !.keys = keys]
          /\ result = [Ok EXCEPT !.foreignKeys = ForeignKeys(server.engine, keys, "t")]
          /\ Reply(ask, result, {})
    BY <1>1, Zenon
  <2>2. ask.keys = keys /\ ask.indexes = {} BY <2>1 DEF NoAsk
  <2>3. result.foreignKeys = ForeignKeys(server.engine, keys, "t") /\ result.indexes = <<>>
    BY <2>1 DEF Ok, NoAnswer
  <2> QED BY <2>1, <2>2, <2>3, KeysDescribed
<1>2. CASE \E indexes \in IndexSets :
             Reply([NoAsk EXCEPT !.cause = "table", !.indexes = indexes],
                   IF DescribeFails(server.engine, indexes) THEN Failed("driver")
                     ELSE [Ok EXCEPT !.indexes = Indexes(server.engine, indexes)], {})
  <2>1. PICK indexes, ask, result :
          /\ indexes \in IndexSets
          /\ ask = [NoAsk EXCEPT !.cause = "table", !.indexes = indexes]
          /\ result = IF DescribeFails(server.engine, indexes) THEN Failed("driver")
                        ELSE [Ok EXCEPT !.indexes = Indexes(server.engine, indexes)]
          /\ Reply(ask, result, {})
    BY <1>2, Zenon
  <2>2. ask.keys = {} /\ ask.indexes = indexes BY <2>1 DEF NoAsk
  <2>3. /\ result.foreignKeys = <<>>
        /\ \/ result.indexes = Indexes(server.engine, indexes)
           \/ DescribeFails(server.engine, indexes)
    BY <2>1 DEF Ok, Failed, NoAnswer
  <2> QED BY <2>1, <2>2, <2>3, IndexesDescribed
<1> QED BY <1>1, <1>2 DEF DescribeTable

\* The other calls are not about a table.
LEMMA OthersDescribed ==
  ASSUME Blocked \/ Fails \/ ExecuteSql
  PROVE  DescribeInv'
<1>1. PICK ask, result, text : Reply(ask, result, text) /\ ask.cause # "table"
  <2>1. \A x : [NoAsk EXCEPT !.cause = x].cause = x BY DEF NoAsk
  <2>2. \A x : /\ [NoAsk EXCEPT !.cause = "rows", !.result = x].cause = "rows"
               /\ [NoAsk EXCEPT !.cause = "array", !.array = x].cause = "array"
    BY DEF NoAsk
  <2>3. CASE Blocked
    <3>1. PICK cause, result, text :
            Reply(Because(cause), result, text) /\ cause \in {"several statements", "write"}
      <4>1. \/ Reply(Because("several statements"), Failed("multi-statement:"), {})
            \/ Reply(Because("write"), Failed("read-only:"), {})
        BY <2>3, Zenon DEF Blocked
      <4>2. "several statements" \in {"several statements", "write"} /\ "write" \in {"several statements", "write"}
        OBVIOUS
      <4> QED BY <4>1, <4>2, Zenon
    <3>2. Because(cause).cause # "table" BY <2>1, <3>1 DEF Because
    <3> QED BY <3>1, <3>2, Zenon
  <2>4. CASE Fails
    <3>1. PICK cause \in Causes : \E m \in Messages(cause) :
            Reply(Because(cause), Failed(Sanitized(m, server.secrets).starts), Sanitized(m, server.secrets).shown)
      BY <2>4 DEF Fails
    <3>2. Because(cause).cause # "table" BY <2>1 DEF Because, Causes
    <3> QED BY <3>1, <3>2, Zenon
  <2>5. CASE ExecuteSql
    <3>1. \/ \E x, result : Reply([NoAsk EXCEPT !.cause = "rows", !.result = x], result, {})
          \/ \E x, result : Reply([NoAsk EXCEPT !.cause = "array", !.array = x], result, {})
      BY <2>5, Zenon DEF ExecuteSql
    <3>2. "rows" # "table" /\ "array" # "table" OBVIOUS
    <3> QED BY <2>2, <3>1, <3>2, Zenon
  <2> QED BY <2>3, <2>4, <2>5
<1>2. DescribedAs(ask, result) BY <1>1 DEF DescribedAs
<1> QED BY <1>1, <1>2, ReplyDescribed

LEMMA NoAskDescribed ==
  ASSUME NEW result
  PROVE  DescribedAs(NoAsk, result)
BY DEF DescribedAs, NoAsk, None

LEMMA DescribeInit == Init => DescribeInv
<1> SUFFICES ASSUME Init PROVE DescribeInv OBVIOUS
<1>1. asked = NoAsk BY DEF Init
<1>2. DescribedAs(asked, answer) BY <1>1, NoAskDescribed
<1> QED BY <1>1, <1>2, DescribedIs DEF DescribeInv

LEMMA DescribeStep == DescribeInv /\ [Next]_vars => DescribeInv'
<1> SUFFICES ASSUME DescribeInv, [Next]_vars PROVE DescribeInv' OBVIOUS
<1>1. CASE \E i \in Inputs : \E text \in TextsAt(i[1], i[2]) : Give(i, text)
  BY <1>1 DEF Give, DescribeInv, DescribeExact
<1>2. CASE Start
  <2>1. phase = "setup" /\ asked' = asked BY <1>2 DEF Start
  <2>2. asked' = NoAsk BY <2>1 DEF DescribeInv
  <2>3. DescribedAs(asked, answer)' BY <2>2 DEF DescribedAs, NoAsk, None
  <2> QED BY <2>2, <2>3, DescribedNext DEF DescribeInv
<1>3. CASE Blocked \/ Fails \/ ExecuteSql BY <1>3, OthersDescribed
<1>4. CASE DescribeTable BY <1>4, TableDescribed
<1>5. CASE Over
  <2>1. asked' = NoAsk BY <1>5 DEF Over
  <2>2. DescribedAs(asked, answer)' BY <2>1 DEF DescribedAs, NoAsk, None
  <2> QED BY <2>1, <2>2, DescribedNext DEF DescribeInv
<1>6. CASE UNCHANGED vars BY <1>6 DEF vars, DescribeInv, DescribeExact
<1> QED BY <1>1, <1>2, <1>3, <1>4, <1>5, <1>6 DEF Next

\* search_objects tells the indexes and the foreign keys of a table as they were
\* declared, each once and with its columns in order, for any number of them;
\* except, in Postgres, where the join of the catalog's views mixes up the
\* columns of a key or the keys of one name.
THEOREM DescribeExactHolds == Spec => []DescribeExact
<1>1. DescribeInv => DescribeExact BY DEF DescribeInv
<1> QED BY <1>1, DescribeInit, DescribeStep, PTL DEF Spec
=============================================================================
