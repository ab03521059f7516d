------------------------------ MODULE SqlGuard ------------------------------
(***************************************************************************)
(* The SQL guard (sql-guard.ts, sql_guard.py, sql_guard.rs: one algorithm  *)
(* in three languages) over every short text, against the lexers of the    *)
(* engines behind it.                                                      *)
(*                                                                         *)
(* A text is a sequence of characters; a keyword counts as one: SELECT     *)
(* stands for the words that start a read, DELETE for any other, M for the *)
(* letter of the executable comment of MariaDB, ' for both quotes, tick    *)
(* for a backtick, $$ for a dollar quote's delimiter. The text grows by    *)
(* Chunks.                                                                 *)
(*                                                                         *)
(* Left out: the test for INTO OUTFILE and INTO DUMPFILE, wording.         *)
(***************************************************************************)
EXTENDS Integers, Sequences, FiniteSetsExt, SequencesExt

CONSTANT MaxChunks    \* bound: chunks of a text after its start

ASSUME BoundsAssumption == MaxChunks \in Nat

Chunks == {<<"SELECT">>, <<"DELETE">>, <<";">>, <<" ">>, <<"LF">>, <<"CR">>,
           <<"-", "-">>, <<"/">>, <<"/", "*">>, <<"/", "*", "!">>, <<"/", "*", "M", "!">>,
           <<"*", "/">>, <<"'">>, <<"tick">>, <<"\\">>, <<"#">>, <<"[">>, <<"]">>, <<"$$">>}

VARIABLES text, size

vars == <<text, size>>

Init == /\ text \in {<<>>, <<"SELECT">>}
        /\ size = 0

Grow(c) == /\ size < MaxChunks
           /\ size' = size + 1
           /\ text' = text \o c

Next == \E c \in Chunks : Grow(c)

Spec == Init /\ [][Next]_vars

-----------------------------------------------------------------------------
(* Texts.                                                                  *)

At(t, i) == IF i \in DOMAIN t THEN t[i] ELSE "end"

\* The text has s at position i.
Has(t, i, s) == \A k \in DOMAIN s : At(t, i + k - 1) = s[k]

\* The first position from i on where s is, or 0.
Find(t, i, s) == LET found == {j \in i..Len(t) : Has(t, j, s)}
                 IN IF found = {} THEN 0 ELSE Min(found)

\* The text up to i with CR LF made LF, for every i.
Copied(t) ==
  LET Copy[i \in 0..Len(t)] ==
        IF i = 0 THEN <<>>
        ELSE IF Has(t, i, <<"CR", "LF">>) THEN Copy[i - 1] ELSE Append(Copy[i - 1], t[i])
  IN Copy

\* sql.replace(/\r\n/g, "\n")
Normalized(t) == Copied(t)[Len(t)]

Letters == {"SELECT", "DELETE", "M"}

\* The word at position i.
Word(t, i) ==
  LET last == Max({i - 1} \union {j \in i..Len(t) : \A k \in i..j : t[k] \in Letters})
  IN SubSeq(t, i, last)

ReadWords == {<<"SELECT">>}

-----------------------------------------------------------------------------
(* The guard.                                                              *)

Whitespace == {" ", "LF"}

\* Characters the engines read differently.
Unsure == {"\\", "$$", "#", "[", "tick", "CR"}

\* The comment that opens at i is executed by MySQL or MariaDB.
Executable(t, i) == Has(t, i, <<"/", "*", "!">>) \/ Has(t, i, <<"/", "*", "M", "!">>)

AnyDashes(t, i) == FALSE    \* mutant
\* The -- at i is no comment for MySQL.
NoBlank(t, i) == At(t, i + 2) \notin {" ", "LF"}

NoQuotes == {}    \* mutant
Quotes == {"'", "tick"}

\* One turn of the loop of scan, at position i. A two-character opening or
\* closing of a comment skips the second one.
ScanAt(t, s, i) ==
  LET ch == t[i]
      u == [s EXCEPT !.ambiguous = @ \/ ch \in Unsure]
  IN
    CASE s.skip -> [s EXCEPT !.skip = FALSE]
      [] ~s.skip /\ s.in = "line" -> [u EXCEPT !.in = IF ch = "LF" THEN "code" ELSE @]
      [] ~s.skip /\ s.in = "block" ->
           IF Has(t, i, <<"*", "/">>)
             THEN [u EXCEPT !.in = "code", !.skip = TRUE]
             ELSE [u EXCEPT !.ambiguous = @ \/ Has(t, i, <<"/", "*">>)]
      [] ~s.skip /\ s.in \in Quotes -> [u EXCEPT !.in = IF ch = s.in THEN "code" ELSE @]
      [] ~s.skip /\ s.in = "code" ->
           CASE Has(t, i, <<"-", "-">>) ->
                  [u EXCEPT !.ambiguous = @ \/ NoBlank(t, i), !.in = "line", !.skip = TRUE]
             [] Has(t, i, <<"/", "*">>) ->
                  [u EXCEPT !.ambiguous = @ \/ Executable(t, i), !.in = "block", !.skip = TRUE]
             [] ch = ";" -> [u EXCEPT !.empty = FALSE, !.semi = TRUE]
             [] ch \in Whitespace -> u
             [] OTHER -> [u EXCEPT !.empty = FALSE, !.multi = @ \/ s.semi,
                                   !.in = IF ch \in Quotes THEN ch ELSE "code"]

ScanStart == [in |-> "code", skip |-> FALSE, ambiguous |-> FALSE, empty |-> TRUE,
              semi |-> FALSE, multi |-> FALSE]

\* The loop's variables after each position.
Scanned(t) ==
  LET State[i \in 0..Len(t)] == IF i = 0 THEN ScanStart ELSE ScanAt(t, State[i - 1], i)
  IN State

\* scan(): in an ambiguous text any semicolon before the end counts.
Scan(t) ==
  LET end == Scanned(t)[Len(t)]
      inner == \E i, j \in DOMAIN t : i < j /\ t[i] = ";" /\ t[j] \notin Whitespace \union {";"}
  IN [end EXCEPT !.multi = IF end.ambiguous THEN inner ELSE @]

\* The comment from i to its end e is one for every engine.
AnyComment(t, i, e) == TRUE    \* mutant
PlainComment(t, i, e) ==
  \/ /\ t[i] = "-"
     /\ \A j \in i..e : t[j] # "CR"
  \/ /\ t[i] = "/"
     /\ ~Executable(t, i)
     /\ \A j \in i + 2 .. e - 2 : ~Has(t, j, <<"/", "*">>)

\* firstWord() from every position on: the word after white space and comments;
\* none when one of the comments has no end, or is not one for every engine.
WordAfter(t) ==
  LET After[i \in 1..Len(t) + 1] ==
        LET line == Has(t, i, <<"-", "-">>)
            end == IF line THEN Find(t, i, <<"LF">>) ELSE Find(t, i + 2, <<"*", "/">>)
            next == IF line THEN end + 1 ELSE end + 2
        IN CASE At(t, i) \in Whitespace -> After[i + 1]
             [] line \/ Has(t, i, <<"/", "*">>) ->
                  IF end # 0 /\ PlainComment(t, i, end) THEN After[next] ELSE <<>>
             [] OTHER -> Word(t, i)
  IN After

FirstWord(t) == WordAfter(t)[1]

\* guardSql().
Guard(raw, readOnly) ==
  LET t == Normalized(raw)
      s == Scan(t)
  IN CASE s.empty -> "empty"
       [] ~s.empty /\ s.multi -> "multi"
       [] ~s.empty /\ ~s.multi /\ readOnly /\ FirstWord(t) \notin ReadWords -> "blocked"
       [] OTHER -> "pass"

-----------------------------------------------------------------------------
(* The engines: what each takes a text for.                                *)

Engines == {"sqlite", "mysql", "postgres"}

Blank == {" ", "LF", "CR"}

\* What opens something that only its closing character ends.
Openings(d) == {"'"} \union (IF d = "postgres" THEN {"$$"} ELSE {"tick"})
                     \union (IF d = "sqlite" THEN {"["} ELSE {})
Closing(ch) == IF ch = "[" THEN "]" ELSE ch

\* One character in a line comment: Postgres ends it at a CR, too.
InLine(d, s, ch) ==
  IF ch = "LF" \/ (d = "postgres" /\ ch = "CR") THEN [s EXCEPT !.in = "code"] ELSE s

\* One character in a block comment, which nests in Postgres only.
InBlock(d, t, s, i) ==
  CASE Has(t, i, <<"*", "/">>) ->
         [s EXCEPT !.in = IF s.depth = 1 THEN "code" ELSE @, !.depth = @ - 1, !.skip = 1]
    [] Has(t, i, <<"/", "*">>) /\ d = "postgres" -> [s EXCEPT !.depth = @ + 1, !.skip = 1]
    [] OTHER -> s

\* One character in quotes; MySQL has backslash escapes.
InQuote(d, s, ch) ==
  CASE ch = Closing(s.in) -> [s EXCEPT !.in = "code"]
    [] ch = "\\" /\ d = "mysql" /\ s.in = "'" -> [s EXCEPT !.skip = 1]
    [] OTHER -> s

\* One character elsewhere: white space, a comment, or the start of a token.
\* What MySQL executes of a comment is opened and closed.
InCode(d, t, s, i) ==
  LET ch == t[i]
      dashes == ch = "-" /\ Has(t, i, <<"-", "-">>)
                  /\ (d = "mysql" => At(t, i + 2) \in Blank \union {"end"})
      block == ch = "/" /\ Has(t, i, <<"/", "*">>)
      executed == d = "mysql" /\ Executable(t, i)
      u == [s EXCEPT !.in = "code"]
      Token(kind, in) == [s EXCEPT !.in = in, !.tokens = Append(@, kind)]
  IN CASE ch \in Blank -> u
       [] dashes -> [u EXCEPT !.in = "line", !.skip = 1]
       [] ch = "#" /\ d = "mysql" -> [u EXCEPT !.in = "line"]
       [] block /\ ~executed -> [u EXCEPT !.in = "block", !.depth = 1, !.skip = 1]
       [] block /\ executed ->
            [u EXCEPT !.opened = TRUE, !.skip = IF At(t, i + 2) = "!" THEN 2 ELSE 3]
       [] ch = "*" /\ Has(t, i, <<"*", "/">>) /\ s.opened -> [u EXCEPT !.opened = FALSE, !.skip = 1]
       [] ch = ";" -> Token("semicolon", "code")
       [] ch \in Openings(d) -> Token("other", ch)
       [] ch \in Letters ->
            IF s.in = "word" THEN s
            ELSE Token(IF Word(t, i) = <<"DELETE">> THEN "write" ELSE "other", "word")
       [] OTHER -> Token("other", "code")

LexAt(d, t, s, i) ==
  CASE s.skip > 0 -> [s EXCEPT !.skip = @ - 1]
    [] s.skip = 0 /\ s.in = "line" -> InLine(d, s, t[i])
    [] s.skip = 0 /\ s.in = "block" -> InBlock(d, t, s, i)
    [] s.skip = 0 /\ s.in \in Openings(d) -> InQuote(d, s, t[i])
    [] s.skip = 0 /\ s.in \in {"code", "word"} -> InCode(d, t, s, i)

LexStart == [in |-> "code", skip |-> 0, depth |-> 0, opened |-> FALSE, tokens |-> <<>>]

\* What engine d made of the text after each position.
Read(d, t) ==
  LET State[i \in 0..Len(t)] == IF i = 0 THEN LexStart ELSE LexAt(d, t, State[i - 1], i)
  IN State

\* What engine d reads: the kinds of the tokens, without white space.
Lexed(d, t) == Read(d, t)[Len(t)].tokens

\* The first tokens of the statements, semicolons being their ends.
Heads(tokens) ==
  {i \in DOMAIN tokens : tokens[i] # "semicolon" /\ (i = 1 \/ tokens[i - 1] = "semicolon")}

-----------------------------------------------------------------------------
(* Properties.                                                             *)

\* What the guard lets pass, with writes allowed or not, is at most one
\* statement for every engine ("Multi-statement input is rejected before it
\* reaches the database").
OneStatement ==
  Guard(text, FALSE) = "pass" =>
    \A d \in Engines : Cardinality(Heads(Lexed(d, text))) <= 1

\* Within a comment, /*/ opens another one for Postgres, but firstWord(), which
\* looks for the end first, takes its last two characters for the end.
HiddenNesting(t) ==
  \E i \in DOMAIN t : \E j \in i + 2 .. Len(t) :
     Has(t, i, <<"/", "*">>) /\ Has(t, j, <<"/", "*", "/">>)

\* What it lets pass in read-only mode begins with no other command than a
\* read for any engine, whatever comments come before it: "nothing" is first
\* when the lead is "anything an engine could read differently". For Postgres
\* that is not so if there is a hidden nesting.
ReadsOnly ==
  Guard(text, TRUE) = "pass" =>
    \A d \in Engines : (d = "postgres" => ~HiddenNesting(text)) =>
      LET tokens == Lexed(d, text) IN \A i \in Heads(tokens) : tokens[i] # "write"

\* When the scan is sure of a text, all engines read it as the scan does: it
\* is rejected as more than one statement exactly if something follows a
\* semicolon, and as empty exactly if nothing is there.
SureIsExact ==
  LET t == Normalized(text)
      s == Scan(t)
  IN ~s.ambiguous =>
       \A d \in Engines : LET tokens == Lexed(d, text) IN
         /\ s.multi <=> \E i, j \in DOMAIN tokens :
                           i < j /\ tokens[i] = "semicolon" /\ tokens[j] # "semicolon"
         /\ s.empty <=> tokens = <<>>
=============================================================================
