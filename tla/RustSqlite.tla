----------------------------- MODULE RustSqlite -----------------------------
(***************************************************************************)
(* The Rust servers of the SQLite family. All sessions share one adapter,  *)
(* and the adapter one connection:                                         *)
(*   "sqlite"  (sqlite/rust) holds a mutex for the whole call; a progress  *)
(*             handler of the connection checks the call's deadline;       *)
(*   "libsql"  (libsql/rust, local file) has no mutex of its own: SQLite   *)
(*             serializes single steps. A watchdog thread per query        *)
(*             interrupts the connection at the deadline;                  *)
(*   "remote"  (libsql/rust, server) sends requests on a stream; an outer  *)
(*             timeout abandons the call.                                  *)
(* Which of them runs, and in which mode, is chosen in Init.               *)
(*                                                                         *)
(* SQLite is external: an interrupt stays set until a statement starts     *)
(* while no other one is active; statements that overlap on a connection   *)
(* share one write transaction, and so do those between a client's BEGIN   *)
(* and its end. The runtime has enough workers.                            *)
(*                                                                         *)
(* Left out: what statements say, types, names; savepoints; the local      *)
(* outer timeout, for a local run_query never awaits. MaxRows bounds the   *)
(* rows of a query.                                                        *)
(***************************************************************************)
EXTENDS Integers, FiniteSets

CONSTANTS Queries,      \* execute_sql calls the guard let pass
          Catalogs,     \* list_tables / describe_table calls
          Engines,      \* the servers to check
          Offered,      \* bound: the kinds of statement of each query
          MaxRows

Calls == Queries \union Catalogs
NoCall == "nobody"

ASSUME CallsAssumption == Queries \cap Catalogs = {} /\ NoCall \notin Calls
ASSUME EnginesAssumption == Engines \subseteq {"sqlite", "libsql", "remote"} /\ MaxRows \in Nat

\* "write" fails as a whole or not at all; "partial" (INSERT OR FAIL) keeps
\* what it did before it failed. "begin" and "end" (COMMIT or ROLLBACK) pass
\* the guard in write mode only.
Writes == {"write", "partial"}
Control == {"begin", "end"}
Statements == {"read"} \union Writes \union Control

ASSUME OfferedAssumption == Offered \in [Queries -> SUBSET Statements]

VARIABLES
  engine,
  readOnly,    \* guardrails.read_only
  stmt,        \* the statement of each query
  \* the calls
  pc,          \* where each call is
  rows,        \* rows a query has read
  left,        \* catalog reads still to do
  result,      \* what run_query, or a catalog call, ended with
  alone,       \* history: no other call was in progress beside this one
  \* deadlines
  watch,       \* each query's deadline: the watchdog, or the handler's clock
  handler,     \* sqlite: whose deadline the progress handler checks
  \* the connection
  mutex,       \* sqlite: the adapter's mutex; libsql: SQLite's, for a step
  interrupted, \* libsql: the connection's interrupt flag
  queryOnly,   \* the session has PRAGMA query_only = ON
  unguarded,   \* history: queries whose stream was dropped after their pragma
  manual,      \* a client's BEGIN is open on the connection
  within,      \* history: queries whose write was in a client's transaction
  pending,     \* writes done in a transaction that is still open
  kept         \* writes committed

vars == <<engine, readOnly, stmt, pc, rows, left, result, alone, watch, handler, mutex,
          interrupted, queryOnly, unguarded, manual, within, pending, kept>>
chosen == <<engine, readOnly>>
session == <<queryOnly, unguarded>>
database == <<manual, within, pending, kept>>

\* A catalog call reads.
Kind(c) == IF c \in Queries THEN stmt[c] ELSE "read"

\* The queries whose statement changes the database.
writing == {q \in Queries : stmt[q] \in Writes}

TypeOK ==
  /\ engine \in Engines /\ readOnly \in BOOLEAN
  /\ stmt \in [Queries -> Statements \union {"none"}]
  /\ pc \in [Calls -> {"idle", "lock", "pragma", "start", "run", "rows", "join", "end"}]
  /\ rows \in [Queries -> 0..MaxRows]
  /\ left \in [Catalogs -> 0..2]
  /\ result \in [Calls -> {"none", "ok", "failed", "interrupted", "abandoned"}]
  /\ alone \in [Calls -> BOOLEAN]
  /\ watch \in [Queries -> {"off", "waiting", "due", "fired", "quiet"}]
  /\ handler \in Queries \union {NoCall}
  /\ mutex \in Calls \union {NoCall}
  /\ interrupted \in BOOLEAN /\ queryOnly \in BOOLEAN
  /\ unguarded \subseteq Queries /\ manual \in BOOLEAN
  /\ within \subseteq Queries /\ pending \subseteq Queries /\ kept \subseteq Queries

\* connect(): a read-only server sets query_only, and opens a local file
\* read-only.
Init ==
  /\ engine \in Engines /\ readOnly \in BOOLEAN
  /\ stmt = [q \in Queries |-> "none"]
  /\ pc = [c \in Calls |-> "idle"]
  /\ rows = [q \in Queries |-> 0]
  /\ left = [k \in Catalogs |-> 0]
  /\ result = [c \in Calls |-> "none"]
  /\ alone = [c \in Calls |-> TRUE]
  /\ watch = [q \in Queries |-> "off"]
  /\ handler = NoCall
  /\ mutex = NoCall
  /\ interrupted = FALSE
  /\ queryOnly = readOnly
  /\ unguarded = {} /\ manual = FALSE
  /\ within = {} /\ pending = {} /\ kept = {}

-----------------------------------------------------------------------------
(* SQLite.                                                                 *)

\* Statements that have been started and not reset.
Active == {c \in Calls : pc[c] \in {"run", "rows"}}

\* What the read-only open or the session refuses, and a BEGIN, COMMIT or
\* ROLLBACK that does not fit the transaction.
Refused(c) ==
  \/ c \in writing /\ (queryOnly \/ (readOnly /\ engine # "remote"))
  \/ Kind(c) = "begin" /\ manual
  \/ Kind(c) = "end" /\ ~manual

\* A statement about to take a step gets SQLite's mutex; sqlite's call holds
\* the adapter's already, and a remote server serves requests one by one or
\* side by side.
StepLock(c) ==
  CASE engine = "libsql" -> mutex = NoCall /\ mutex' = c
    [] engine = "sqlite" -> mutex = c /\ UNCHANGED mutex
    [] engine = "remote" -> UNCHANGED mutex

StepUnlock_Always(c) == mutex' = NoCall    \* mutant: sqlite, too, locks single steps
StepUnlock(c) == mutex' = IF engine = "libsql" THEN NoCall ELSE mutex

\* A running statement is stopped when the flag is set, or when the progress
\* handler finds its deadline passed, whoever set either.
Hit ==
  \/ interrupted
  \/ handler # NoCall /\ watch[handler] = "fired"

\* No other statement writes in the transaction of c, nor is it a client's.
Sole(c) == engine = "remote" \/ (writing \intersect Active) \ {c} = {}
Last(c) == ~manual /\ Sole(c)

RollBack ==
  /\ manual' = FALSE /\ pending' = {}
  /\ UNCHANGED <<within, kept>>

\* A statement is done: the last writer to end commits what is pending, unless
\* a client's transaction is open.
CarriedOut(c) ==
  \/ /\ c \in writing /\ Last(c)
     /\ kept' = kept \union pending \union {c} /\ pending' = {}
     /\ UNCHANGED <<manual, within>>
  \/ /\ c \in writing /\ ~Last(c)
     /\ pending' = pending \union {c}
     /\ within' = IF manual THEN within \union {c} ELSE within
     /\ UNCHANGED <<manual, kept>>
  \/ /\ Kind(c) = "begin"
     /\ manual' = TRUE
     /\ UNCHANGED <<within, pending, kept>>
  \/ Kind(c) = "end" /\ RollBack
  \/ /\ Kind(c) = "end" /\ Sole(c)
     /\ kept' = kept \union pending
     /\ manual' = FALSE /\ pending' = {}
     /\ UNCHANGED within
  \/ Kind(c) = "read" /\ UNCHANGED database

\* It is undone: the statement, or (the last writer's, OR ROLLBACK) the whole
\* transaction.
Undone(c) ==
  \/ c \in writing /\ RollBack
  \/ (c \notin writing \/ ~Last(c)) /\ UNCHANGED database

\* A statement's end, for the database. A remote server may have carried out
\* what fails on its way back, or what the caller gave up.
Settled(c, r) ==
  \/ Refused(c) /\ UNCHANGED database
  \/ ~Refused(c) /\ r = "ok" /\ CarriedOut(c)
  \/ ~Refused(c) /\ r = "interrupted" /\ (IF c \in writing THEN RollBack ELSE UNCHANGED database)
  \/ ~Refused(c) /\ r = "failed" /\ Undone(c)
  \/ /\ ~Refused(c) /\ r = "failed"
     /\ engine = "remote" \/ Kind(c) = "partial"
     /\ CarriedOut(c)
  \/ ~Refused(c) /\ r = "abandoned" /\ (CarriedOut(c) \/ UNCHANGED database)

\* A remote server drops a stream, also between two requests of a call, and
\* with it the transaction on it; the driver opens another one for the next
\* request, without the pragma. (The server honours it.)
DropStream ==
  /\ engine = "remote" /\ (queryOnly \/ manual)
  /\ queryOnly' = FALSE
  /\ unguarded' = IF readOnly THEN unguarded \union {q \in Queries : pc[q] \in {"start", "run"}}
                              ELSE unguarded
  /\ RollBack
  /\ UNCHANGED <<chosen, stmt, pc, rows, left, result, alone, watch, handler, mutex, interrupted>>

-----------------------------------------------------------------------------
(* A call begins.                                                          *)

\* Only a query takes part in the remote read-only mode: it sets the pragma
\* again before its statement.
First_Plain(c) == IF engine = "sqlite" THEN "lock" ELSE "start"    \* mutant: the pragma is set in connect() only
First(c) ==
  CASE engine = "sqlite" -> "lock"
    [] engine = "remote" /\ readOnly /\ c \in Queries -> "pragma"
    [] OTHER -> "start"

Begin(c) ==
  LET others == {d \in Calls : pc[d] \notin {"idle", "end"}} IN
    /\ pc[c] = "idle"
    /\ pc' = [pc EXCEPT ![c] = First(c)]
    /\ alone' = [d \in Calls |-> IF d = c THEN others = {} ELSE alone[d] /\ d \notin others]
    /\ UNCHANGED <<chosen, rows, result, handler, mutex, interrupted, session, database>>

\* query, with any statement: libsql spawns the watchdog thread first.
Query(q) ==
  /\ Begin(q)
  /\ \E s \in Offered[q] : /\ readOnly => s \notin Control
                          /\ stmt' = [stmt EXCEPT ![q] = s]
  /\ watch' = [watch EXCEPT ![q] = IF engine = "sqlite" THEN @ ELSE "waiting"]
  /\ UNCHANGED left

\* One read, or several: the tables' counts, the indexes, the foreign keys.
\* No deadline covers them.
Catalog(k) ==
  /\ Begin(k)
  /\ \E n \in 1..2 : left' = [left EXCEPT ![k] = n]
  /\ UNCHANGED <<stmt, watch>>

Handler_Not(c) == handler    \* mutant: the handler is not installed
Handler(c) == IF c \in Queries THEN c ELSE handler

\* sqlite: with_db gets the mutex; then a query's deadline starts, and the
\* progress handler is installed.
Lock(c) ==
  /\ pc[c] = "lock" /\ mutex = NoCall
  /\ mutex' = c
  /\ handler' = Handler(c)
  /\ watch' = [q \in Queries |-> IF q = c THEN "waiting" ELSE watch[q]]
  /\ pc' = [pc EXCEPT ![c] = "start"]
  /\ UNCHANGED <<chosen, stmt, rows, left, result, alone, interrupted, session, database>>

\* remote: PRAGMA query_only = ON, on whatever stream there is.
Pragma(q) ==
  /\ pc[q] = "pragma"
  /\ queryOnly' = TRUE
  /\ UNCHANGED unguarded
  /\ pc' = [pc EXCEPT ![q] = "start"]
  /\ UNCHANGED <<chosen, stmt, rows, left, result, alone, watch, handler, mutex,
                 interrupted, database>>

-----------------------------------------------------------------------------
(* Statements.                                                             *)

\* run_query, or a catalog call, is over.
Over(c, r) ==
  /\ pc' = [pc EXCEPT ![c] = "join"]
  /\ result' = [result EXCEPT ![c] = r]
  /\ Settled(c, r)
  /\ UNCHANGED left

\* prepare and the first step. The interrupt flag is cleared if no statement
\* is active; otherwise it stops this one, too.
Start(c) ==
  /\ pc[c] = "start"
  /\ interrupted' = (interrupted /\ Active # {})
  /\ \/ /\ StepLock(c)
        /\ ~interrupted'
        /\ pc' = [pc EXCEPT ![c] = "run"]
        /\ UNCHANGED <<left, result, database>>
     \/ /\ engine = "libsql" /\ mutex = NoCall /\ interrupted'
        /\ Over(c, "interrupted")
        /\ UNCHANGED mutex
  /\ UNCHANGED <<chosen, stmt, rows, alone, watch, handler, session>>

\* A step of a query yields a row: libsql lets others step before it asks
\* for the next one. At the cap the rest is not read (Finish).
Row(q) ==
  /\ pc[q] = "run" /\ engine # "remote"
  /\ stmt[q] \notin Control /\ ~Refused(q)
  /\ rows[q] < MaxRows
  /\ rows' = [rows EXCEPT ![q] = @ + 1]
  /\ pc' = [pc EXCEPT ![q] = "rows"]
  /\ StepUnlock(q)
  /\ UNCHANGED <<chosen, stmt, left, result, alone, watch, handler, interrupted,
                 session, database>>

\* cursor.next(): a step finds the flag at once.
NextRow(q) ==
  /\ pc[q] = "rows"
  /\ \/ /\ ~interrupted
        /\ StepLock(q)
        /\ pc' = [pc EXCEPT ![q] = "run"]
        /\ UNCHANGED <<left, result, database>>
     \/ /\ interrupted /\ mutex = NoCall
        /\ Over(q, "interrupted")
        /\ UNCHANGED mutex
  /\ UNCHANGED <<chosen, stmt, rows, alone, watch, handler, interrupted, session>>

\* A read of a catalog call was not the last one.
More(k) == left[k] > 1

\* A statement ends well: all of it is done, or a query has its rows.
Finish(c) ==
  /\ pc[c] = "run"
  /\ ~Refused(c)
  /\ StepUnlock(c)
  /\ IF c \in Catalogs /\ More(c)
       THEN /\ left' = [left EXCEPT ![c] = @ - 1]
            /\ pc' = [pc EXCEPT ![c] = "start"]
            /\ UNCHANGED <<result, database>>
       ELSE Over(c, "ok")
  /\ UNCHANGED <<chosen, stmt, rows, alone, watch, handler, interrupted, session>>

\* Before the statement of c was sent.
NotSent(c, r) ==
  /\ pc' = [pc EXCEPT ![c] = "join"]
  /\ result' = [result EXCEPT ![c] = r]
  /\ UNCHANGED <<left, database>>

\* It fails: refused, wrong in itself, or, on a remote server, the request or
\* its answer is lost.
Fail(c) ==
  /\ \/ pc[c] = "run" /\ Over(c, "failed")
     \/ pc[c] = "pragma" /\ NotSent(c, "failed")
  /\ StepUnlock(c)
  /\ UNCHANGED <<chosen, stmt, rows, alone, watch, handler, interrupted, session>>

\* It is interrupted in the middle of a step.
Interrupted(c) ==
  /\ pc[c] = "run" /\ Hit
  /\ StepUnlock(c)
  /\ Over(c, "interrupted")
  /\ UNCHANGED <<chosen, stmt, rows, alone, watch, handler, interrupted, session>>

\* remote: the outer timeout drops run_query wherever it is.
Abandon(q) ==
  /\ engine = "remote"
  /\ \/ pc[q] = "run" /\ Over(q, "abandoned")
     \/ pc[q] \in {"pragma", "start"} /\ NotSent(q, "abandoned")
  /\ UNCHANGED <<chosen, stmt, rows, alone, watch, handler, mutex, interrupted, session>>

-----------------------------------------------------------------------------
(* Deadlines and answers.                                                  *)

\* The deadline passes: recv_timeout returns, or the handler's clock is past
\* it. A watchdog that was told "done" before sees that instead; a remote
\* one has nothing to interrupt.
Expire(q) ==
  /\ watch[q] = "waiting"
  /\ pc[q] \notin {"join", "end"}
  /\ watch' = [watch EXCEPT ![q] = IF engine = "libsql" THEN "due" ELSE "fired"]
  /\ UNCHANGED <<chosen, stmt, pc, rows, left, result, alone, handler, mutex,
                 interrupted, session, database>>

\* The watchdog thread interrupts the connection, whatever runs on it by now.
Interrupt(q) ==
  /\ watch[q] = "due"
  /\ watch' = [watch EXCEPT ![q] = "fired"]
  /\ interrupted' = TRUE
  /\ UNCHANGED <<chosen, stmt, pc, rows, left, result, alone, handler, mutex, session, database>>

\* done.send(()) and watchdog.join(): a watchdog still waiting ends without
\* an interrupt; one whose deadline has passed interrupts first.
Joined_Detached(c) == pc[c] = "join"    \* mutant: the thread is told, and not joined
Joined(c) == c \in Queries => watch[c] # "due"

\* The answer: sqlite takes the handler out and lets the mutex go, libsql
\* joins its watchdog first.
Answer(c) ==
  /\ pc[c] = "join"
  /\ Joined(c)
  /\ pc' = [pc EXCEPT ![c] = "end"]
  /\ watch' = [q \in Queries |-> IF q = c /\ watch[q] = "waiting" THEN "quiet" ELSE watch[q]]
  /\ rows' = [q \in Queries |-> IF q = c THEN 0 ELSE rows[q]]
  /\ left' = [k \in Catalogs |-> IF k = c THEN 0 ELSE left[k]]
  /\ mutex' = IF engine = "sqlite" THEN NoCall ELSE mutex
  /\ handler' = IF engine = "sqlite" /\ c \in Queries THEN NoCall ELSE handler
  /\ UNCHANGED <<chosen, stmt, result, alone, interrupted, session, database>>

\* What the caller is told. The result counts before the watchdog does.
Outcome(q) ==
  CASE pc[q] # "end" -> "none"
    [] pc[q] = "end" /\ result[q] = "ok" -> "ok"
    [] pc[q] = "end" /\ engine = "sqlite" /\ result[q] # "ok" ->
         IF result[q] = "interrupted" THEN "timeout" ELSE "error"
    [] OTHER -> IF result[q] # "abandoned" /\ watch[q] = "quiet" THEN "error" ELSE "timeout"

Next ==
  \/ \E q \in Queries : \/ Query(q) \/ Pragma(q) \/ Row(q) \/ NextRow(q) \/ Abandon(q)
                        \/ Expire(q) \/ Interrupt(q)
  \/ \E k \in Catalogs : Catalog(k)
  \/ \E c \in Calls : Lock(c) \/ Start(c) \/ Finish(c) \/ Fail(c) \/ Interrupted(c) \/ Answer(c)
  \/ DropStream

Spec == Init /\ [][Next]_vars

-----------------------------------------------------------------------------
(* Safety.                                                                 *)

\* A read-only server changes nothing, although the guard lets statements
\* pass that begin like a read and write, and although a remote session
\* loses its pragma whenever its stream is dropped: all that is left is the
\* statement whose stream is dropped between its own pragma and it.
NoWrite == readOnly => pending \union kept \subseteq unguarded

\* A call that had the server for itself is interrupted by its own deadline
\* only: no watchdog and no handler of an earlier call is left behind.
OwnDeadline ==
  \A c \in Calls : result[c] = "interrupted" /\ alone[c] =>
    c \in Queries /\ watch[c] = "fired"

\* The connection and the watchdogs of all calls: typed, and each watchdog
\* stops its own call.
WatchdogsOK == TypeOK /\ OwnDeadline

\* The answer tells what became of a write. Reported as done it is in the
\* database for good; on a local libSQL file only if its call had the
\* connection for itself, for otherwise it may share its transaction with a
\* statement that is interrupted; and in write mode not if a client's BEGIN
\* was open, whose end decides. On a local file who is told of an error or a
\* timeout has changed nothing (unless the statement asked to keep what it did
\* before it failed): a statement that was done when its deadline passed is
\* reported as done. A remote server may have done what fails on its way back.
HonestAnswer ==
  \A q \in writing :
    /\ Outcome(q) = "ok" /\ (engine # "libsql" \/ alone[q]) =>
         q \in kept \/ (~readOnly /\ q \in within)
    /\ Outcome(q) \in {"error", "timeout"} /\ engine # "remote" /\ stmt[q] = "write" =>
         q \notin pending \union kept

-----------------------------------------------------------------------------
(* Liveness. Threads and tasks run, timers fire, an interrupted statement  *)
(* ends. A query's statement may never end by itself; a catalog read does. *)

\* The next step of the thread or task of a call.
Proceed(c) ==
  \/ Lock(c) \/ Start(c) \/ Interrupted(c) \/ Answer(c)
  \/ c \in Queries /\ (Pragma(c) \/ NextRow(c))
  \/ c \in Catalogs /\ Finish(c)

Fairness ==
  /\ \A c \in Calls : WF_vars(Proceed(c))
  /\ \A q \in Queries : WF_vars(Abandon(q)) /\ WF_vars(Expire(q)) /\ WF_vars(Interrupt(q))

FairSpec == Spec /\ Fairness

\* On sqlite, and on a remote database, every call returns, however many of
\* the statements are stuck, in whatever order they get the mutex. On a local
\* libSQL file, too, a query whose statement starts before its deadline does.
CallsReturn ==
  /\ \A c \in Calls : (pc[c] # "idle" /\ engine # "libsql") ~> (pc[c] = "end")
  /\ \A q \in Queries : (pc[q] = "run" /\ watch[q] = "waiting") ~> (pc[q] = "end")
=============================================================================
