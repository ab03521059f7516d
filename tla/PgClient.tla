------------------------------ MODULE PgClient ------------------------------
(***************************************************************************)
(* The Rust Postgres adapter (postgres/rust/src/main.rs): every session of *)
(* the server shares one pipelined client, so one Postgres session. query  *)
(* holds a mutex over its requests; catalog reads do not. A call may be    *)
(* cancelled wherever it awaits (its future is dropped): its lock is then  *)
(* released, and what it already sent still runs.                          *)
(*                                                                         *)
(* The Postgres session is external, modelled from how the adapter uses    *)
(* it: it serves requests in the order they were sent; an error inside a   *)
(* transaction aborts it, and an aborted transaction refuses everything    *)
(* but its end; rolling back reverts settings.                             *)
(*                                                                         *)
(* Left out: rows, types and the row cap; the loss of the connection (the  *)
(* adapter has no way back from it). A catalog read's prepare and execute  *)
(* are one request.                                                        *)
(***************************************************************************)
EXTENDS Integers, Sequences, FiniteSets

CONSTANTS Queries,      \* execute_sql calls
          Catalogs,     \* list_tables / describe_table calls
          Statements,   \* what the statements of the queries may be
          MaxCancels    \* bound: calls cancelled in a behaviour

Calls == Queries \union Catalogs
NoCall == "nobody"

ASSUME CallsAssumption == Queries \cap Catalogs = {} /\ NoCall \notin Calls
ASSUME BoundsAssumption == MaxCancels \in Nat

\* "bad" does not prepare; "fail" prepares and fails when it runs; "write"
\* is a write the SQL guard did not see; "flip" is
\* SELECT set_config('default_transaction_read_only', 'off', false). "begin"
\* and "end" (COMMIT or ROLLBACK) are no reads by their first word: the guard
\* lets a client's transaction pass in write mode only.
Control == {"begin", "end"}

ASSUME StatementsAssumption ==
  Statements \subseteq {"read", "bad", "fail", "write", "flip"} \union Control

VARIABLES
  \* the adapter
  readOnly,  \* guardrails.read_only, set at launch
  pc,        \* what each call awaits
  stmt,      \* the statement of each query
  left,      \* catalog reads a catalog call still has to do
  lock,      \* holder of PostgresAdapter.lock
  reply,     \* the answer to each call's last request, "none" until it comes
  kept,      \* the result of simple_query, kept over the ROLLBACK
  status,    \* what each call returned
  cancels,
  \* the connection and the Postgres session
  wire,      \* requests sent and not yet served
  tx,        \* "none", "ro" (BEGIN READ ONLY), "rw" (a client's BEGIN),
             \* "failed" (aborted)
  owner,     \* the call whose BEGIN opened tx
  spoiler,   \* the call whose error aborted tx
  default,   \* default_transaction_read_only of the session
  saved,     \* the value a rollback restores
  held,      \* queries whose write is in the client's open transaction
  within,    \* queries whose write was in one, open or not any more
  written    \* queries whose write was committed

sessionVars == <<tx, owner, spoiler, default, saved, held, within, written>>
vars == <<readOnly, pc, stmt, left, lock, reply, kept, status, cancels, wire,
          tx, owner, spoiler, default, saved, held, within, written>>

Answers == {"ok", "error", "aborted"}

TypeOK ==
  /\ readOnly \in BOOLEAN
  /\ pc \in [Calls -> {"idle", "lock", "prepare", "begin", "run", "rollback", "catalog", "end"}]
  /\ stmt \in [Queries -> Statements \union {"none"}]
  /\ left \in [Catalogs -> 0..3]
  /\ lock \in Queries \union {NoCall}
  /\ reply \in [Calls -> Answers \union {"none"}]
  /\ kept \in [Queries -> Answers \union {"none"}]
  /\ status \in [Calls -> Answers \union {"none", "cancelled"}]
  /\ cancels \in 0..MaxCancels
  /\ wire \in Seq([from : Calls, ask : {"prepare", "begin", "run", "rollback", "catalog"}])
  /\ tx \in {"none", "ro", "rw", "failed"}
  /\ owner \in Queries \union {NoCall}
  /\ spoiler \in Calls \union {NoCall}
  /\ default \in BOOLEAN
  /\ saved \in BOOLEAN
  /\ held \subseteq Queries
  /\ within \subseteq Queries
  /\ written \subseteq Queries

\* connect(): default_transaction_read_only is a startup parameter.
Init ==
  /\ readOnly \in BOOLEAN
  /\ pc = [q \in Calls |-> "idle"]
  /\ stmt = [q \in Queries |-> "none"]
  /\ left = [k \in Catalogs |-> 0]
  /\ lock = NoCall
  /\ reply = [q \in Calls |-> "none"]
  /\ kept = [q \in Queries |-> "none"]
  /\ status = [q \in Calls |-> "none"]
  /\ cancels = 0
  /\ wire = <<>>
  /\ tx = "none"
  /\ owner = NoCall
  /\ spoiler = NoCall
  /\ default = readOnly
  /\ saved = readOnly
  /\ held = {}
  /\ within = {}
  /\ written = {}

-----------------------------------------------------------------------------
(* The adapter.                                                            *)

\* Send a request and await its answer.
Ask(q, request) ==
  /\ wire' = Append(wire, [from |-> q, ask |-> request])
  /\ pc' = [pc EXCEPT ![q] = request]
  /\ reply' = [reply EXCEPT ![q] = "none"]

\* Return: the guard of the lock is dropped.
Finish(q, s) ==
  /\ status' = [status EXCEPT ![q] = s]
  /\ pc' = [pc EXCEPT ![q] = "end"]
  /\ lock' = IF lock = q THEN NoCall ELSE lock
  /\ UNCHANGED <<wire, reply>>

Answered(q, request) == pc[q] = request /\ reply[q] # "none"

Query(q) ==
  /\ pc[q] = "idle"
  /\ \E s \in Statements : /\ readOnly => s \notin Control
                          /\ stmt' = [stmt EXCEPT ![q] = s]
  /\ pc' = [pc EXCEPT ![q] = "lock"]
  /\ UNCHANGED <<readOnly, left, lock, reply, kept, status, cancels, wire, sessionVars>>

LockFree_Always == TRUE    \* mutant: query takes no lock
LockFree == lock = NoCall

\* self.lock.lock().await, then prepare.
Acquire(q) ==
  /\ pc[q] = "lock"
  /\ LockFree
  /\ lock' = q
  /\ Ask(q, "prepare")
  /\ UNCHANGED <<readOnly, stmt, left, kept, status, cancels, sessionVars>>

Prepared_NoBegin(q) ==    \* mutant: the session's setting alone is relied upon
  /\ Answered(q, "prepare")
  /\ \/ reply[q] = "ok" /\ Ask(q, "run") /\ UNCHANGED <<lock, status>>
     \/ reply[q] # "ok" /\ Finish(q, reply[q])
  /\ UNCHANGED <<readOnly, stmt, left, kept, cancels, sessionVars>>

\* A query that prepares goes on, read-only in a transaction of its own.
Prepared(q) ==
  /\ Answered(q, "prepare")
  /\ \/ reply[q] = "ok" /\ Ask(q, IF readOnly THEN "begin" ELSE "run") /\ UNCHANGED <<lock, status>>
     \/ reply[q] # "ok" /\ Finish(q, reply[q])
  /\ UNCHANGED <<readOnly, stmt, left, kept, cancels, sessionVars>>

\* batch_execute("ROLLBACK; BEGIN READ ONLY") is done.
Begun(q) ==
  /\ Answered(q, "begin")
  /\ Ask(q, "run")
  /\ UNCHANGED <<readOnly, stmt, left, lock, kept, status, cancels, sessionVars>>

\* simple_query(sql) is done; in read-only mode roll back whatever it gave.
Ran(q) ==
  /\ Answered(q, "run")
  /\ \/ /\ readOnly
        /\ kept' = [kept EXCEPT ![q] = reply[q]]
        /\ Ask(q, "rollback")
        /\ UNCHANGED <<lock, status>>
     \/ /\ ~readOnly
        /\ Finish(q, reply[q])
        /\ UNCHANGED kept
  /\ UNCHANGED <<readOnly, stmt, left, cancels, sessionVars>>

RolledBack_Answer(q) ==    \* mutant: the ROLLBACK's answer is the result
  /\ Answered(q, "rollback")
  /\ Finish(q, reply[q])
  /\ UNCHANGED <<readOnly, stmt, left, kept, cancels, sessionVars>>

RolledBack(q) ==
  /\ Answered(q, "rollback")
  /\ Finish(q, kept[q])
  /\ UNCHANGED <<readOnly, stmt, left, kept, cancels, sessionVars>>

\* A catalog call has another read to do.
More(k) == left[k] > 1

\* list_tables is one read, describe_table three, without the lock.
Catalog(k) ==
  /\ pc[k] = "idle"
  /\ \E n \in {1, 3} : left' = [left EXCEPT ![k] = n]
  /\ Ask(k, "catalog")
  /\ UNCHANGED <<readOnly, stmt, lock, kept, status, cancels, sessionVars>>

\* The next read; or the end, on an error, after the last read, or after
\* the first one of describe_table when it finds no such table.
CatalogRead(k) ==
  /\ Answered(k, "catalog")
  /\ \/ /\ reply[k] = "ok" /\ More(k)
        /\ left' = [left EXCEPT ![k] = @ - 1]
        /\ Ask(k, "catalog")
        /\ UNCHANGED <<lock, status>>
     \/ /\ reply[k] = "ok" /\ left[k] = 3
        /\ Finish(k, "error")
        /\ UNCHANGED left
     \/ /\ reply[k] # "ok" \/ left[k] = 1
        /\ Finish(k, reply[k])
        /\ UNCHANGED left
  /\ UNCHANGED <<readOnly, stmt, kept, cancels, sessionVars>>

Cancel_KeepsLock(q) ==    \* mutant: the guard of the lock is not dropped
  /\ pc[q] \notin {"idle", "end"}
  /\ cancels < MaxCancels
  /\ cancels' = cancels + 1
  /\ status' = [status EXCEPT ![q] = "cancelled"]
  /\ pc' = [pc EXCEPT ![q] = "end"]
  /\ UNCHANGED <<readOnly, stmt, left, lock, kept, wire, reply, sessionVars>>

\* The client cancels the call, or its HTTP request goes away.
Cancel(q) ==
  /\ pc[q] \notin {"idle", "end"}
  /\ cancels < MaxCancels
  /\ cancels' = cancels + 1
  /\ Finish(q, "cancelled")
  /\ UNCHANGED <<readOnly, stmt, left, kept, sessionVars>>

-----------------------------------------------------------------------------
(* The Postgres session.                                                   *)

\* An error of q aborts the transaction it happens in; what was in it is lost.
Abort(q) ==
  /\ IF tx = "none"
       THEN UNCHANGED <<tx, spoiler, held>>
       ELSE tx' = "failed" /\ spoiler' = q /\ held' = {}
  /\ UNCHANGED <<owner, default, saved, within, written>>

\* ROLLBACK: back to the settings from before the transaction.
Revert == default' = IF tx = "none" THEN default ELSE saved

\* The session is in no transaction any more.
Leave == tx' = "none" /\ owner' = NoCall /\ spoiler' = NoCall /\ held' = {}

Answer(q, a) == reply' = [reply EXCEPT ![q] = a]

\* An aborted transaction refuses everything but its end.
Aborted(q) == tx = "failed" /\ stmt[q] # "end"

Prepare(q) ==
  \/ Aborted(q) /\ Answer(q, "aborted") /\ UNCHANGED sessionVars
  \/ ~Aborted(q) /\ stmt[q] = "bad" /\ Answer(q, "error") /\ Abort(q)
  \/ ~Aborted(q) /\ stmt[q] # "bad" /\ Answer(q, "ok") /\ UNCHANGED sessionVars

BeginReadOnly_NoRollback(q) ==    \* mutant: without the leading ROLLBACK
  /\ IF tx = "none"
       THEN tx' = "ro" /\ owner' = q /\ saved' = default
       ELSE UNCHANGED <<tx, owner, saved>>
  /\ Answer(q, "ok")
  /\ UNCHANGED <<spoiler, default, held, within, written>>

\* "ROLLBACK; BEGIN READ ONLY"
BeginReadOnly(q) ==
  /\ Revert
  /\ saved' = default'
  /\ tx' = "ro"
  /\ owner' = q
  /\ spoiler' = NoCall
  /\ held' = {}
  /\ Answer(q, "ok")
  /\ UNCHANGED <<within, written>>

\* A write is refused in a read-only transaction, and outside of one while
\* the session's default is read-only.
Refused(q) == \/ stmt[q] \in {"bad", "fail"}
              \/ stmt[q] = "write" /\ (tx = "ro" \/ (tx = "none" /\ default))

\* What a statement that succeeds does: a write in a client's transaction waits
\* for its end, any other is committed at once.
Effect(q) ==
  /\ default' = (default /\ stmt[q] # "flip")
  /\ IF stmt[q] = "write" /\ tx = "rw"
       THEN held' = held \union {q} /\ within' = within \union {q} /\ UNCHANGED written
       ELSE /\ written' = IF stmt[q] = "write" THEN written \union {q} ELSE written
            /\ UNCHANGED <<held, within>>
  /\ UNCHANGED <<tx, owner, spoiler, saved>>

\* A client's BEGIN: only a warning when the session is in a transaction.
BeginClient(q) ==
  /\ IF tx = "none"
       THEN tx' = "rw" /\ owner' = q /\ saved' = default
       ELSE UNCHANGED <<tx, owner, saved>>
  /\ UNCHANGED <<spoiler, default, held, within, written>>

\* A client's COMMIT or ROLLBACK; outside of a transaction, only a warning.
EndClient ==
  /\ Leave
  /\ \/ Revert /\ UNCHANGED written
     \/ tx # "failed" /\ written' = written \union held /\ UNCHANGED default
  /\ UNCHANGED <<saved, within>>

Run(q) ==
  \/ Aborted(q) /\ Answer(q, "aborted") /\ UNCHANGED sessionVars
  \/ ~Aborted(q) /\ Refused(q) /\ Answer(q, "error") /\ Abort(q)
  \/ /\ ~Aborted(q)
     /\ ~Refused(q)
     /\ Answer(q, "ok")
     /\ \/ stmt[q] \notin Control /\ Effect(q)
        \/ stmt[q] = "begin" /\ BeginClient(q)
        \/ stmt[q] = "end" /\ EndClient

Rollback(q) ==
  /\ Revert
  /\ Leave
  /\ Answer(q, "ok")
  /\ UNCHANGED <<saved, within, written>>

\* A catalog read may fail (statement_timeout, no privilege), and an error of
\* it aborts whatever transaction the session is in.
ReadCatalog(k) ==
  \/ tx = "failed" /\ Answer(k, "aborted") /\ UNCHANGED sessionVars
  \/ tx # "failed" /\ Answer(k, "ok") /\ UNCHANGED sessionVars
  \/ tx # "failed" /\ Answer(k, "error") /\ Abort(k)

\* The answer to a call that was cancelled goes nowhere: its pc is "end".
Serve ==
  /\ wire # <<>>
  /\ wire' = Tail(wire)
  /\ LET q == Head(wire).from
         ask == Head(wire).ask
     IN \/ ask = "prepare" /\ Prepare(q)
        \/ ask = "begin" /\ BeginReadOnly(q)
        \/ ask = "run" /\ Run(q)
        \/ ask = "rollback" /\ Rollback(q)
        \/ ask = "catalog" /\ ReadCatalog(q)
  /\ UNCHANGED <<readOnly, pc, stmt, left, lock, kept, status, cancels>>

Step(q) == Query(q) \/ Acquire(q) \/ Prepared(q) \/ Begun(q) \/ Ran(q) \/ RolledBack(q)

Next ==
  \/ \E q \in Queries : Step(q)
  \/ \E k \in Catalogs : Catalog(k) \/ CatalogRead(k)
  \/ \E q \in Calls : Cancel(q)
  \/ Serve

Spec == Init /\ [][Next]_vars

-----------------------------------------------------------------------------
(* Safety.                                                                 *)

\* Read-only mode: no write is ever committed, whatever statements, calls of
\* other sessions and cancellations came before it.
NoWrite == readOnly => written = {}

\* Outside of a transaction the session has the settings it was started with:
\* what a statement changed went away with its transaction ("always rolled
\* back, which also reverts any setting the query changed").
SettingsReverted == (readOnly /\ tx = "none") => default

\* The session all calls share: its parts have their types, and its settings
\* last for a transaction only.
SessionOK == TypeOK /\ SettingsReverted

\* In read-only mode a statement runs in the transaction its own call opened,
\* never in one another call left behind, and never outside of one. What can
\* come between is a catalog read, which takes no lock: an error of it aborts
\* the transaction, and nothing else does.
OwnTransaction ==
  [][(readOnly /\ wire # <<>> /\ wire' = Tail(wire) /\ Head(wire).ask = "run")
       => /\ owner = Head(wire).from
          /\ tx = "ro" \/ (tx = "failed" /\ spoiler \in Catalogs)]_vars

\* A success is the statement's own: it ran without error, and what it wrote
\* is committed, or was in a transaction a client had opened on the session
\* (in write mode): its end decides. The result is kept over the ROLLBACK that
\* follows it.
HonestResult ==
  \A q \in Queries : status[q] = "ok" =>
    /\ stmt[q] \notin {"bad", "fail"}
    /\ stmt[q] = "write" => q \in written \/ (~readOnly /\ q \in within)

-----------------------------------------------------------------------------
(* What comments of the repository say, and the code does not keep.        *)

\* "The leading ROLLBACK closes a transaction left open by a cancelled call":
\* so no query is refused at its start because of somebody else's aborted
\* transaction.
QueryNotAborted ==
  readOnly => \A q \in Queries : pc[q] = "prepare" => reply[q] # "aborted"

-----------------------------------------------------------------------------
(* Liveness. The runtime polls every task, Postgres answers every request  *)
(* (statement_timeout ends the long ones), and the lock is handed on.      *)

Fairness ==
  /\ WF_vars(Serve)
  /\ \A q \in Queries :
       /\ SF_vars(Acquire(q))
       /\ WF_vars(Prepared(q)) /\ WF_vars(Begun(q)) /\ WF_vars(Ran(q)) /\ WF_vars(RolledBack(q))
  /\ \A k \in Catalogs : WF_vars(CatalogRead(k))

FairSpec == Spec /\ Fairness

\* Every call returns, also after others were cancelled holding the lock.
CallsReturn == \A q \in Calls : (pc[q] # "idle") ~> (pc[q] = "end")
=============================================================================
