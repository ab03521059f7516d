------------------------------- MODULE PgPool -------------------------------
(***************************************************************************)
(* The TypeScript Postgres adapter (postgres/typescript/src/adapter.ts),   *)
(* which takes a client from a pool for each call, and the Python one      *)
(* (postgres/python adapter.py), which has one connection and serves one   *)
(* call at a time. In read-only mode both run each statement between BEGIN *)
(* READ ONLY and ROLLBACK.                                                 *)
(*                                                                         *)
(* pg's pool and the Postgres sessions are external, modelled from how the *)
(* adapters use them: waiters get clients in the order they asked;         *)
(* pool.query drops the client it used on an error, release(error) drops   *)
(* the client it is given. A request and its answer are one step, for      *)
(* nobody else uses the client meanwhile.                                  *)
(*                                                                         *)
(* Left out: rows, types and the row cap; DSN handling.                    *)
(***************************************************************************)
EXTENDS Integers, Sequences, FiniteSets

CONSTANTS Queries,      \* execute_sql calls
          Catalogs,     \* list_tables / describe_table calls
          PoolSize,     \* max of the pool (4 in the code)
          MaxLosses     \* bound: connections lost in a behaviour

Calls == Queries \union Catalogs

ASSUME CallsAssumption == Queries \cap Catalogs = {}
ASSUME BoundsAssumption == PoolSize \in Nat \ {0} /\ MaxLosses \in Nat

Clients == 1..PoolSize
NoClient == 0

\* "bad" fails; "write" is a write the SQL guard did not see; "flip" is
\* SELECT set_config('default_transaction_read_only', 'off', false). "begin"
\* and "end" (COMMIT or ROLLBACK) pass the guard in write mode only.
Control == {"begin", "end"}
Statements == {"read", "bad", "write", "flip"} \union Control

VARIABLES
  \* the adapter
  pooled,    \* TRUE: the TypeScript adapter; FALSE: the Python one
  readOnly,  \* guardrails.read_only
  up,        \* FALSE once the server process ended
  pc,        \* what each call awaits
  stmt,      \* the statement of each query
  left,      \* catalog reads still to do
  client,    \* the client each call holds
  kept,      \* what the statement gave, kept over the ROLLBACK
  status,
  \* the pool
  queue,     \* calls that wait for a client, in order
  place,     \* each client: "absent", "idle", "busy"
  \* the connections and their Postgres sessions
  losses,
  lost,      \* clients whose connection is gone
  tx,        \* "none", "ro" (BEGIN READ ONLY), "rw" (a client's BEGIN), "failed"
  default,   \* default_transaction_read_only of the session
  saved,     \* the value a rollback restores
  held,      \* queries whose write is in the session's open transaction
  within,    \* queries whose write was in a client's, open or not any more
  written    \* queries whose write was committed

callVars == <<stmt, left, client, kept, status>>
sessionVars == <<tx, default, saved, held, within, written>>
modeVars == <<pooled, readOnly>>
vars == <<pooled, readOnly, up, pc, stmt, left, client, kept, status, queue, place,
          losses, lost, tx, default, saved, held, within, written>>

Outcomes == {"ok", "error", "lost"}

TypeOK ==
  /\ pooled \in BOOLEAN /\ readOnly \in BOOLEAN /\ up \in BOOLEAN
  /\ pc \in [Calls -> {"idle", "connect", "begin", "run", "rollback", "catalog", "end"}]
  /\ stmt \in [Queries -> Statements \union {"none"}]
  /\ left \in [Catalogs -> 0..3]
  /\ client \in [Calls -> Clients \union {NoClient}]
  /\ kept \in [Queries -> Outcomes \union {"none"}]
  /\ status \in [Calls -> Outcomes \union {"none"}]
  /\ queue \in Seq(Calls)
  /\ place \in [Clients -> {"absent", "idle", "busy"}]
  /\ losses \in 0..MaxLosses
  /\ lost \subseteq Clients
  /\ tx \in [Clients -> {"none", "ro", "rw", "failed"}]
  /\ default \in [Clients -> BOOLEAN]
  /\ saved \in [Clients -> BOOLEAN]
  /\ held \in [Clients -> SUBSET Queries]
  /\ within \subseteq Queries
  /\ written \subseteq Queries

\* connect(): the SELECT 1 has left one client behind.
Init ==
  /\ pooled \in BOOLEAN
  /\ readOnly \in BOOLEAN
  /\ up = TRUE
  /\ pc = [q \in Calls |-> "idle"]
  /\ stmt = [q \in Queries |-> "none"]
  /\ left = [k \in Catalogs |-> 0]
  /\ client = [q \in Calls |-> NoClient]
  /\ kept = [q \in Queries |-> "none"]
  /\ status = [q \in Calls |-> "none"]
  /\ queue = <<>>
  /\ place = [c \in Clients |-> IF c = 1 THEN "idle" ELSE "absent"]
  /\ losses = 0
  /\ lost = {}
  /\ tx = [c \in Clients |-> "none"]
  /\ default = [c \in Clients |-> readOnly]
  /\ saved = [c \in Clients |-> readOnly]
  /\ held = [c \in Clients |-> {}]
  /\ within = {}
  /\ written = {}

-----------------------------------------------------------------------------
(* Clients.                                                                *)

\* A Python handler runs to its end before the next one starts.
MayBegin == up /\ (pooled \/ \A q \in Calls : pc[q] \in {"idle", "end"})

Connect(q) == /\ pc' = [pc EXCEPT ![q] = "connect"]
              /\ queue' = Append(queue, q)

\* An idle client is preferred to a new one; Python has its only one.
Idle(c) == place[c] = "idle"
Fresh(c) == pooled /\ place[c] = "absent" /\ \A d \in Clients : ~Idle(d)

Release_Broken(c, broken) == place' = [place EXCEPT ![c] = "idle"]    \* mutant: release()
Release_OnSuccess(c, broken) ==    \* mutant: a client that failed is never released
  place' = [place EXCEPT ![c] = IF broken THEN "busy" ELSE "idle"]
\* client.release(broken); a broken client leaves the pool. Python keeps its
\* connection whatever became of it.
Release(c, broken) ==
  place' = [place EXCEPT ![c] = IF pooled /\ broken THEN "absent" ELSE "idle"]

\* Return or throw.
Settle(q, s) == /\ status' = [status EXCEPT ![q] = s]
                /\ pc' = [pc EXCEPT ![q] = "end"]
                /\ client' = [client EXCEPT ![q] = NoClient]

FirstRequest(q) == IF q \in Catalogs THEN "catalog" ELSE IF readOnly THEN "begin" ELSE "run"

\* The first waiter gets a client. A new one may not connect.
Take(q, c) ==
  /\ up
  /\ queue # <<>> /\ q = Head(queue)
  /\ queue' = Tail(queue)
  /\ \/ /\ Idle(c)
        /\ place' = [place EXCEPT ![c] = "busy"]
        /\ client' = [client EXCEPT ![q] = c]
        /\ pc' = [pc EXCEPT ![q] = FirstRequest(q)]
        /\ UNCHANGED <<status, lost, tx, default, saved, held>>
     \/ /\ Fresh(c)
        /\ place' = [place EXCEPT ![c] = "busy"]
        /\ client' = [client EXCEPT ![q] = c]
        /\ pc' = [pc EXCEPT ![q] = FirstRequest(q)]
        /\ lost' = lost \ {c}
        /\ tx' = [tx EXCEPT ![c] = "none"]
        /\ default' = [default EXCEPT ![c] = readOnly]
        /\ saved' = [saved EXCEPT ![c] = readOnly]
        /\ held' = [held EXCEPT ![c] = {}]
        /\ UNCHANGED status
     \/ /\ Fresh(c)
        /\ Settle(q, "error")
        /\ UNCHANGED <<place, lost, tx, default, saved, held>>
  /\ UNCHANGED <<modeVars, up, stmt, left, kept, losses, within, written>>

-----------------------------------------------------------------------------
(* The calls.                                                              *)

Query(q) ==
  /\ MayBegin
  /\ pc[q] = "idle"
  /\ \E s \in Statements : /\ readOnly => s \notin Control
                          /\ stmt' = [stmt EXCEPT ![q] = s]
  /\ Connect(q)
  /\ UNCHANGED <<modeVars, up, left, client, kept, status, place, losses, lost, sessionVars>>

\* listTables is one read, describeTable three.
Catalog(k) ==
  /\ MayBegin
  /\ pc[k] = "idle"
  /\ \E n \in {1, 3} : left' = [left EXCEPT ![k] = n]
  /\ Connect(k)
  /\ UNCHANGED <<modeVars, up, stmt, client, kept, status, place, losses, lost, sessionVars>>

Begin_Not(q) ==    \* mutant: the session setting alone is relied upon
  /\ up
  /\ pc[q] = "begin"
  /\ pc' = [pc EXCEPT ![q] = "run"]
  /\ UNCHANGED <<modeVars, up, callVars, queue, place, losses, lost, sessionVars>>

\* BEGIN READ ONLY. In TypeScript it is inside of the try, so a failure of it
\* leads to the ROLLBACK, too; in Python it is raised.
Begin(q) ==
  LET c == client[q] IN
    /\ up
    /\ pc[q] = "begin"
    /\ \/ /\ c \notin lost
          /\ tx[c] = "none"
          /\ tx' = [tx EXCEPT ![c] = "ro"]
          /\ saved' = [saved EXCEPT ![c] = default[c]]
          /\ pc' = [pc EXCEPT ![q] = "run"]
          /\ UNCHANGED <<kept, status, client, place>>
       \/ /\ c \in lost
          /\ pooled
          /\ kept' = [kept EXCEPT ![q] = "lost"]
          /\ pc' = [pc EXCEPT ![q] = "rollback"]
          /\ UNCHANGED <<status, client, place, tx, saved>>
       \/ /\ c \in lost
          /\ ~pooled
          /\ Settle(q, "lost")
          /\ Release(c, TRUE)
          /\ UNCHANGED <<kept, tx, saved>>
    /\ UNCHANGED <<modeVars, up, stmt, left, queue, losses, lost, default, held, within, written>>

\* An aborted transaction refuses everything but its end; a write is refused
\* in a read-only transaction, and outside of any by the session's default.
Refused(q, c) ==
  \/ stmt[q] = "bad"
  \/ tx[c] = "failed" /\ stmt[q] # "end"
  \/ stmt[q] = "write" /\ (tx[c] = "ro" \/ (tx[c] = "none" /\ default[c]))

\* An error aborts the transaction it happens in.
Abort(c) ==
  /\ tx' = [tx EXCEPT ![c] = IF @ = "none" THEN "none" ELSE "failed"]
  /\ held' = [held EXCEPT ![c] = {}]
  /\ UNCHANGED <<default, saved, within, written>>

\* A write in a client's transaction waits for its end; any other is committed.
Effect(q, c) ==
  /\ default' = [default EXCEPT ![c] = @ /\ stmt[q] # "flip"]
  /\ IF stmt[q] = "write" /\ tx[c] = "rw"
       THEN /\ held' = [held EXCEPT ![c] = @ \union {q}]
            /\ within' = within \union {q}
            /\ UNCHANGED written
       ELSE /\ written' = IF stmt[q] = "write" THEN written \union {q} ELSE written
            /\ UNCHANGED <<held, within>>
  /\ UNCHANGED <<tx, saved>>

\* A client's BEGIN (in a transaction, only a warning), and its COMMIT or
\* ROLLBACK (outside of one, only a warning).
BeginClient(c) ==
  /\ tx' = [tx EXCEPT ![c] = IF @ = "none" THEN "rw" ELSE @]
  /\ saved' = [saved EXCEPT ![c] = IF tx[c] = "none" THEN default[c] ELSE @]
  /\ UNCHANGED <<default, held, within, written>>

EndClient(c) ==
  /\ tx' = [tx EXCEPT ![c] = "none"]
  /\ held' = [held EXCEPT ![c] = {}]
  /\ \/ /\ default' = [default EXCEPT ![c] = IF tx[c] = "none" THEN @ ELSE saved[c]]
        /\ UNCHANGED written
     \/ tx[c] # "failed" /\ written' = written \union held[c] /\ UNCHANGED default
  /\ UNCHANGED <<saved, within>>

\* The server performs the statement of q on c.
Perform(q, c) ==
  \/ Refused(q, c) /\ Abort(c)
  \/ ~Refused(q, c) /\ stmt[q] \notin Control /\ Effect(q, c)
  \/ ~Refused(q, c) /\ stmt[q] = "begin" /\ BeginClient(c)
  \/ ~Refused(q, c) /\ stmt[q] = "end" /\ EndClient(c)

\* The statement: what it gave is kept until the ROLLBACK is done, or, with
\* writes allowed, returned at once (pool.query).
Run(q) ==
  LET c == client[q]
      outcome == IF c \in lost THEN "lost" ELSE IF Refused(q, c) THEN "error" ELSE "ok"
  IN
    /\ up
    /\ pc[q] = "run"
    /\ IF c \in lost THEN UNCHANGED sessionVars ELSE Perform(q, c)
    /\ \/ /\ readOnly
          /\ kept' = [kept EXCEPT ![q] = outcome]
          /\ pc' = [pc EXCEPT ![q] = "rollback"]
          /\ UNCHANGED <<status, client, place>>
       \/ /\ ~readOnly
          /\ Settle(q, outcome)
          /\ Release(c, outcome # "ok")
          /\ UNCHANGED kept
    /\ UNCHANGED <<modeVars, up, stmt, left, queue, losses, lost>>

\* What the call returns: in TypeScript what the statement gave, whatever
\* became of the ROLLBACK; in Python a failed ROLLBACK fails the call, unless
\* it has an error to report already.
Result_Rollback(q, c) == IF c \in lost THEN "lost" ELSE "ok"    \* mutant
Result(q, c) == IF ~pooled /\ c \in lost /\ kept[q] = "ok" THEN "lost" ELSE kept[q]

Rollback_OnError(q) ==    \* mutant: no ROLLBACK after an error
  LET c == client[q] IN
    /\ up
    /\ pc[q] = "rollback"
    /\ Settle(q, kept[q])
    /\ Release(c, c \in lost)
    /\ tx' = [tx EXCEPT ![c] = IF kept[q] = "ok" THEN "none" ELSE @]
    /\ default' = [default EXCEPT ![c] = IF tx[c] = "none" THEN @ ELSE saved[c]]
    /\ UNCHANGED <<modeVars, up, stmt, left, kept, queue, losses, lost, saved, held, within, written>>

\* ROLLBACK, on every path, and the client goes back.
Rollback(q) ==
  LET c == client[q] IN
    /\ up
    /\ pc[q] = "rollback"
    /\ Settle(q, Result(q, c))
    /\ Release(c, c \in lost)
    /\ tx' = [tx EXCEPT ![c] = "none"]
    /\ default' = [default EXCEPT ![c] = IF tx[c] = "none" THEN @ ELSE saved[c]]
    /\ UNCHANGED <<modeVars, up, stmt, left, kept, queue, losses, lost, saved, held, within, written>>

More(k) == left[k] > 1

\* A catalog read, on a client of its own (Python: on the connection); it may
\* fail. An unknown table ends the call after the first read.
CatalogRead(k) ==
  LET c == client[k]
      Ends(outcome) ==
        /\ Release(c, outcome # "ok")
        /\ \/ /\ outcome = "ok" /\ More(k)
              /\ left' = [left EXCEPT ![k] = @ - 1]
              /\ Connect(k)
              /\ client' = [client EXCEPT ![k] = NoClient]
              /\ UNCHANGED status
           \/ /\ outcome = "ok" /\ left[k] = 3
              /\ Settle(k, "error")
              /\ UNCHANGED <<left, queue>>
           \/ /\ outcome # "ok" \/ left[k] = 1
              /\ Settle(k, outcome)
              /\ UNCHANGED <<left, queue>>
  IN
    /\ up
    /\ pc[k] = "catalog"
    /\ \/ c \in lost /\ Ends("lost") /\ UNCHANGED sessionVars
       \/ c \notin lost /\ Ends("error") /\ Abort(c)
       \/ c \notin lost /\ tx[c] # "failed" /\ Ends("ok") /\ UNCHANGED sessionVars
    /\ UNCHANGED <<modeVars, up, stmt, kept, losses, lost>>

-----------------------------------------------------------------------------
(* Failures.                                                               *)

\* The connection of a client is lost: the session ends, and every request on
\* it fails. In TypeScript the loss is also an 'error' event nobody listens
\* to, of the pool for an idle client, of the client itself for another, and
\* may end the process.
Lose(c) ==
  /\ up
  /\ losses < MaxLosses
  /\ place[c] # "absent" /\ c \notin lost
  /\ losses' = losses + 1
  /\ lost' = lost \union {c}
  /\ tx' = [tx EXCEPT ![c] = "none"]
  /\ held' = [held EXCEPT ![c] = {}]
  /\ \/ pooled /\ up' = FALSE
     \/ (~pooled \/ place[c] = "busy") /\ UNCHANGED up
  /\ UNCHANGED <<modeVars, pc, callVars, queue, place, default, saved, within, written>>

Next ==
  \/ \E q \in Queries : Query(q) \/ Begin(q) \/ Run(q) \/ Rollback(q)
  \/ \E k \in Catalogs : Catalog(k) \/ CatalogRead(k)
  \/ \E q \in Calls, c \in Clients : Take(q, c)
  \/ \E c \in Clients : Lose(c)

Spec == Init /\ [][Next]_vars

-----------------------------------------------------------------------------
(* Safety.                                                                 *)

\* Read-only mode: no write is ever committed, whatever was run before it on
\* whatever client, and whatever connections were lost.
NoWrite == readOnly => written = {}

\* In read-only mode, who takes an idle client finds it outside of any
\* transaction and with the settings it was connected with ("a client stuck in
\* a transaction is dropped", "always rolled back, which also reverts any
\* setting"). In write mode it may be in a transaction another call began; the
\* pool never hands out one that is aborted. (Python's one connection stays in
\* an aborted transaction until a call ends it.)
CleanIdle ==
  \A c \in Clients : (Idle(c) /\ c \notin lost) =>
    /\ readOnly => tx[c] = "none" /\ default[c]
    /\ pooled => tx[c] # "failed"

\* The clients the calls share: typed, and clean whenever they are idle.
ClientsOK == TypeOK /\ CleanIdle

\* A success is the statement's own: it ran, and what it wrote is committed, or
\* was in a transaction a client had begun on that session (in write mode):
\* its end decides.
HonestResult ==
  \A q \in Queries : status[q] = "ok" =>
    /\ stmt[q] # "bad"
    /\ stmt[q] = "write" => q \in written \/ (~readOnly /\ q \in within)

\* A lost connection costs the call that held it and no other: it leaves the
\* pool with that call. (Python keeps it, and fails from then on.)
LossCostsOneCall ==
  pooled => Cardinality({q \in Calls : status[q] = "lost"}) <= losses

-----------------------------------------------------------------------------
(* Liveness. Promises are resumed and Postgres answers (statement_timeout  *)
(* ends a long statement); a client that is released goes to a waiter.     *)

Fairness ==
  /\ \A q \in Queries : WF_vars(Begin(q)) /\ WF_vars(Run(q)) /\ WF_vars(Rollback(q))
  /\ \A k \in Catalogs : WF_vars(CatalogRead(k))
  /\ \A q \in Calls : WF_vars(\E c \in Clients : Take(q, c))

FairSpec == Spec /\ Fairness

\* Every call returns while the server lives, however few clients there are.
CallsReturn == \A q \in Calls : (pc[q] # "idle") ~> (pc[q] = "end" \/ ~up)
=============================================================================
