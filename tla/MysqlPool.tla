----------------------------- MODULE MysqlPool -----------------------------
(***************************************************************************)
(* The MySQL / MariaDB adapters in Rust, TypeScript and Python: where      *)
(* their connections come from, and what a deadline does.                  *)
(*                                                                         *)
(*   rust        calls take connections from one pool. A query's deadline  *)
(*               covers the statement only, not the wait for a connection; *)
(*               at the deadline the call, still holding its connection,   *)
(*               takes a second one to send KILL QUERY.                    *)
(*   typescript  a pool, too. The driver answers the caller at the         *)
(*               deadline; the connection goes back when the statement is  *)
(*               done. Nothing is killed, and nothing is reset.            *)
(*   python      one connection, one call at a time. A read that times out *)
(*               closes the socket; the call connects again, sends KILL    *)
(*               QUERY and leaves the new connection to the next call.     *)
(*                                                                         *)
(* The drivers (mysql_async, mysql2, PyMySQL) and the server's threads are *)
(* external, modelled from how the adapters use them.                      *)
(*                                                                         *)
(* Left out: rows, types and the row cap; what a statement says; the loss  *)
(* of a pooled connection.                                                 *)
(***************************************************************************)
EXTENDS Integers, Sequences, FiniteSets, SequencesExt

CONSTANTS Queries,      \* execute_sql calls
          Catalogs,     \* list_tables / describe_table calls
          ReadOnly,     \* guardrails.read_only
          PoolSize,     \* the pool's limit; bound: connections Python makes
          MaxLosses     \* bound: how often Python's connection is lost

Calls == Queries \union Catalogs
NoCall == "nobody"
Setup == "SET SESSION TRANSACTION READ ONLY"

ASSUME CallsAssumption == Queries \cap Catalogs = {} /\ Calls \cap {NoCall, Setup} = {}
ASSUME PoolAssumption == PoolSize \in Nat \ {0} /\ ReadOnly \in BOOLEAN /\ MaxLosses \in Nat

Conns == 1..PoolSize
NoConn == 0

VARIABLES
  adapter,   \* the language
  \* the calls
  pc,        \* where each call is
  conn,      \* the connection each call holds; its id is what KILL QUERY names
  killer,    \* the second connection of a call that timed out
  left,      \* catalog reads still to do
  status,
  \* the pool
  queue,     \* get_conn() calls that wait, in order
  idle,      \* connections ready to be handed out
  dirty,     \* connections that came back and are not ready yet
  \* the driver
  made,      \* connections made so far
  commands,  \* mysql2: what waits in each connection's queue
  socket,    \* PyMySQL: the connection the socket belongs to, if any
  lost,      \* connections that broke
  \* the server
  thread,    \* the call whose statement each connection's thread runs
  readonly,  \* connections whose session has SET SESSION TRANSACTION READ ONLY
  killed,    \* calls whose statement KILL QUERY ended
  spared     \* calls that timed out and could not send their KILL QUERY

callVars == <<pc, conn, killer, left, status>>
poolVars == <<queue, idle, dirty>>
driverVars == <<made, commands, socket, lost>>
serverVars == <<thread, readonly, killed, spared>>
vars == <<adapter, callVars, poolVars, driverVars, serverVars>>

Rust == adapter = "rust"
TypeScript == adapter = "typescript"
Python == adapter = "python"

TypeOK ==
  /\ adapter \in {"rust", "typescript", "python"}
  /\ pc \in [Calls -> {"idle", "get", "run", "getKiller", "kill", "end"}]
  /\ conn \in [Calls -> Conns \union {NoConn}]
  /\ killer \in [Calls -> Conns \union {NoConn}]
  /\ left \in [Catalogs -> 0..3]
  /\ status \in [Calls -> {"none", "ok", "error", "timeout", "unreachable", "broken"}]
  /\ queue \in Seq(Calls)
  /\ idle \subseteq made /\ dirty \subseteq made /\ made \subseteq Conns
  /\ commands \in [Conns -> Seq(Calls \union {Setup})]
  /\ socket \in Conns \union {NoConn}
  /\ lost \subseteq made
  /\ thread \in [Conns -> Calls \union {NoCall}]
  /\ readonly \subseteq made
  /\ killed \subseteq Queries
  /\ spared \subseteq Queries

\* connect(). In Rust a connection that has not been made yet is as good as an
\* idle one, for setup runs when it is made; the others have made their first.
Init ==
  /\ adapter \in {"rust", "typescript", "python"}
  /\ pc = [q \in Calls |-> "idle"]
  /\ conn = [q \in Calls |-> NoConn]
  /\ killer = [q \in Calls |-> NoConn]
  /\ left = [k \in Catalogs |-> 0]
  /\ status = [q \in Calls |-> "none"]
  /\ queue = <<>>
  /\ made = IF Rust THEN Conns ELSE {1}
  /\ idle = IF Python THEN {} ELSE made
  /\ dirty = {}
  /\ commands = [c \in Conns |-> <<>>]
  /\ socket = IF Python THEN 1 ELSE NoConn
  /\ lost = {}
  /\ thread = [c \in Conns |-> NoCall]
  /\ readonly = IF ReadOnly THEN made ELSE {}
  /\ killed = {}
  /\ spared = {}

-----------------------------------------------------------------------------
(* The pools.                                                              *)

\* get_conn(), pool.query(): join the waiters.
Wait(q) == queue' = Append(queue, q)

Take_Stays(q, c) ==    \* mutant: the connection stays in the idle list
  /\ queue # <<>> /\ Head(queue) = q
  /\ queue' = Tail(queue)
  /\ c \in idle
  /\ idle' = idle

\* The first waiter takes connection c.
Take(q, c) ==
  /\ queue # <<>> /\ Head(queue) = q
  /\ queue' = Tail(queue)
  /\ c \in idle
  /\ idle' = idle \ {c}

\* The connections a call gives back when it returns.
Held(q) == {conn[q], killer[q]} \ {NoConn}

\* What a new session starts with (mysql_async's setup, PyMySQL's
\* init_command): the statement runs before anything else.
SetUp(c) == IF ReadOnly THEN readonly \union {c} ELSE readonly

\* A connection that came back is idle again when its thread is done. Rust
\* drains and resets it, which clears the session's settings, and runs setup
\* once more; TypeScript hands it on as it is.
Recycle_Init(c) ==    \* mutant: the statements are `init`, not `setup`
  /\ c \in dirty
  /\ thread[c] = NoCall
  /\ dirty' = dirty \ {c}
  /\ idle' = idle \union {c}
  /\ readonly' = IF Rust THEN readonly \ {c} ELSE readonly
  /\ UNCHANGED <<adapter, callVars, queue, driverVars, thread, killed, spared>>

Recycle(c) ==
  /\ c \in dirty
  /\ thread[c] = NoCall
  /\ dirty' = dirty \ {c}
  /\ idle' = idle \union {c}
  /\ readonly' = IF Rust THEN SetUp(c) ELSE readonly
  /\ UNCHANGED <<adapter, callVars, queue, driverVars, thread, killed, spared>>

-----------------------------------------------------------------------------
(* PyMySQL's one connection.                                               *)

\* The server's handlers run to their end before another one starts.
MayBegin == Python => \A q \in Calls : pc[q] \in {"idle", "end"}

\* connect(): a new socket, and init_command on it.
Reconnect(c) ==
  /\ c \in Conns \ made
  /\ made' = made \union {c}
  /\ socket' = c
  /\ readonly' = SetUp(c)

\* ping(reconnect=True) on the connection c: it answers, or c is a new one.
Ping_Not(c) == c = Max(made) /\ UNCHANGED <<made, socket, readonly>>    \* mutant: no ping
Ping(c) ==
  \/ c = socket /\ c \notin lost /\ UNCHANGED <<made, socket, readonly>>
  \/ (socket = NoConn \/ socket \in lost) /\ Reconnect(c)

\* The ping finds no connection and cannot make one.
PingFails == (socket = NoConn \/ socket \in lost) /\ socket' = NoConn

\* The connection is lost between or during calls; the server's thread is not.
Lose(c) ==
  /\ Python
  /\ c = socket /\ c \notin lost
  /\ Cardinality(lost) < MaxLosses
  /\ lost' = lost \union {c}
  /\ UNCHANGED <<adapter, callVars, poolVars, made, commands, socket, serverVars>>

-----------------------------------------------------------------------------
(* The calls.                                                              *)

\* Send a call's statement on connection c: mysql2 queues it there, behind
\* what is queued already.
Send(q, c) ==
  /\ commands' = IF TypeScript THEN [commands EXCEPT ![c] = Append(@, q)] ELSE commands
  /\ thread' = IF TypeScript THEN thread ELSE [thread EXCEPT ![c] = q]

Unreachable(q) ==
  /\ PingFails
  /\ pc' = [pc EXCEPT ![q] = "end"]
  /\ status' = [status EXCEPT ![q] = "unreachable"]
  /\ UNCHANGED <<conn, made, commands, thread, readonly>>

PyQuery_StaleId(q) ==    \* mutant: thread_id() before the ping
  \/ \E c \in Conns : /\ Ping(c)
                      /\ conn' = [conn EXCEPT ![q] = IF socket = NoConn THEN c - 1 ELSE socket]
                      /\ Send(q, c)
                      /\ pc' = [pc EXCEPT ![q] = "run"]
                      /\ UNCHANGED status
  \/ Unreachable(q)

\* PyMySQL's query(): ping, thread_id(), then the statement.
PyQuery(q) ==
  \/ \E c \in Conns : /\ Ping(c)
                      /\ conn' = [conn EXCEPT ![q] = c]
                      /\ Send(q, c)
                      /\ pc' = [pc EXCEPT ![q] = "run"]
                      /\ UNCHANGED status
  \/ Unreachable(q)

\* query. In a pool it waits for a connection first; no deadline runs yet.
Query(q) ==
  /\ pc[q] = "idle" /\ MayBegin
  /\ \/ ~Python /\ pc' = [pc EXCEPT ![q] = "get"] /\ Wait(q)
          /\ UNCHANGED <<conn, status, made, socket, commands, thread, readonly>>
     \/ Python /\ PyQuery(q) /\ UNCHANGED queue
  /\ UNCHANGED <<adapter, killer, left, idle, dirty, lost, killed, spared>>

\* list_tables is one read, describe_table three: in a pool each on a
\* connection of its own, in Python on the socket as it is, without a ping.
Catalog(k) ==
  /\ pc[k] = "idle" /\ MayBegin
  /\ \E n \in {1, 3} : left' = [left EXCEPT ![k] = n]
  /\ \/ ~Python /\ pc' = [pc EXCEPT ![k] = "get"] /\ Wait(k) /\ UNCHANGED <<commands, thread>>
     \/ /\ Python /\ pc' = [pc EXCEPT ![k] = "run"]
        /\ IF socket = NoConn THEN UNCHANGED <<commands, thread>> ELSE Send(k, socket)
        /\ UNCHANGED queue
  /\ UNCHANGED <<adapter, conn, killer, status, idle, dirty, made, socket, lost, readonly,
                 killed, spared>>

\* The first waiter gets a connection and sends its statement on it.
Got(q, c) ==
  /\ pc[q] = "get"
  /\ Take(q, c)
  /\ conn' = [conn EXCEPT ![q] = c]
  /\ Send(q, c)
  /\ pc' = [pc EXCEPT ![q] = "run"]
  /\ UNCHANGED <<adapter, killer, left, status, dirty, made, socket, lost, readonly, killed, spared>>

\* mysql2 makes a connection when none is idle. The 'connection' listener
\* queues SET SESSION before pool.query queues the statement.
GotNew(q, c) ==
  /\ TypeScript
  /\ pc[q] = "get"
  /\ idle = {} /\ c \in Conns \ made
  /\ queue # <<>> /\ Head(queue) = q
  /\ queue' = Tail(queue)
  /\ made' = made \union {c}
  /\ conn' = [conn EXCEPT ![q] = c]
  /\ commands' = [commands EXCEPT ![c] = IF ReadOnly THEN <<Setup, q>> ELSE <<q>>]
  /\ pc' = [pc EXCEPT ![q] = "run"]
  /\ UNCHANGED <<adapter, killer, left, status, idle, dirty, socket, lost, serverVars>>

Return_Leaks(q, s) ==    \* mutant: the connections do not go back
  /\ pc' = [pc EXCEPT ![q] = "end"]
  /\ status' = [status EXCEPT ![q] = s]
  /\ conn' = [conn EXCEPT ![q] = NoConn]
  /\ killer' = [killer EXCEPT ![q] = NoConn]
  /\ UNCHANGED dirty

\* Return: the connections go back to the pool.
Return(q, s) ==
  /\ pc' = [pc EXCEPT ![q] = "end"]
  /\ status' = [status EXCEPT ![q] = s]
  /\ dirty' = IF Python THEN dirty ELSE dirty \union Held(q)
  /\ conn' = [conn EXCEPT ![q] = NoConn]
  /\ killer' = [killer EXCEPT ![q] = NoConn]

\* A new connection cannot be made, or an old one cannot be reset: get_conn()
\* and pool.query() fail, and so does the call.
NotGot(q) ==
  /\ ~Python
  /\ pc[q] = "get"
  /\ queue # <<>> /\ Head(queue) = q
  /\ queue' = Tail(queue)
  /\ Return(q, "error")
  /\ UNCHANGED <<adapter, left, idle, driverVars, serverVars>>

\* The connection a call's statement was sent on answers, and has answered.
Answered(q) ==
  LET c == IF Python THEN socket ELSE conn[q]
  IN c # NoConn /\ c \notin lost /\ thread[c] = NoCall /\ commands[c] = <<>>

\* The statement ended in time.
Finished(q) ==
  /\ pc[q] = "run"
  /\ Answered(q)
  /\ q \in Catalogs => left[q] = 1
  /\ \E s \in {"ok", "error"} : Return(q, s)
  /\ UNCHANGED <<adapter, left, queue, idle, driverVars, serverVars>>

\* A read of a catalog call is done and was not the last. An error, or an
\* unknown table after the first read, ends the call.
ReadDone(k) ==
  /\ pc[k] = "run"
  /\ Answered(k)
  /\ left[k] > 1
  /\ \/ /\ left' = [left EXCEPT ![k] = @ - 1]
        /\ ~Python
        /\ pc' = [pc EXCEPT ![k] = "get"]
        /\ dirty' = dirty \union {conn[k]}
        /\ conn' = [conn EXCEPT ![k] = NoConn]
        /\ Wait(k)
        /\ UNCHANGED <<killer, status, commands, thread>>
     \/ /\ left' = [left EXCEPT ![k] = @ - 1]
        /\ Python
        /\ Send(k, socket)
        /\ UNCHANGED <<pc, conn, killer, status, dirty, queue>>
     \/ /\ Return(k, "error")
        /\ UNCHANGED <<left, queue, commands, thread>>
  /\ UNCHANGED <<adapter, idle, made, socket, lost, readonly, killed, spared>>

\* A read or write on a connection that is gone: PyMySQL closes the socket.
Broken(q) ==
  /\ Python
  /\ pc[q] = "run"
  /\ socket = NoConn \/ socket \in lost
  /\ socket' = NoConn
  /\ Return(q, "broken")
  /\ UNCHANGED <<adapter, left, queue, idle, made, commands, lost, serverVars>>

Timeout_Returns(q) ==    \* mutant: the connection is given back before the kill
  /\ ~TypeScript
  /\ pc[q] = "run"
  /\ pc' = [pc EXCEPT ![q] = "getKiller"]
  /\ dirty' = dirty \union {conn[q]}
  /\ Wait(q)
  /\ UNCHANGED <<adapter, conn, killer, left, status, idle, driverVars, serverVars>>

\* The deadline. Rust drops run_query, keeps the connection, and asks for
\* another one; Python's read has timed out and closed the socket. The
\* server's thread runs on.
Timeout(q) ==
  /\ ~TypeScript
  /\ pc[q] = "run"
  /\ pc' = [pc EXCEPT ![q] = "getKiller"]
  /\ \/ Rust /\ Wait(q) /\ UNCHANGED socket
     \/ Python /\ socket' = NoConn /\ UNCHANGED queue
  /\ UNCHANGED <<adapter, conn, killer, left, status, idle, dirty, made, commands, lost, serverVars>>

\* mysql2's timer starts with the command: the caller is answered, and the
\* command keeps the connection until the server is done with it.
DriverTimeout(q) ==
  /\ TypeScript
  /\ pc[q] = "run" /\ thread[conn[q]] = q
  /\ Return(q, "timeout")
  /\ UNCHANGED <<adapter, left, queue, idle, driverVars, serverVars>>

\* A catalog read's timeout in Python: an error like others, and no KILL.
CatalogTimeout(k) ==
  /\ Python
  /\ pc[k] = "run"
  /\ socket' = NoConn
  /\ Return(k, "error")
  /\ UNCHANGED <<adapter, left, queue, idle, made, commands, lost, serverVars>>

\* The connection to send KILL QUERY on; in Python it is the next call's, too.
GotKiller(q, c) ==
  /\ pc[q] = "getKiller"
  /\ \/ Rust /\ Take(q, c) /\ UNCHANGED <<made, socket, readonly>>
     \/ Python /\ Ping(c) /\ UNCHANGED <<queue, idle>>
  /\ killer' = [killer EXCEPT ![q] = c]
  /\ pc' = [pc EXCEPT ![q] = "kill"]
  /\ UNCHANGED <<adapter, conn, left, status, dirty, commands, lost, thread, killed, spared>>

\* KILL QUERY id: whatever statement that connection's thread runs is ended;
\* a failure of the KILL is ignored. Then "timeout:" is returned.
Kill(q) ==
  /\ pc[q] = "kill"
  /\ \/ /\ killer[q] \notin lost
        /\ thread' = [thread EXCEPT ![conn[q]] = NoCall]
        /\ killed' = killed \union ({thread[conn[q]]} \ {NoCall})
        /\ UNCHANGED spared
     \/ spared' = spared \union {q} /\ UNCHANGED <<thread, killed>>
  /\ socket' = IF socket \in lost THEN NoConn ELSE socket
  /\ Return(q, "timeout")
  /\ UNCHANGED <<adapter, left, queue, idle, made, commands, lost, readonly>>

\* There is no connection for the killer, which is ignored too.
NoKiller(q) ==
  /\ pc[q] = "getKiller"
  /\ \/ Rust /\ queue # <<>> /\ Head(queue) = q /\ queue' = Tail(queue) /\ UNCHANGED socket
     \/ Python /\ PingFails /\ UNCHANGED queue
  /\ spared' = spared \union {q}
  /\ Return(q, "timeout")
  /\ UNCHANGED <<adapter, left, idle, made, commands, lost, thread, readonly, killed>>

-----------------------------------------------------------------------------
(* The server.                                                             *)

\* The next command of a connection's queue reaches its thread.
Serve(c) ==
  /\ commands[c] # <<>> /\ thread[c] = NoCall
  /\ commands' = [commands EXCEPT ![c] = Tail(@)]
  /\ IF Head(commands[c]) = Setup
       THEN readonly' = readonly \union {c} /\ UNCHANGED thread
       ELSE thread' = [thread EXCEPT ![c] = Head(commands[c])] /\ UNCHANGED readonly
  /\ UNCHANGED <<adapter, callVars, poolVars, made, socket, lost, killed, spared>>

\* A statement ends by itself.
Complete(c) ==
  /\ thread[c] # NoCall
  /\ thread' = [thread EXCEPT ![c] = NoCall]
  /\ UNCHANGED <<adapter, callVars, poolVars, driverVars, readonly, killed, spared>>

Next ==
  \/ \E q \in Queries : \/ Query(q) \/ Timeout(q) \/ DriverTimeout(q) \/ Kill(q) \/ NoKiller(q)
                        \/ \E c \in Conns : GotKiller(q, c)
  \/ \E k \in Catalogs : Catalog(k) \/ ReadDone(k) \/ CatalogTimeout(k)
  \/ \E q \in Calls : Finished(q) \/ Broken(q) \/ NotGot(q) \/ \E c \in Conns : Got(q, c) \/ GotNew(q, c)
  \/ \E c \in Conns : Recycle(c) \/ Serve(c) \/ Complete(c) \/ Lose(c)

Spec == Init /\ [][Next]_vars

-----------------------------------------------------------------------------
(* Safety.                                                                 *)

\* Every connection of a pool is in one place: idle, coming back, or held by
\* one call. None is lost and none is handed out twice, also on the timeout
\* path, where a call holds two.
OnePlace ==
  ~Python => \A c \in made :
    Cardinality({q \in Calls : c \in Held(q)})
      + (IF c \in idle THEN 1 ELSE 0) + (IF c \in dirty THEN 1 ELSE 0) = 1

\* The pool's bookkeeping: the types, and every connection in one place.
PoolOK == TypeOK /\ OnePlace

\* KILL QUERY ends the statement of the call that timed out, and never one of
\* a call that got the same connection later.
KillsOwn == \A q \in killed : pc[q] = "kill" \/ status[q] = "timeout"

\* Rust and Python: whoever is told of a timeout has stopped its statement at
\* the server, unless there was no connection for its KILL QUERY or the KILL
\* failed ("Stop the work on the server too", "then KILL QUERY it (issue #38)").
\* TypeScript's runs on.
TimedOutIsStopped ==
  \A c \in Conns : thread[c] \in Queries /\ status[thread[c]] = "timeout" =>
    TypeScript \/ thread[c] \in spared

\* In read-only mode no statement starts on a session that would take writes:
\* not on a connection that was reset, nor on the one that replaces another,
\* nor on one whose SET SESSION is still queued.
SessionIsReadOnly == ReadOnly => \A c \in Conns : thread[c] # NoCall => c \in readonly

\* Python: a lost connection costs one query ("recover a connection lost to a
\* timeout"), and a timeout none. Catalog calls fail until the next query.
LossCostsOneQuery == Cardinality({q \in Queries : status[q] = "broken"}) <= Cardinality(lost)

-----------------------------------------------------------------------------
(* Liveness. The runtime polls every task, timers fire, the pool recycles  *)
(* and hands out connections, connecting succeeds or fails. A query's      *)
(* statement may never end by itself, a catalog read does.                 *)

Fairness ==
  /\ \A q \in Calls : /\ WF_vars(Finished(q)) /\ WF_vars(Broken(q))
                      /\ WF_vars(\E c \in Conns : Got(q, c) \/ GotNew(q, c))
  /\ \A k \in Catalogs : WF_vars(ReadDone(k))
  /\ \A q \in Queries : /\ WF_vars(Timeout(q)) /\ WF_vars(DriverTimeout(q)) /\ WF_vars(Kill(q))
                        /\ WF_vars(\E c \in Conns : GotKiller(q, c))
                        /\ WF_vars(Python /\ NoKiller(q))
  /\ \A c \in Conns : /\ WF_vars(Recycle(c)) /\ WF_vars(Serve(c))
                      /\ WF_vars(thread[c] \in Catalogs /\ Complete(c))

FairSpec == Spec /\ Fairness

\* As long as the pool is larger than the number of queries in progress every
\* call returns, stuck statements, lost KILLs and killers that wait included.
EventuallyDone == \A q \in Calls : (pc[q] # "idle") ~> (pc[q] = "end")
=============================================================================
