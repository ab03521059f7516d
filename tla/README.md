# Verification of database-mcp

database-mcp is a family of MCP servers: three languages (TypeScript, Python,
Rust) times five engines (SQLite, libSQL, MySQL, MariaDB, Postgres). Each
server offers two tools, `execute_sql` and `search_objects`, under three
guardrails: `readOnly`, `maxRows` and `queryTimeoutMs`. This directory holds
TLA+ models of the parts where order, failure and concurrency decide whether
those guardrails hold, TLC runs of the models, and TLAPS proofs about them.

## The system

| Part | State it keeps | Operations | Interacts with |
|---|---|---|---|
| Tool handlers (`core/*/server`, `core/typescript/src/tools`) | none | `execute_sql`: guard, query, map the error, cap; `search_objects` | SQL guard, adapter |
| SQL guard (`core/*/sql[-_]guard`) | none | verdict on one statement: pass, `read-only:`, `multi-statement:` | tool handlers |
| Config (`core/*/config`) | none after start | merge flags, environment and file; validate | entry points |
| Secrets (`core/*/secret`) | the set of registered secrets | register, redact | config, logs, errors |
| Transports (`core/*/serve`, Rust `server.rs`) | HTTP sessions by id | connect the adapter, serve stdio or HTTP, shut down | adapter, handlers |
| TypeScript IsolatedAdapter (`core/typescript/src/isolate.ts`, `isolate-child.ts`) | current child, start in progress, id counter, pending calls of each child, timers | query, listTables, describeTable, connect, close; message, exit, timer | child processes over IPC |
| Python IsolatedAdapter (`isolated.py`, `isolated_child.py`) | current process, its reply queue, a reader thread for each process | the same | child processes over pipes |
| Postgres adapters | connection(s), the session's transaction | query, list, describe | Postgres |
| MySQL / MariaDB adapters | pool or connection, sessions | query with KILL QUERY at the deadline, list, describe | MySQL |
| SQLite, libSQL adapters | one connection | query with an interrupt at the deadline, list, describe | SQLite, libSQL server |

All sessions of an HTTP server share one adapter, so every adapter is called
concurrently (in Python one call at a time: the handlers are synchronous).

### What is hard

* *TypeScript isolation.* Replies, exits, timers and new calls of several
  children reach one event loop in any order; a child may be killed, die by
  itself, or die before it is initialised. Correct means: a caller gets its own
  statement's result or an error, once; nobody waits for ever; no timer kills
  for a query that was answered; at most one child is being started; nothing
  goes on in a child nobody waits for.
* *Python isolation.* Replies carry no id. Correct means: between two calls
  nothing is unread or unanswered in the current child, and the old child's
  output cannot be read as the new one's.
* *Rust Postgres.* One session is shared by all clients and its requests are
  pipelined; a call can be cancelled wherever it awaits, and a catalog read may
  fail between a call's requests. Correct means: in read-only mode nothing is
  ever written and no setting survives a query.
* *MySQL.* Each language has its own way with connections and deadlines. In Rust
  a call past its deadline holds one pooled connection and asks for another; in
  TypeScript the caller is answered and the statement runs on; in Python the one
  connection is replaced, and the KILL sent on its successor. Correct means:
  connections are neither lost nor shared, a KILL hits its own statement, who is
  told of a timeout has stopped the statement (Rust, Python), sessions are
  read-only whenever a statement starts, and calls return.
* *Rust SQLite and libSQL.* All sessions share one connection; the deadline is
  enforced from outside, by a handler or a thread that knows the connection and
  not the statement. A remote server drops streams and loses answers. Correct
  means: no deadline stops a call it does not belong to, an answer tells what
  became of a write, and calls return.
* *Configuration.* A setting may come from up to four places, some of which may
  be wrong. Correct means: a place changes its own setting only, and only where
  no higher place gives it; a bad number stops the start and switches no
  guardrail off; a password is registered before anything may print it.
* *Answers.* Rows, integers, array texts, catalog rows and error messages pass
  through hand-written conversions. Correct means: nothing is lost, mixed up or
  rounded, and an error starts with what caused it.

The hazards, each at its line and with the properties that watch it, are in
`PROJECT.json`.

## Modules

| Module | Models | Run(s) |
|---|---|---|
| `CallService` | what every adapter promises its callers: the abstract specification | refined in `isolate`, `isolated_py` |
| `Isolate` | `isolate.ts` with `isolate-child.ts` | `isolate`, `isolate_init` |
| `IsolatedPy` | `isolated.py` with `isolated_child.py` | `isolated_py`, `isolated_py_replaced` |
| `PgClient` | `postgres/rust/src/main.rs` | `pg_client`, `pg_wedged` |
| `PgPool` | `postgres/typescript/src/adapter.ts`, `postgres/python/.../adapter.py` | `pg_pool` |
| `MysqlPool` | `mysql/rust/src/lib.rs`, `mysql/typescript/src/adapter.ts`, `mysql/python/.../adapter.py` (also the MariaDB servers) | `mysql_pool` |
| `RustSqlite` | `sqlite/rust/src/main.rs`, `libsql/rust/src/main.rs` | `rust_sqlite` |
| `SqlGuard` | `sql-guard.ts`, `sql_guard.py`, `sql_guard.rs` | `sql_guard` |
| `Config` | `core/rust/src/config.rs` | used by `Server` |
| `Answers` | conversions of the Rust adapters, `sanitize_error`, `redact` | used by `Server` |
| `Server` | `core/rust/src/server.rs`: start, tool calls | `server`, `pg_foreign_keys` |
| `IsolateProofs` | theorems about `Isolate`: replies; bookkeeping and the refinement | proved |
| `IsolatedPyProofs` | theorems about `IsolatedPy` | proved |
| `PgClientProofs` | theorems about `PgClient` | proved |
| `PgPoolProofs` | theorems about `PgPool` | proved |
| `MysqlPoolProofs` | theorems about `MysqlPool` | proved |
| `RustSqliteProofs` | theorems about `RustSqlite` | proved |
| `ServerProofs` | theorems about `Server` and `Config` | proved |
| `SqlGuardProofs` | theorems about `SqlGuard`, for texts of any length | proved |

Each `XMC` module only gives names to the sets that its `.cfg` files assign to
the constants of `X`. `PROJECT.json` maps each definition to its source lines.

### CallService

A call is `idle`, `open`, `ok` or `failed`. Its statement may be performed
once, at any time after the call was issued, even after it was answered with a
failure (a timed-out statement on a remote database may still run); success is
reported only for a statement that was performed; nothing is issued or
answered once the service is down.

### Isolate

The state of the parent is that of the class: `child` is `this.child`,
`starting` names the child whose init `this.starting` awaits, `nextId` and
`pending` are the counter and the map that `start()` closes over for each
child, `armed` the timers, each with the id, call and child it closes over.
`status` is the promise the caller holds. Every action of the parent is one
macrotask of the event loop with the microtasks it drains. The exception is
the callers resumed by one resolution of `this.starting`: they are resumed one
by one (`Resume`), and `LoopFree` keeps every other macrotask out meanwhile.
The children are processes with FIFO pipes in both directions. A child may
crash in any state, an exit may be seen by the parent long after the death,
and replies sent before a death are still delivered.

`Begin` is `query`/`listTables`/`describeTable` with `ready()`, in its three
cases (child set, start in progress, neither); `Call` is `call()`; `OnMessage`,
`OnExit` and `OnTimer` are the handlers; `StartFailed` the catch of `start()`.
`OnTimer` fires in arming order because all deadlines are `queryTimeoutMs`.

### IsolatedPy

One call at a time, for the handlers are synchronous. The reader thread of a
process and the process itself run concurrently with it: `Read` moves a reply
to the queue of the process it belongs to, and `None` after the last one.
`Invoke`, `Start`, `InitWrite`, `InitWait`, `Write`, `Get`, `Timeout` and
`Return` are the steps of `query` → `_start` → `_call` between the points at
which the other threads and processes can be seen.

A child that dies (`Die`, `Crash`) may do so while it serves a request (`Ends`):
its statement may be done, and the reply's line may be half written (`torn`). Half
a line is no JSON, so the reader thread ends at it without its `None` (`Read`).
A query is then saved by its deadline; a call without one is not (`Deaf`).

### PgClient

All sessions of the Rust server share one pipelined connection. `wire` holds
the requests in the order in which they were sent, and `Serve` is the Postgres
session taking the next one. A query holds the lock over `prepare`,
`ROLLBACK; BEGIN READ ONLY`, the statement and `ROLLBACK`; catalog calls take
no lock. `Cancel` drops the future of a call wherever it awaits. The kinds of
statement are those that the properties tell apart: a read, one that does not
prepare, one that fails when it runs, a write the guard did not see, a
`set_config` that turns read-only off, and, in write mode only, where the guard
asks for nothing but a single statement, a client's `BEGIN` and its `COMMIT` or
`ROLLBACK` (`Control`). Savepoints, `PREPARE TRANSACTION` and the locks of other
sessions are left out.

`tx` is the session's transaction: none, a call's `BEGIN READ ONLY` ("ro"), a
client's `BEGIN` ("rw"), or aborted ("failed"). `spoiler` is the call whose error
aborted it, a catalog read's too (`ReadCatalog`), `held` what waits for a client's
`COMMIT`, and `within` remembers whose write was in a client's transaction. As all
sessions share the connection, a client's `BEGIN` puts everybody's statements in
its transaction.

### PgPool

`pooled` chooses the TypeScript adapter (a pool of four, the waiting calls in a
queue) or the Python one (one connection, one call at a time). `Begin`, `Run`
and `Rollback` are the three requests of `run`/`query`; `Release` is
`client.release(broken)`; `Lose` breaks a connection at any point, and in
TypeScript may end the process, since neither the pool nor its clients have a
listener for `error`. The statements are those of `PgClient`, with one kind that
fails; `BEGIN` and its end pass in write mode, so a client may go back to the
pool, and Python's one connection stay, in a transaction a call began: an error
takes a pooled client out (`Release`), Python's stays in the aborted transaction.

### MysqlPool

`adapter` is the language. A connection of a pool is idle, coming back
(`dirty`), or with a call, as its connection or as its killer; `thread` is the
statement that the server runs on it, which goes on until it completes or is
killed, whatever the client does.

* Rust and TypeScript: a connection may fail to be had (`NotGot`).
* Rust: `Timeout` is the deadline of `query`; from there the call asks the same
  pool for a second connection (`GotKiller`, `NoKiller`), sends `KILL QUERY`
  and returns both. `Recycle` is the reset of a returned connection with the
  `setup` statements that follow it.
* TypeScript: `GotNew` is the pool making a connection; its `connection` listener
  puts `SET SESSION` into the connection's queue (`commands`) before the
  statement. `DriverTimeout` answers the caller; the connection comes back when
  the statement is done.
* Python: `socket` is PyMySQL's connection. `Ping` reconnects when it is gone
  (`ping(reconnect=True)` with `init_command`), `Timeout` closes the socket,
  `GotKiller` is the reconnect in the except branch, `Kill` the `KILL QUERY` of
  the id read before the statement. `Lose` breaks the connection at any point;
  `Broken` is the call that finds out.

### RustSqlite

Three servers with one shape (`run_query` is the same code), chosen by `engine`.
`mutex` is the adapter's own mutex on SQLite (held from `Lock` to `Answer`), and
on a local libSQL file the one SQLite takes for a single step (`Start`, `Row`,
`NextRow`, `Finish`), so that there the statements of two sessions take turns.
`watch` is a query's deadline. SQLite's progress handler reads it (`handler`
says whose is installed); libSQL's watchdog thread goes from `waiting` to `due`
(`recv_timeout` returned) to `fired` (`interrupt()` called), and `Answer`, which
joins it, waits for the latter. A remote call is abandoned by the outer timeout;
its stream may be dropped at any time (`DropStream`), also between the requests of
one call, and the pragma and a client's transaction go with it. `unguarded` are the
queries to which that happened between their pragma and their statement's end.

What SQLite does is external: the interrupt flag is cleared when a statement
starts and no other is active (`Start`); the last writer to end commits for all,
an interrupted one rolls back all; a client's `BEGIN` (`manual`) keeps what follows
`pending` until its end; a statement that fails undoes itself, all of the
transaction (`OR ROLLBACK`), or nothing (`OR FAIL`, the kind "partial"); and what a
remote server was asked may be carried out although the answer is an error or
never comes (`Settled`, `CarriedOut`, `Undone`). Savepoints are left out.

### SqlGuard

A pure algorithm: the only state is a text that grows by chunks, so that the
reachable states are all short texts. `Normalized`, `Scan`, `FirstWord` and
`Guard` translate the guard; the three languages have the same algorithm, so
there is one module. `ScanAt` is one turn of `scan`'s loop (a `++i` in its body is
the flag `skip`), `Scanned` the loop; `WordAfter` is what `firstWord` finds from each
position on.

`Read` is what an engine takes the same text for: a state machine that reads one
character at a time (`LexAt`, with `InCode`, `InQuote`, `InLine` and `InBlock` for
where it is) by the rules in which SQLite, MySQL/MariaDB and Postgres differ:
comments (nested, executable, `#`, `--` without a blank, ended by a CR), quotes
(backslashes, backticks, brackets, dollar quotes). The properties compare the
two. All loops are recursive functions over positions, so that they can be
proved about.

### Config, Answers and Server

`Load` is `load_config`: for each setting the places in the order of the code's
`or_else` chains (`Places`), the parsing of numbers, the order of its errors,
and which secrets are registered by the time it ends. A text stands for its
kind (a number that fits, one too large, garbage, a DSN with a password).

`Answers` has the conversions: `RunQuery` is the row loop with its cap,
`Integer` the choice between a JSON number and a text, with 5 bits for 64 and
SafeMax = 7 for 2^53 - 1 (the proportions are kept: the least integer has no
absolute value in its width), `ParseArray` the parser of Postgres array texts as
a state machine over characters, `Indexes` and `ForeignKeys` the grouping of
catalog rows, `Sanitized` the two layers of `sanitize_error`, `Redact` what
remains visible of a password. What Postgres prints for an array (`Printed`) and
the catalog rows of each engine are external. What is a loop in the code (rows,
characters, catalog rows) and what is a list of them (the items of an array, the
rows in the order of a catalog) is a recursive function over positions.

`Server` puts them together: inputs are given one by one (`Give`), `Start` loads
them and prints, fails or serves, then tool calls come (`Blocked`,
`ExecuteSql`, `DescribeTable`, `Fails`) one at a time. That calls disturb each
other is left to the adapters' modules, and what the guard makes of a text to
`SqlGuard`.

## Runs

| Run | Bounds | What it shows |
|---|---|---|
| `isolate` | 2 queries, 1 catalog call, 2 children, 1 crash | the bookkeeping of calls, ids, timers and children in every order of events; refinement of `CallService`; every call is answered although statements may run for ever; no child outlives the server but a stuck one |
| `isolated_py` | 2 queries, 1 catalog call, 3 children, 1 crash, also in mid-line | replies without ids reach the right call; one live child; refinement; every call returns, but for one without a deadline whose child died in mid-line |
| `pg_client` | 2 queries of 7 kinds, 1 catalog call that may fail, 1 cancellation, read-only on and off | no write and no lasting setting in read-only mode; each statement meets its own transaction, which only a failed catalog read may have aborted; results are the statement's own; every call returns |
| `pg_pool` | 2 queries of 6 kinds, 1 catalog call, 2 clients, 1 lost connection, both adapters, read-only on and off | no write in read-only mode, and clients come back clean; none in an aborted transaction goes back to the pool; a success is the statement's own; a lost connection costs one call; every call returns |
| `mysql_pool` | 2 queries, 1 catalog call, 3 connections, 1 lost connection, 3 languages | connections are neither lost nor shared; KILL hits its own statement, and a call that timed out has sent it or could not; statements start on read-only sessions only; a lost connection costs one query; every call returns |
| `rust_sqlite` | 2 queries, one of a write or a `BEGIN`, one of a read, a partial write or an end (`Offered`), 1 catalog call of up to 2 reads, 1 row before the cap, 3 servers, read-only on and off | no write in read-only mode but by a statement whose stream was dropped behind its pragma; a lone call is stopped by its own deadline only; answers and effects agree; calls return on SQLite and remote databases, and on a local libSQL file once their statement started in time |
| `sql_guard` | texts of up to 4 chunks of 19 kinds, alone or after `SELECT` | for every engine the guard lets pass one statement at most and, read-only, only a read (for Postgres outside of `HiddenNesting`); where the scan is not in doubt its verdict is exact |
| `server` | 2 inputs besides the config file; results of up to 3 integers at the borders; arrays of up to 2 x 2 words with quotes, escapes, braces, `=` and NULL; 4 engines | one more input changes its own setting, if no higher place gives it, and no more; guardrails are never switched off by 0 or garbage; no output shows a password; errors keep their prefixes; rows, arrays, indexes and foreign keys are told exactly |

Why the bounds are enough. The hazards of `Isolate` and `IsolatedPy` are
between a child and its replacement, and between two calls sent to one child:
two children and two queries have every such pair, and the catalog call adds
the call without a deadline. A crash adds the exit nobody ordered. The Postgres
modules need one query that changes the session and one that suffers from it; a
catalog call between them; one cancellation or one lost connection. `MysqlPool`
needs two queries that time out while each holds a connection, and one
connection more for their killers; in Python three connections are the first
one, the one that replaces it, and its successor. `Server` needs two inputs:
every rule about places relates two of them (a higher and a lower one, a
password and its file, an error here and a value there), with the config file,
which makes a place readable, on top. `RustSqlite` needs
two statements that overlap, a row after which one yields to the other, and a
call without a deadline; `Offered` gives one query the writes and beginnings and
the other what may follow them, for a third query would only repeat one of the
two. For `SqlGuard`,
one construct that the engines read differently, a semicolon and a word behind
it fit into four chunks; every ambiguous construct is among the chunks, and a lone `/`,
which makes openings overlap. What holds for
every number of calls and children, and not just for these, is the subject of
the proofs.

Deadlock is not checked: in every module the system stops when all calls are
answered (or the server ended). That no call is left behind is the liveness
property's to say.

### Disagreements found

Each is a run that checks one property that a comment or document states, and
that TLC finds violated; the finding in `PROJECT.json` quotes both sides.

* `isolate_init`: while a replacement child starts, `this.child` is set
  already, so a further call is sent right behind `init` and handled before
  the adapter exists.
* `isolated_py_replaced`: a Python child that died between two calls is never
  replaced; each later call fails on the broken pipe.
* `pg_wedged`: after a cancellation inside a failed transaction, the `prepare`
  of the next query comes before the `ROLLBACK` that would end it.
* `pg_foreign_keys`: two tables may have foreign keys of the same name in
  Postgres, and `search_objects` joins by that name: it tells columns of the other
  table's key, and every pair of columns of a key with two.

Further behaviours are in the models without a run of their own:

* a message to a child that died and whose exit was not seen yet ends the
  TypeScript server (`Isolate.Call`, `phase = "crashed"`);
* a timer of the `IsolatedAdapter` drops whatever child is current but kills the
  child of its own query, so a replacement started in between is dropped alive
  (`Isolate.OnTimer`);
* a catalog read of the Rust Postgres server runs inside another call's
  transaction: it is refused when that is aborted, and when it fails itself it
  aborts it, so that the other call's statement is refused (`PgClient.ReadCatalog`;
  `OwnTransaction` says that nothing else can come between);
* with `--allow-write` a client's `BEGIN` stays open on the connection the calls
  share, or on a pooled one, and later writes reported as done, of other sessions
  too, are lost with it (`within`: all three `Honest...` properties name the case);
* a Python child that dies while it writes a reply leaves half a line, which ends
  the reader thread: a catalog call, or any call that starts the child, then waits
  for ever (`IsolatedPy.Deaf`; `CallsReturn` leaves it out);
* a remote libSQL stream that is dropped between the pragma and the statement
  takes the protection with it (`unguarded`: `NoWrite` says that no other statement
  writes; the servers' READMEs recommend a read-only token);
* a remote libSQL statement whose answer is lost is reported as an error although
  it may be committed (`HonestAnswer` promises nothing of errors there);
* a lost idle client may end the TypeScript Postgres server (`PgPool.Lose`);
* in Rust, calls that timed out hold every MySQL connection while each waits,
  without a deadline, for one more: with as many stuck queries as connections
  none returns (`MysqlPool.GotKiller`; `EventuallyDone` holds because the pool
  of the run is larger);
* in TypeScript a MySQL statement runs on after its timeout, and waiting for a
  connection has no deadline (`DriverTimeout`, `Got`);
* in Python catalog calls fail on a dead MySQL connection until the next query
  pings (`Broken`, `Catalog`);
* a query that waits for another session's statement on a local libSQL file can
  use up its watchdog before its own statement starts; nothing stops it any more
  (`RustSqlite.Start`; `CallsReturn` leaves that case out);
* two writes that overlap on a local libSQL file share a transaction, so the
  interrupt of one takes back the other, which may have been answered
  (`Settled`: `HonestAnswer` holds there for lone calls only);
* the Rust SQLite server fails to describe a table with an index on an expression
  (`Answers.DescribeFails`), and gives the least 64-bit integer as a number, in
  SQLite and libSQL (`AbsOf`; a debug build panics);
* `firstWord` takes a block comment in the lead for plain when its text has no
  further opening before the first `*/` (`PlainComment`). In `/* /*/` the last two
  characters are that end for the guard, and for Postgres the second half of an
  opening that nests (`HiddenNesting`). Its comment promises the empty word for
  nested comments; what follows is then still subject to the read-only
  transaction (`PgClient`, `PgPool`). `ReadsOnly` leaves the case out for Postgres;
* a message that only quotes a name like `query_only` gets a prefix it should not
  have (`Sanitized`: `StableErrors` says nothing of other errors).

## Fairness

* `Isolate`: the event loop serves every source of events (`OnMessage`,
  `OnExit`, timers, resumed callers), the operating system delivers signals and
  disconnects, the child's loop takes its messages, and the import of an
  adapter ends. A *query's* statement has no fairness: it may run for ever, and
  only its timer saves the callers. Catalog statements are assumed to end, for
  nothing in the code limits them.
* `IsolatedPy`: the same for the threads and processes.
* `PgClient`: tasks are polled, Postgres answers (`statement_timeout`), and the
  mutex is handed on in turn: strong fairness for `Acquire`, because tokio's
  mutex is fair.
* `PgPool`: promises are resumed, Postgres answers, pg's pool serves waiters in
  order.
* `MysqlPool`: tasks are polled, timers fire, the pool serves waiters in order,
  and Python's reconnect succeeds or fails; a query's statement may run for ever
  and a KILL may be lost.
* `RustSqlite`: threads and tasks run, clocks advance, SQLite stops a statement
  that was interrupted. A query's statement may run for ever. Neither mutex is
  assumed fair: each call takes it a bounded number of times.

No action of a client (issuing a call), no crash, loss, cancellation or
shutdown is fair. `SqlGuard` and `Server` state no liveness: nothing in them waits.

## Proofs

The theorems hold for every set of calls and every bound the runs fix: calls,
children, connections, cancellations, losses, rows, inputs. They assume what the
modules state of their constants and nothing else: queries and catalog calls are
different, the names of no call (`NoCall`, "init", "none") are not calls, bounds
are naturals, a pool has a connection, the servers are known ones, results are
sequences of integers, an array has rows of words, and a catalog is a finite set
of keys that have columns and, in one table, names of their own. Each proof
has the same plan: an inductive invariant `IInv` whose parts are named (TLC
checked each one as an invariant of the module's run before it was proved);
lemmas that say what an operation does to one call, client or child; one lemma
per action for each part the action can disturb; the theorems from `IInv`.
`Spec` is the specification without fairness, so everything here holds however
processes are scheduled.

### Isolated adapters

`IsolateProofs` proves, for any sets of calls and any bounds, from the
assumptions `CallsAssumption` and `BoundsAssumption` of `Isolate`:

* `Typing`: `Spec => []TypeOK`.
* `OwnReplyHolds`: `Spec => []OwnReply`. `OwnReply` is not inductive: that the
  reply which settles a call is the reply to *that* call depends on ids. The
  invariant adds

  * `FreshIds`: every id in use (pending, armed, in an inbox, in a job, in an
    outbox, an awaited init) is below `nextId`, so the next id is new;
  * `SameCall`: for one child, an id stands for one call wherever it occurs;
  * a success in an outbox stands for a completed statement: `done` contains
    the call that is pending under that id.

  `Typing` comes first and is used by every step; the step of `OwnReply` has one
  case for each action, and the cases that add an id (`Start`, `Call`) use
  `FreshIds`, those that move one (`Receive`, `Load`, `Finish`, `OnMessage`) use
  `SameCall`.

It also proves, from that invariant and more of the same kind (`ServiceInv`):

* `BookkeepingHolds`: `Spec => []Bookkeeping`;
* `ExitIsolatedHolds`: `Spec => ExitIsolated`, an action property;
* `ImplementsCallService`: `Spec => IsService`, every step of `Isolate` is a step
  of `CallService` or none.

A call's message is in one place on its way to its child and back: in an inbox,
in the job of the child, or gone (`Apart`), its entry in one pending map
(`Entries`), and it is nowhere before it was sent (`Once`, `PendingIsSent`). From
that follows that a statement is performed once and answered once, which is what
`CallService` asks: `Finish` maps to its `Perform`, `OnMessage` to `Answer` or
`Refuse`, and `OnExit`, `OnTimer` and `StartFailed` to `Refuse`, which fails all the
calls of a child in one step.

`IsolatedPyProofs` proves the same about the Python adapter, whose replies have
no ids:

* `ChildrenOKHolds`: `Spec => []ChildrenOK`;
* `IdleIsQuietHolds`: `Spec => []IdleIsQuiet`;
* `ImplementsCallService`: `Spec => IsService`.

What stands in for the ids is `Paired`: when the parent is about to write,
nothing is under way at the current child (`Quiet`), and while it waits there is
its own request or the one reply to it, in the pipe or in the queue (`Asked`), or
neither when the child died over it. That survives a timeout because the child is
given up with everything under way in it, and a replacement starts with nothing
(`Numbered`). A child that takes a request, to answer it or to die over it, is one
lemma (`TakesKept`).

### Database adapters

`PgClientProofs` proves, for any number of calls and cancellations and any
choice of statements, from the assumptions of `PgClient`:

* `SessionOKHolds`: `Spec => []SessionOK` (types, and `SettingsReverted`);
* `NoWriteHolds`: `Spec => []NoWrite`;
* `OwnTransactionHolds`: `Spec => OwnTransaction`, an action property;
* `HonestResultHolds`: `Spec => []HonestResult`.

None of the four is inductive: a request of a cancelled call is still on the wire
when the next holder of the lock sends its own, and what protects it is the
order of the wire. The inductive invariant `IInv` says

* `Senders`: catalog calls send catalog reads, queries everything else;
* `Locked`: only the holder of the lock awaits an answer of a query;
* `OneRequest`: a query's request on the wire is the last one any query sent, and
  unanswered, unless its call was cancelled;
* `Drained`: once the holder has its answer no query's request is on the wire,
  so everything after a `prepare` has only catalog reads before it;
* `Plain`: in read-only mode no query begins or ends a transaction;
* `Owned`: from a begin's answer to the run, the transaction is the call's own,
  and at most a catalog read aborted it (`Own`); in read-only mode a transaction
  saved the setting the session was started with, and none is a client's;
* `HonestInv`: what "ok" means in `reply`, in `kept` and in `status`.

The lemmas go in that order: `Sent` and `Shifted` about the sequence `wire`,
`Typing`, then `WireStep` (from `QueryAsks`, `CatalogAsks`, `Leaves` and
`Answers1`, one for each way a step changes the wire or the lock), and on top of
it `SessionStep` and `HonestStep`. TLC checked `IInv` as an invariant, with two
cancellations, before it was proved.

`PgPoolProofs` proves, for both adapters, `ClientsOKHolds`, `NoWriteHolds`,
`HonestResultHolds` and `LossCostsOneCallHolds`. A client is idle or with one call
(`PoolInv`); in read-only mode no query begins or ends a transaction (`Plain`), and
a client that is not lost is clean outside of a call's transaction, and inside of
it the rollback will restore the setting (`Sessions`), so no statement runs where
it could commit. In write mode a success is committed or was `within` a client's
transaction (`Honest`), and a client in an aborted one leaves the pool. `LossCostsOneCall` is a
count: `Losses` charges each lost connection once, to the call that returned
"lost" or to the broken client while the pool has it, and the proof shows for each
step that the two together never exceed the losses.

`MysqlPoolProofs` proves, for the three languages, `PoolOKHolds`, `KillsOwnHolds`,
`TimedOutIsStoppedHolds`, `SessionIsReadOnlyHolds` and `LossCostsOneQueryHolds`. A
connection of a pool is idle, coming back, or held by one call as its own or as
its killer (`Places`, `Holdings`); a query's statement runs on the connection the
query holds and nowhere else, as long as the query is in progress (`Threads`):
so a KILL that names the connection names the statement. A session that would
take writes has its `SET SESSION` ahead of everything (`Sessions`).

`RustSqliteProofs` proves, for the three servers, `WatchdogsOKHolds`,
`NoWriteHolds` and `HonestAnswerHolds`. The progress handler is that of the call
with the mutex (`Owners`); the interrupt flag, once a lone statement runs, was set
by that statement's own watchdog (`Flag`), because an answer waits for a watchdog
that fired; on a remote server a statement starts behind its pragma, or its stream
was dropped since (`Guarded`), and in read-only mode no client's transaction is
open (`Plain`); what is in the database stems from calls that ended so that they
may have changed it (`Does`, `Effects`), and what was reported as done is committed
or was in a client's transaction (`Committed`). What the end of a statement does to
the database is one lemma (`SettledStep`, with `CarriedOutStep`) that all the ends
share.

### Configuration and answers

`ServerProofs` proves, for everything that may be given in any order and number:

* `GuardrailsKeptHolds`: `Spec => []GuardrailsKept`;
* `MaskedHolds`: `Spec => []Masked`;
* `StableErrorsHolds`: `Spec => []StableErrors`;
* `OverridesHolds`: `Spec => Overrides`, an action property.

`Masked` needs `Registered`: what the drivers know of a password is registered
by then, which is a fact about the order inside `Load` (`AllRegistered`: no error
means that neither of the places where it could stop before registering was
reached). The rest is about `Load` as a function: `NoError` says when it
succeeds, `FirstPlace`, `TextGiven` and `NoPlace` what `or_else` chains give,
`SameText` when one more input changes nothing. `OverridesHolds` follows from three
lemmas about one more input, one per clause: `OthersAreSame`,
`BeatenChangesNothing`, `NewTextCounts`.

And, whatever a query returns and whatever keys and indexes a table has:

* `RowsExactHolds`: `Spec => []RowsExact`, from `ResultsAssumption` and
  `ArraysAssumption`. The invariant `RowsInv` adds that the cap is a natural and
  that nothing is asked unless the server serves;
* `DescribeExactHolds`: `Spec => []DescribeExact`, from `CatalogsAssumption`, with
  the invariant `DescribeInv`.

The steps are short; the work is in the loops they call. The library's induction
theorems take an operator, which no installed prover can instantiate. `LeastNat`
(a set of naturals has a least element, from the well-foundedness of `<`) does the
same with a set: `Upwards`, `FoldExists` and `FoldIn` say that a set closed under
the next position has them all, and that a recursive function whose turns stay in
a set exists and stays there.

* *Rows.* `FetchedIs` is what the loop has after n rows: the first of them, up to
  the cap, and whether it has met one more.
* *Arrays.* `Reads(s, text, r)` says that the parser goes from state s to r over a
  text; `ReadsOn` joins two texts. `EscapedReads`, `BareReads` and `NullReads` read a
  word in quotes, without them, and a NULL; `ListReads` is the induction over the
  items of a list, used once for words and once for rows; `ArrayIs` is the whole
  text with its bounds.
* *Tables.* `SortedIs`: taking out an element with none before it, again and again,
  lists a finite set in order, each element once. `Grows(s, rows, r)` says what the
  grouping makes of rows, as `Reads` does for characters: `KeyGrows` for the rows
  of one key, `PartsGrow` for key after key, whose names differ. `WithNamesIs` and
  `JoinedTells` are about Postgres's queries: nothing is left out where no column
  is an expression, and the join by name gives one row per key where every
  constraint has one column and a name of its own, which is where `DescribeExact`
  promises something (the run `pg_foreign_keys` shows the rest).

### SQL guard

`SqlGuardProofs` proves, for texts of any length over the characters of `Chunks`:

* `SureIsExactHolds`: `Spec => []SureIsExact`;
* `OneStatementHolds`: `Spec => []OneStatement`;
* `ReadsOnlyHolds`: `Spec => []ReadsOnly`.

All three are about loops, with induction over positions as above (`Downwards`
besides, for what is read from the end). So `Scanned`, `Copied`, `WordAfter` and
`Read` satisfy their equations (`ScannedIs`, `CopiedIs`, `WordAfterIs`, `ReadIs`). The
rest has three parts.

* *The scan and an engine, side by side.* The guard reads the normalised text,
  an engine the original; `Aligned` says which position of one is which of the
  other (`KeptAt`, `DroppedAt`: a dropped CR changes nothing). `Agree` relates the
  two machines' states while the scan is sure: both in code, in the same kind of
  comment or quote, both skipping, with `multi`, `semi` and `empty` telling what
  kinds of token the engine has. `Together` is the induction: `AgreeKept` for
  each pair of steps, `AgreeDropped` for the CR. `SureIsExact` is `Agree` at the end.
* *Ambiguous texts.* `Trailing`: an engine's tokens behind a semicolon all come
  from the text behind it, so when the guard finds nothing behind a semicolon
  there is no second head. With the first part, that is `OneStatement`.
* *The first word.* `Lead` is the set of positions that `firstWord` goes through;
  at each of them the engine is at the start of a token with none before it
  (`Fresh`), because `PlainComment` is a comment with the same end for every
  engine (`CommentKept`). `HiddenNesting` came out of this proof: the lemma did
  not hold for Postgres without it, and TLC showed the text.

### Only model-checked

Liveness: `CallsSettle` and `ChildrenExit` of `Isolate`, `CallsReturn` of four modules,
`EventuallyDone` of `MysqlPool`. Fairness and ENABLED are beyond the prover.

## Not modelled

* Configuration of the TypeScript and Python cores: the same rules as Rust's,
  written in another way; `Config` follows Rust. DSN parsing, TLS options and
  `sanitize_dsn`: libraries and patterns.
* Floats, dates, JSON and binary columns, column types and defaults: data. The
  guard's test for `INTO OUTFILE`: a pattern.
* The MCP protocol and its HTTP transport: libraries. Of the shutdown only what
  reaches the isolated adapters is modelled (`Isolate.Close`).
* The SQLite adapters of TypeScript and Python hold one connection for the whole
  of a call, as Rust's does with its mutex; they run under `Isolate` and
  `IsolatedPy`, which model what they answer.
* Conformance suite and release scripts: not part of a running server.

## Plan

Every safety property of the runs is proved. What is left: the hazards that have no
property yet (messages to a child whose exit was not seen, the `error` events of
pg's pool), which the code does not prevent.
