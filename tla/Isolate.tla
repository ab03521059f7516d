------------------------------ MODULE Isolate ------------------------------
(***************************************************************************)
(* The TypeScript IsolatedAdapter (core/typescript/src/isolate.ts) and the *)
(* child process it forks (isolate-child.ts). The parent is one event      *)
(* loop: every action of it is one macrotask with the microtasks it        *)
(* drains, except the callers resumed after a start, who are resumed one   *)
(* by one (Resume) before any other macrotask may run (LoopFree). The      *)
(* children are processes of their own. Each child has a FIFO pipe to it   *)
(* (inbox) and from it (outbox).                                           *)
(*                                                                         *)
(* Left out: what a statement says and returns, stderr forwarding.         *)
(***************************************************************************)
EXTENDS Integers, Sequences, FiniteSets

CONSTANTS Queries,      \* execute_sql calls: sent with a deadline
          Catalogs,     \* listTables / describeTable calls: no deadline
          MaxForks,     \* bound: children forked in a behaviour
          MaxCrashes    \* bound: children that die without being killed

Calls == Queries \union Catalogs

ASSUME CallsAssumption == /\ Queries \cap Catalogs = {}
                          /\ Calls \cap {"init", "none"} = {}
ASSUME BoundsAssumption == MaxForks \in Nat /\ MaxCrashes \in Nat

Children == 1..MaxForks
NoChild == 0
NoJob == [id |-> -1, call |-> "none"]

VARIABLES
  \* the parent (class IsolatedAdapter)
  phase,      \* the server: "new", "connecting", "serving", "stopped", "crashed"
  child,      \* this.child
  starting,   \* the child whose init this.starting awaits, or NoChild
  waiters,    \* callers awaiting this.starting, in the order they came
  nextId,     \* this.nextId
  pending,    \* the map of every child's calls, by id
  armed,      \* the armed timers, each closing over its id, call and child
  status,     \* the promise returned to the caller of each call
  \* the children (isolate-child.ts) and the operating system
  forks,      \* how many were forked
  crashes,    \* how many died by themselves
  proc,       \* the life of each process
  inbox,      \* requests on their way to each child
  outbox,     \* replies on their way from each child
  adapter,    \* the child's adapter: "absent", "loading", "open", "failed"
  initId,     \* the id of the init request whose import is awaited
  job,        \* the statement that blocks the child, or NoJob
  done        \* calls whose statement completed in some child

parentVars == <<phase, child, starting, waiters, nextId, pending, armed, status>>
childVars == <<forks, crashes, proc, inbox, outbox, adapter, initId, job, done>>
vars == <<phase, child, starting, waiters, nextId, pending, armed, status,
          forks, crashes, proc, inbox, outbox, adapter, initId, job, done>>

Settled == {"ok", "error", "uninit", "timeout", "exited", "notRunning", "startFailed"}

Request == [id : Nat, call : Calls \union {"init"}]
Reply == [id : Nat, outcome : {"ok", "error", "uninit"}]

TypeOK ==
  /\ phase \in {"new", "connecting", "serving", "stopped", "crashed"}
  /\ child \in Children \union {NoChild}
  /\ starting \in Children \union {NoChild}
  /\ waiters \in Seq(Calls)
  /\ nextId \in Nat
  /\ pending \in [Children -> SUBSET Request]
  /\ armed \in SUBSET [id : Nat, call : Queries, child : Children]
  /\ status \in [Calls -> {"idle", "waiting", "sent"} \union Settled]
  /\ forks \in 0..MaxForks
  /\ crashes \in 0..MaxCrashes
  /\ proc \in [Children -> {"none", "running", "killed", "gone", "exited"}]
  /\ inbox \in [Children -> Seq(Request)]
  /\ outbox \in [Children -> Seq(Reply)]
  /\ adapter \in [Children -> {"absent", "loading", "open", "failed"}]
  /\ initId \in [Children -> Nat]
  /\ job \in [Children -> [id : Nat, call : Calls] \union {NoJob}]
  /\ done \subseteq Calls

Init ==
  /\ phase = "new"
  /\ child = NoChild
  /\ starting = NoChild
  /\ waiters = <<>>
  /\ nextId = 0
  /\ pending = [c \in Children |-> {}]
  /\ armed = {}
  /\ status = [q \in Calls |-> "idle"]
  /\ forks = 0
  /\ crashes = 0
  /\ proc = [c \in Children |-> "none"]
  /\ inbox = [c \in Children |-> <<>>]
  /\ outbox = [c \in Children |-> <<>>]
  /\ adapter = [c \in Children |-> "absent"]
  /\ initId = [c \in Children |-> 0]
  /\ job = [c \in Children |-> NoJob]
  /\ done = {}

-----------------------------------------------------------------------------
(* The parent.                                                             *)

Up == phase \in {"connecting", "serving"}

\* No resumed caller is left in the microtask queue.
LoopFree == starting # NoChild \/ waiters = <<>>

Alive(c) == proc[c] \in {"running", "killed"}

\* A kill signal to c; the process dies later, in Die.
Killed(c) == [proc EXCEPT ![c] = IF @ = "running" THEN "killed" ELSE @]

Settle(S, s) == [q \in Calls |-> IF q \in S THEN s ELSE status[q]]

CallsOf(requests) == {r.call : r \in requests} \ {"init"}

\* The timers left once the promises of the calls in S are settled.
Disarmed_NoClear(S) == armed    \* mutant: clearTimeout is forgotten
Disarmed(S) == {t \in armed : t.call \notin S}

\* pending.delete of some of child c's entries.
Forget(c, entries) == [pending EXCEPT ![c] = @ \ entries]

\* this.nextId++
NextId_Stuck == nextId        \* mutant: ids are used again
NextId_Down == nextId - 1     \* mutant: the counter runs backwards
NextId == nextId + 1

\* start(): fork, and send init before anything is awaited.
Start ==
  LET c == forks + 1 IN
    /\ forks < MaxForks
    /\ forks' = c
    /\ proc' = [proc EXCEPT ![c] = "running"]
    /\ child' = c
    /\ starting' = c
    /\ nextId' = NextId
    /\ pending' = [pending EXCEPT ![c] = {[id |-> nextId, call |-> "init"]}]
    /\ inbox' = [inbox EXCEPT ![c] = <<[id |-> nextId, call |-> "init"]>>]
    /\ UNCHANGED <<armed, crashes, outbox, adapter, initId, job, done>>

\* call(): refused without a child; otherwise an id, a pending entry, for a
\* query a timer, and the message. A send to a process that is gone is an
\* 'error' event on the ChildProcess, which has no listener for it.
Call(q) ==
  LET r == [id |-> nextId, call |-> q] IN
    \/ /\ child = NoChild
       /\ status' = [status EXCEPT ![q] = "notRunning"]
       /\ UNCHANGED <<phase, nextId, pending, armed, inbox>>
    \/ /\ child # NoChild
       /\ proc[child] # "gone"
       /\ status' = [status EXCEPT ![q] = "sent"]
       /\ nextId' = NextId
       /\ pending' = [pending EXCEPT ![child] = @ \union {r}]
       /\ armed' = IF q \in Queries
                     THEN armed \union {[id |-> nextId, call |-> q, child |-> child]}
                     ELSE armed
       /\ inbox' = [inbox EXCEPT ![child] = Append(@, r)]
       /\ UNCHANGED phase
    \/ /\ child # NoChild
       /\ proc[child] = "gone"
       /\ phase' = "crashed"
       /\ UNCHANGED <<status, nextId, pending, armed, inbox>>

\* connect(), awaited by serve() before any request is read.
Connect ==
  /\ phase = "new"
  /\ phase' = "connecting"
  /\ Start
  /\ UNCHANGED <<waiters, status>>

\* query(), listTables(), describeTable(): ready(), then call().
BeginSend(q) ==
  /\ child # NoChild
  /\ Call(q)
  /\ UNCHANGED <<child, starting, waiters, forks, crashes, proc, outbox,
                 adapter, initId, job, done>>

BeginWait(q) ==
  /\ child = NoChild
  /\ starting # NoChild
  /\ waiters' = Append(waiters, q)
  /\ status' = [status EXCEPT ![q] = "waiting"]
  /\ UNCHANGED <<phase, child, starting, nextId, pending, armed, childVars>>

BeginStart(q) ==
  /\ child = NoChild
  /\ starting = NoChild
  /\ Start
  /\ waiters' = <<q>>
  /\ status' = [status EXCEPT ![q] = "waiting"]
  /\ UNCHANGED phase

Begin(q) == /\ phase = "serving"
            /\ LoopFree
            /\ status[q] = "idle"
            /\ BeginSend(q) \/ BeginWait(q) \/ BeginStart(q)

\* A caller that awaited this.starting goes on with call().
Resume ==
  /\ Up
  /\ ~LoopFree
  /\ waiters' = Tail(waiters)
  /\ Call(Head(waiters))
  /\ UNCHANGED <<child, starting, forks, crashes, proc, outbox, adapter,
                 initId, job, done>>

\* The catch of start(), with what awaits this.starting: everybody fails,
\* and at startup serve() gives up.
StartFailed(settled) ==
  /\ child' = NoChild
  /\ starting' = NoChild
  /\ waiters' = <<>>
  /\ status' = [q \in Calls |-> IF \E i \in DOMAIN waiters : waiters[i] = q
                                  THEN "startFailed" ELSE settled[q]]
  /\ phase' = IF phase = "connecting" THEN "stopped" ELSE phase

\* child.on("message"): an unknown id is ignored.
OnMessage(c) ==
  /\ Up
  /\ LoopFree
  /\ outbox[c] # <<>>
  /\ outbox' = [outbox EXCEPT ![c] = Tail(@)]
  /\ LET r == Head(outbox[c])
         hit == {p \in pending[c] : p.id = r.id}
         init == \E p \in hit : p.call = "init"
     IN /\ pending' = Forget(c, hit)
        /\ armed' = Disarmed(CallsOf(hit))
        /\ \/ /\ ~init
              /\ status' = Settle(CallsOf(hit), r.outcome)
              /\ UNCHANGED <<phase, child, starting, waiters, proc>>
           \/ /\ init
              /\ r.outcome = "ok"
              /\ starting' = NoChild
              /\ phase' = "serving"
              /\ UNCHANGED <<child, waiters, status, proc>>
           \/ /\ init
              /\ r.outcome # "ok"
              /\ proc' = Killed(c)
              /\ StartFailed(status)
  /\ UNCHANGED <<nextId, forks, crashes, inbox, adapter, initId, job, done>>

\* The calls an exit of c rejects.
Rejected_Current(c) == IF child = NoChild THEN {} ELSE CallsOf(pending[child])  \* mutant: this.pending
Rejected_None(c) == {}    \* mutant: the map is cleared, nobody is rejected
Rejected(c) == CallsOf(pending[c])

\* child.on("exit"): only the calls of that child are rejected.
OnExit(c) ==
  /\ Up
  /\ LoopFree
  /\ proc[c] = "gone"
  /\ proc' = [proc EXCEPT ![c] = "exited"]
  /\ pending' = Forget(c, pending[c])
  /\ armed' = Disarmed(Rejected(c))
  /\ LET rejected == Settle(Rejected(c), "exited") IN
       \/ /\ \A p \in pending[c] : p.call # "init"
          /\ child' = IF child = c THEN NoChild ELSE child
          /\ status' = rejected
          /\ UNCHANGED <<phase, starting, waiters>>
       \/ /\ \E p \in pending[c] : p.call = "init"
          /\ StartFailed(rejected)
  /\ UNCHANGED <<nextId, forks, crashes, inbox, outbox, adapter, initId, job, done>>

\* A query's timer. All deadlines are the configured queryTimeoutMs, so
\* timers fire in the order they were armed. this.child is dropped whatever
\* child it names by now; the kill is for the child the query was sent to.
OnTimer(t) ==
  /\ Up
  /\ LoopFree
  /\ \A u \in armed : t.id <= u.id
  /\ armed' = armed \ {t}
  /\ pending' = Forget(t.child, {[id |-> t.id, call |-> t.call]})
  /\ child' = NoChild
  /\ proc' = Killed(t.child)
  /\ status' = [status EXCEPT ![t.call] = "timeout"]
  /\ UNCHANGED <<phase, starting, waiters, nextId, forks, crashes, inbox,
                 outbox, adapter, initId, job, done>>

\* close(), then process.exit: the last step of the parent.
Close ==
  /\ phase = "serving"
  /\ LoopFree
  /\ phase' = "stopped"
  /\ proc' = IF child = NoChild THEN proc ELSE Killed(child)
  /\ child' = NoChild
  /\ UNCHANGED <<starting, waiters, nextId, pending, armed, status, forks,
                 crashes, inbox, outbox, adapter, initId, job, done>>

-----------------------------------------------------------------------------
(* The children.                                                           *)

Send(c, id, outcome) ==
  outbox' = [outbox EXCEPT ![c] = Append(@, [id |-> id, outcome |-> outcome])]

\* The message handler up to its first await: init awaits the import of the
\* adapter's module; a call runs its statement on the spot, or fails because
\* there is no adapter yet.
Receive(c) ==
  /\ Alive(c)
  /\ job[c] = NoJob
  /\ inbox[c] # <<>>
  /\ inbox' = [inbox EXCEPT ![c] = Tail(@)]
  /\ LET r == Head(inbox[c]) IN
       \/ /\ r.call = "init"
          /\ adapter' = [adapter EXCEPT ![c] = "loading"]
          /\ initId' = [initId EXCEPT ![c] = r.id]
          /\ UNCHANGED <<job, outbox>>
       \/ /\ r.call # "init"
          /\ adapter[c] = "open"
          /\ job' = [job EXCEPT ![c] = r]
          /\ UNCHANGED <<adapter, initId, outbox>>
       \/ /\ r.call # "init"
          /\ adapter[c] # "open"
          /\ Send(c, r.id, "uninit")
          /\ UNCHANGED <<adapter, initId, job>>
  /\ UNCHANGED <<parentVars, forks, crashes, proc, done>>

\* The import is there: construct the adapter and connect it.
Load(c) ==
  /\ Alive(c)
  /\ job[c] = NoJob
  /\ adapter[c] = "loading"
  /\ \E ok \in BOOLEAN :
       /\ adapter' = [adapter EXCEPT ![c] = IF ok THEN "open" ELSE "failed"]
       /\ Send(c, initId[c], IF ok THEN "ok" ELSE "error")
  /\ UNCHANGED <<parentVars, forks, crashes, proc, inbox, initId, job, done>>

\* The statement ends, with a result or with the database's error.
Finish(c) ==
  /\ Alive(c)
  /\ job[c] # NoJob
  /\ job' = [job EXCEPT ![c] = NoJob]
  /\ \/ /\ done' = done \union {job[c].call}
        /\ Send(c, job[c].id, "ok")
     \/ /\ Send(c, job[c].id, "error")
        /\ UNCHANGED done
  /\ UNCHANGED <<parentVars, forks, crashes, proc, inbox, adapter, initId>>

\* A killed process dies, at any moment after the signal.
Die(c) ==
  /\ proc[c] = "killed"
  /\ proc' = [proc EXCEPT ![c] = "gone"]
  /\ UNCHANGED <<parentVars, forks, crashes, inbox, outbox, adapter, initId, job, done>>

\* A process dies by itself (a fault in native code, the OOM killer).
Crash(c) ==
  /\ proc[c] = "running"
  /\ crashes < MaxCrashes
  /\ crashes' = crashes + 1
  /\ proc' = [proc EXCEPT ![c] = "gone"]
  /\ UNCHANGED <<parentVars, forks, inbox, outbox, adapter, initId, job, done>>

\* process.on("disconnect"): the parent is gone. A child blocked in a
\* statement does not get there.
Disconnect_Not(c) == FALSE /\ UNCHANGED vars    \* mutant: no such handler
Disconnect(c) ==
  /\ phase \in {"stopped", "crashed"}
  /\ Alive(c)
  /\ job[c] = NoJob
  /\ proc' = [proc EXCEPT ![c] = "gone"]
  /\ UNCHANGED <<parentVars, forks, crashes, inbox, outbox, adapter, initId, job, done>>

ChildStep(c) == Receive(c) \/ Load(c) \/ Finish(c) \/ Die(c) \/ Crash(c) \/ Disconnect(c)

Next ==
  \/ Connect
  \/ \E q \in Calls : Begin(q)
  \/ Resume
  \/ \E c \in Children : OnMessage(c) \/ OnExit(c)
  \/ \E t \in armed : OnTimer(t)
  \/ Close
  \/ \E c \in Children : ChildStep(c)

Spec == Init /\ [][Next]_vars
-----------------------------------------------------------------------------
(* Safety.                                                                 *)

\* A caller is told of success only when the statement of that very call was
\* completed, however many children came and went (resolve in isolate.ts
\* "message", the ids of call()).
OwnReply == \A q \in Calls : status[q] = "ok" => q \in done

\* The maps of pending calls hold exactly the callers who still wait: an
\* answered call leaves its map on every path, a waiting one is in one map.
\* Every timer names an entry of the map of the child its query was sent to, so
\* no late timer kills a process over a query that was answered.
PendingIsSent ==
  /\ \A c \in Children : \A p \in pending[c] : p.call # "init" => status[p.call] = "sent"
  /\ \A q \in Calls : status[q] = "sent" => \E c \in Children : q \in CallsOf(pending[c])
  /\ \A t \in armed : [id |-> t.id, call |-> t.call] \in pending[t.child]

\* this.starting is set exactly while one child's init is unanswered: callers
\* during a start share it, and no second child is forked meanwhile.
OneStart ==
  \A c \in Children :
    (\E p \in pending[c] : p.call = "init") <=> starting = c

\* A process that was not killed works for nobody who was already answered:
\* what it runs, or has still to read, belongs to callers who wait.
NoRunaway ==
  \A c \in Children : proc[c] = "running" =>
    \A r \in {job[c]} \union {inbox[c][i] : i \in DOMAIN inbox[c]} :
      r.call \in Calls => status[r.call] = "sent"

\* The maps, the timers and the processes of all children agree on who waits
\* for what (ready, start and call in isolate.ts).
Bookkeeping == PendingIsSent /\ OneStart /\ NoRunaway

\* "A killed child's late exit event must not reject calls already sent to
\* its replacement": who is rejected by an exit had its call in that child.
ExitIsolated ==
  [][\A q \in Calls : (status[q] # "exited" /\ status'[q] = "exited") =>
       \E c \in Children : /\ q \in CallsOf(pending[c])
                           /\ proc[c] = "gone"
                           /\ proc'[c] = "exited"]_vars

-----------------------------------------------------------------------------
(* What comments and tests of the repository say, and the code does not    *)
(* keep.                                                                   *)

\* The conformance suite expects the server to answer after a timeout; a call
\* that comes while the replacement starts is sent ahead of its adapter.
NoCallBeforeInit == \A q \in Calls : status[q] # "uninit"

-----------------------------------------------------------------------------
(* Liveness. The event loop polls every source of events, and the system   *)
(* delivers signals. A query's statement may run for ever; importing and   *)
(* opening the adapter, and reading the catalog, end.                      *)

ParentFairness ==
  /\ WF_vars(Connect)
  /\ WF_vars(Resume)
  /\ \A c \in Children : WF_vars(OnMessage(c)) /\ WF_vars(OnExit(c))
  /\ WF_vars(\E t \in armed : OnTimer(t))

ChildFairness ==
  \A c \in Children :
    /\ WF_vars(Receive(c))
    /\ WF_vars(Load(c))
    /\ WF_vars(job[c].call \in Catalogs /\ Finish(c))
    /\ WF_vars(Die(c))
    /\ WF_vars(Disconnect(c))

FairSpec == Spec /\ ParentFairness /\ ChildFairness

Down == phase \in {"stopped", "crashed"}

\* Every caller is answered, or the server is gone: a stuck statement is cut
\* off by its timer, and takes the calls queued behind it along.
CallsSettle ==
  \A q \in Calls : (status[q] \in {"waiting", "sent"}) ~> (status[q] \in Settled \/ Down)

\* No child outlives the server but one that is stuck in a statement.
ChildrenExit ==
  \A c \in Children : (Down /\ Alive(c)) ~> (~Alive(c) \/ job[c] # NoJob)

-----------------------------------------------------------------------------
(* Refinement: IsolatedAdapter is a CallService.                           *)

OutcomeOf(s) == CASE s = "idle" -> "idle"
                  [] s \in {"waiting", "sent"} -> "open"
                  [] s = "ok" -> "ok"
                  [] OTHER -> "failed"

Service == INSTANCE CallService
             WITH outcome <- [q \in Calls |-> OutcomeOf(status[q])],
                  up <- ~Down

\* The detailed system implements the abstract one.
IsService == Service!Spec
=============================================================================
