-------------------------- MODULE MysqlPoolProofs --------------------------
(* What the proof system checks about MysqlPool: for the three languages,  *)
(* every set of calls, every size of the pool, in read-only mode and not.  *)
EXTENDS MysqlPool, FiniteSetTheorems, TLAPS

USE DEF Calls, Rust, TypeScript, Python

-----------------------------------------------------------------------------
(* The inductive invariant.                                                *)

Active(q) == pc[q] \notin {"idle", "end"}
Holding(q) == pc[q] \in {"run", "getKiller", "kill"}

\* Calls that wait for a connection are in the queue once.
Queued ==
  /\ \A i \in DOMAIN queue : pc[queue[i]] \in {"get", "getKiller"}
  /\ \A i, j \in DOMAIN queue : queue[i] = queue[j] => i = j
  /\ Python => queue = <<>>

\* Which steps a call takes in which language. Python's calls are one at a
\* time, and a query of its runs on the socket it found.
Steps ==
  /\ \A q \in Calls : pc[q] # "end" => status[q] = "none"
  /\ \A k \in Catalogs : pc[k] \notin {"getKiller", "kill"}
  /\ TypeScript => \A q \in Calls : pc[q] \notin {"getKiller", "kill"}
  /\ Python => \A p, q \in Calls : Active(p) /\ Active(q) => p = q
  /\ Python => \A q \in Calls : pc[q] # "get"
  /\ Python => \A q \in Queries : pc[q] = "run" => socket = conn[q]
  /\ socket \in made \union {NoConn}

\* What a call holds, it holds while it runs.
Holdings ==
  /\ \A q \in Calls : Held(q) \subseteq made
  /\ \A q \in Calls : killer[q] # NoConn <=> pc[q] = "kill"
  /\ \A q \in Calls : conn[q] # NoConn => Holding(q)
  /\ \A q \in Calls : Holding(q) => conn[q] # NoConn \/ (Python /\ q \in Catalogs)

\* A connection of a pool is in one place.
Placed(c) == c \in idle \union dirty \/ \E q \in Calls : c \in Held(q)
Places ==
  ~Python =>
    /\ idle \cap dirty = {}
    /\ \A q \in Calls : Held(q) \cap (idle \union dirty) = {}
    /\ \A p, q \in Calls : \A c \in Held(p) : c \in Held(q) => p = q
    /\ \A q \in Calls : conn[q] # NoConn => conn[q] # killer[q]
    /\ \A c \in made : Placed(c)

\* A query's statement runs on the connection of the query, and nowhere else.
Threads ==
  /\ \A q \in killed : pc[q] = "end" /\ status[q] = "timeout"
  /\ ~TypeScript =>
       /\ \A c \in Conns : commands[c] = <<>>
       /\ \A c \in Conns : thread[c] \in Queries =>
            /\ pc[thread[c]] \notin {"idle", "get"}
            /\ pc[thread[c]] # "end" => conn[thread[c]] = c
            /\ status[thread[c]] = "timeout" => thread[c] \in spared
       /\ \A q \in Queries : Holding(q) => thread[conn[q]] \in {q, NoCall}

\* A session that would take writes has its SET SESSION ahead of everything.
Sessions ==
  /\ \A c \in Conns \ made : thread[c] = NoCall /\ commands[c] = <<>>
  /\ ReadOnly => \A c \in made \ readonly :
       thread[c] = NoCall /\ commands[c] # <<>> /\ Head(commands[c]) = Setup

\* A lost connection is charged once: to the query that broke, or to the
\* socket until it is closed.
Charged == {q \in Queries : status[q] = "broken"}
Losses == IsFiniteSet(Charged) /\ Cardinality(Charged) <= Cardinality(lost \ {socket})

IInv == TypeOK /\ Queued /\ Steps /\ Holdings /\ Places /\ Threads /\ Sessions /\ Losses

-----------------------------------------------------------------------------
(* What the operations do, call by call.                                   *)

\* A step of q changes no other call.
Others(q) == \A p \in Calls \ {q} :
  pc'[p] = pc[p] /\ conn'[p] = conn[p] /\ killer'[p] = killer[p] /\ status'[p] = status[p]

Pcs == {"idle", "get", "run", "getKiller", "kill", "end"}
Results == {"none", "ok", "error", "timeout", "unreachable", "broken"}
CallTypes ==
  /\ pc' \in [Calls -> Pcs] /\ status' \in [Calls -> Results]
  /\ conn' \in [Calls -> Conns \union {NoConn}] /\ killer' \in [Calls -> Conns \union {NoConn}]

\* What is left of a call that has returned.
Ended(q, s) ==
  /\ pc'[q] = "end" /\ status'[q] = s /\ conn'[q] = NoConn /\ killer'[q] = NoConn
  /\ Others(q)

LEMMA ReturnStep ==
  ASSUME TypeOK, NEW q \in Calls, NEW s \in Results, Return(q, s)
  PROVE  /\ CallTypes /\ Ended(q, s)
         /\ Python => dirty' = dirty
         /\ ~Python => dirty' = dirty \union Held(q)
<1>1. CallTypes BY DEF Return, TypeOK, CallTypes, Pcs, Results, NoConn
<1>2. Ended(q, s) BY DEF Return, TypeOK, Ended, Others
<1> QED BY <1>1, <1>2 DEF Return

\* A statement goes to a thread, in TypeScript to the end of a queue.
LEMMA SendStep ==
  ASSUME TypeOK, NEW q \in Calls, NEW c \in Conns, Send(q, c)
  PROVE  /\ commands' \in [Conns -> Seq(Calls \union {Setup})]
         /\ thread' \in [Conns -> Calls \union {NoCall}]
         /\ TypeScript => /\ thread' = thread
                          /\ commands'[c] = Append(commands[c], q)
                          /\ \A d \in Conns \ {c} : commands'[d] = commands[d]
         /\ ~TypeScript => /\ commands' = commands
                           /\ thread'[c] = q
                           /\ \A d \in Conns \ {c} : thread'[d] = thread[d]
<1>1. Append(commands[c], q) \in Seq(Calls \union {Setup}) BY DEF TypeOK
<1>2. CASE TypeScript
  <2>1. commands' = [commands EXCEPT ![c] = Append(commands[c], q)] /\ thread' = thread
    BY <1>2 DEF Send
  <2> QED BY <1>1, <1>2, <2>1 DEF TypeOK
<1>3. CASE ~TypeScript
  <2>1. commands' = commands /\ thread' = [thread EXCEPT ![c] = q]
    BY <1>3 DEF Send
  <2> QED BY <1>3, <2>1 DEF TypeOK
<1> QED BY <1>2, <1>3

\* A call goes on to another place.
Goes(q, x) == pc' = [pc EXCEPT ![q] = x]

\* The call at the head of the queue leaves it.
Leaves(q) == queue # <<>> /\ Head(queue) = q /\ queue' = Tail(queue)

\* PyMySQL's ping finds the socket as it was, or opens a new one.
LEMMA PingStep ==
  ASSUME TypeOK, NEW c \in Conns, Ping(c), Steps
  PROVE  /\ c \in made' /\ made \subseteq made' /\ made' \subseteq Conns
         /\ socket' = c /\ readonly \subseteq readonly' /\ readonly' \subseteq made'
         /\ ReadOnly /\ c \notin made => c \in readonly'
         /\ lost \ {socket} \subseteq lost \ {c}
         /\ made' \subseteq made \union {c}
<1>0. /\ made \subseteq Conns /\ readonly \subseteq made /\ lost \subseteq made
      /\ socket \in made \union {NoConn} /\ c # NoConn
  BY DEF TypeOK, Steps, NoConn, Conns
<1>1. CASE c = socket /\ UNCHANGED <<made, socket, readonly>>
  BY <1>0, <1>1
<1>2. CASE Reconnect(c)
  <2>1. /\ c \notin made /\ made' = made \union {c} /\ socket' = c
        /\ readonly' = IF ReadOnly THEN readonly \union {c} ELSE readonly
    BY <1>2 DEF Reconnect, SetUp
  <2> QED BY <1>0, <2>1
<1> QED BY <1>1, <1>2 DEF Ping

-----------------------------------------------------------------------------
(* Types.                                                                  *)

\* Every step keeps the types; that a KILL ends a query, and that what a call
\* gives back was made, are parts of the invariant.
LEMMA TypeStep ==
  ASSUME TypeOK, Steps, Holdings, Threads, Sessions, [Next]_vars
  PROVE  TypeOK'
<1> USE DEF callVars, poolVars, driverVars, serverVars
<1>a. \A q \in Calls : Append(queue, q) \in Seq(Calls) BY DEF TypeOK
<1>b. queue # <<>> => Tail(queue) \in Seq(Calls) BY DEF TypeOK
<1>c. \A q \in Calls : Held(q) \subseteq made BY DEF Holdings
<1>d. Queries \subseteq Calls /\ Catalogs \subseteq Calls OBVIOUS
<1>1. ASSUME NEW q \in Queries, Query(q) PROVE TypeOK'
  <2>1. CASE ~Python /\ Goes(q, "get") /\ Wait(q) /\ UNCHANGED <<conn, status, made, socket, commands, thread, readonly>>
    BY <1>1, <1>a, <2>1 DEF Query, Wait, Goes, TypeOK
  <2>2. CASE Python /\ Unreachable(q) /\ queue' = queue
    BY <1>1, <2>2 DEF Query, Unreachable, PingFails, TypeOK, NoConn
  <2>3. ASSUME NEW c \in Conns, Ping(c), conn' = [conn EXCEPT ![q] = c], Send(q, c),
               Goes(q, "run"), status' = status, queue' = queue
        PROVE  TypeOK'
    <3>1. /\ commands' \in [Conns -> Seq(Calls \union {Setup})]
          /\ thread' \in [Conns -> Calls \union {NoCall}]
      BY <2>3, SendStep
    <3>2. /\ made \subseteq made' /\ made' \subseteq Conns /\ socket' = c
          /\ readonly' \subseteq made'
      BY <2>3, PingStep
    <3>3. /\ UNCHANGED <<adapter, killer, left, idle, dirty, lost, killed, spared, status, queue>>
          /\ pc' \in [Calls -> Pcs] /\ conn' \in [Calls -> Conns \union {NoConn}]
      BY <1>1, <2>3 DEF Query, Goes, TypeOK, Pcs
    <3> QED BY <3>1, <3>2, <3>3 DEF TypeOK, Pcs
  <2> QED BY <1>1, <2>1, <2>2, <2>3 DEF Query, PyQuery, Goes
<1>2. ASSUME NEW k \in Catalogs, Catalog(k) PROVE TypeOK'
  <2>1. left' \in [Catalogs -> 0..3] BY <1>2 DEF Catalog, TypeOK
  <2>2. CASE ~Python /\ Goes(k, "get") /\ Wait(k) /\ UNCHANGED <<commands, thread>>
    BY <1>2, <1>a, <2>1, <2>2 DEF Catalog, Wait, Goes, TypeOK
  <2>3. CASE /\ Goes(k, "run") /\ queue' = queue
             /\ IF socket = NoConn THEN UNCHANGED <<commands, thread>> ELSE Send(k, socket)
    <3>1. /\ commands' \in [Conns -> Seq(Calls \union {Setup})]
          /\ thread' \in [Conns -> Calls \union {NoCall}]
      BY <2>3, SendStep DEF TypeOK
    <3> QED BY <1>2, <2>1, <2>3, <3>1 DEF Catalog, Goes, TypeOK
  <2> QED BY <1>2, <2>2, <2>3 DEF Catalog, Goes
<1>3. ASSUME NEW q \in Calls, NEW c \in Conns, Got(q, c) PROVE TypeOK'
  <2>1. /\ commands' \in [Conns -> Seq(Calls \union {Setup})]
        /\ thread' \in [Conns -> Calls \union {NoCall}]
    BY <1>3, SendStep DEF Got
  <2> QED BY <1>3, <1>b, <2>1 DEF Got, Take, TypeOK
<1>4. ASSUME NEW q \in Calls, NEW c \in Conns, GotNew(q, c) PROVE TypeOK'
  <2>1. <<Setup, q>> \in Seq(Calls \union {Setup}) /\ <<q>> \in Seq(Calls \union {Setup})
    OBVIOUS
  <2>2. commands' \in [Conns -> Seq(Calls \union {Setup})]
    BY <1>4, <2>1 DEF GotNew, TypeOK
  <2> QED BY <1>4, <1>b, <2>2 DEF GotNew, TypeOK
<1>5. ASSUME NEW q \in Calls, NEW s \in Results, Return(q, s), queue' \in Seq(Calls),
             socket' \in {socket, NoConn}, left' = left, thread' \in [Conns -> Calls \union {NoCall}],
             killed' \subseteq Queries, spared' \subseteq Queries,
             UNCHANGED <<adapter, idle, made, commands, lost, readonly>>
      PROVE  TypeOK'
  <2>1. CallTypes /\ (dirty' = dirty \/ dirty' = dirty \union Held(q)) BY <1>5, ReturnStep
  <2>2. dirty' \subseteq made BY <1>c, <2>1 DEF TypeOK
  <2> QED BY <1>5, <2>1, <2>2 DEF TypeOK, CallTypes, Pcs, Results
<1>6. ASSUME NEW q \in Calls, NEW s \in Results, Return(q, s), queue' = queue,
             socket' \in {socket, NoConn}, left' = left, thread' = thread, killed' = killed,
             spared' = spared, UNCHANGED <<adapter, idle, made, commands, lost, readonly>>
      PROVE  TypeOK'
  <2>1. /\ queue' \in Seq(Calls) /\ thread' \in [Conns -> Calls \union {NoCall}]
        /\ killed' \subseteq Queries /\ spared' \subseteq Queries
    BY <1>6 DEF TypeOK
  <2> QED BY <1>5, <1>6, <2>1
<1>7. ASSUME NEW q \in Calls, Finished(q) \/ Broken(q) PROVE TypeOK'
  <2>1. PICK s \in Results : Return(q, s) BY <1>7 DEF Finished, Broken, Results
  <2> QED BY <1>6, <1>7, <2>1 DEF Finished, Broken
<1>8. ASSUME NEW k \in Catalogs, CatalogTimeout(k) PROVE TypeOK'
  BY <1>6, <1>8 DEF CatalogTimeout, Results
<1>9. ASSUME NEW q \in Queries, DriverTimeout(q) PROVE TypeOK'
  BY <1>6, <1>9 DEF DriverTimeout, Results
<1>10. ASSUME NEW k \in Catalogs, ReadDone(k) PROVE TypeOK'
  <2>0. left' = [left EXCEPT ![k] = @ - 1] => left' \in [Catalogs -> 0..3]
    BY <1>10 DEF ReadDone, TypeOK
  <2>1. CASE /\ ~Python /\ left' = [left EXCEPT ![k] = @ - 1] /\ Goes(k, "get")
             /\ dirty' = dirty \union {conn[k]} /\ conn' = [conn EXCEPT ![k] = NoConn] /\ Wait(k)
             /\ UNCHANGED <<killer, status, commands, thread>>
    <3>1. conn[k] \in made
      <4>1. pc[k] = "run" BY <1>10 DEF ReadDone
      <4> QED BY <1>c, <2>1, <4>1 DEF Holdings, Holding, Held
    <3> QED BY <1>10, <1>a, <2>0, <2>1, <3>1 DEF ReadDone, Wait, Goes, TypeOK
  <2>2. CASE /\ Python /\ left' = [left EXCEPT ![k] = @ - 1] /\ Send(k, socket)
             /\ UNCHANGED <<pc, conn, killer, status, dirty, queue>>
    <3>1. socket \in Conns BY <1>10, <2>2 DEF ReadDone, Answered, Steps, TypeOK
    <3>2. /\ commands' \in [Conns -> Seq(Calls \union {Setup})]
          /\ thread' \in [Conns -> Calls \union {NoCall}]
      BY <2>2, <3>1, SendStep
    <3> QED BY <1>10, <2>0, <2>2, <3>2 DEF ReadDone, TypeOK
  <2>3. CASE Return(k, "error") /\ UNCHANGED <<left, queue, commands, thread>>
    BY <1>6, <1>10, <2>3 DEF ReadDone, Results
  <2> QED BY <1>10, <2>1, <2>2, <2>3 DEF ReadDone, Goes
<1>11. ASSUME NEW q \in Queries, Timeout(q) PROVE TypeOK'
  BY <1>11, <1>a DEF Timeout, Wait, TypeOK, NoConn
<1>12. ASSUME NEW q \in Queries, NEW c \in Conns, GotKiller(q, c) PROVE TypeOK'
  <2>1. CASE Take(q, c) /\ UNCHANGED <<made, socket, readonly>>
    BY <1>12, <1>b, <2>1 DEF GotKiller, Take, TypeOK
  <2>2. CASE Ping(c) /\ UNCHANGED <<queue, idle>>
    <3>1. /\ made \subseteq made' /\ made' \subseteq Conns /\ socket' = c
          /\ readonly' \subseteq made'
      BY <2>2, PingStep
    <3>2. /\ UNCHANGED <<adapter, conn, left, status, dirty, commands, lost, thread, killed, spared>>
          /\ killer' \in [Calls -> Conns \union {NoConn}] /\ pc' \in [Calls -> Pcs]
      BY <1>12 DEF GotKiller, TypeOK, Pcs
    <3> QED BY <2>2, <3>1, <3>2 DEF TypeOK, Pcs
  <2> QED BY <1>12, <2>1, <2>2 DEF GotKiller
<1>13. ASSUME NEW q \in Queries, Kill(q) PROVE TypeOK'
  <2>0. /\ pc[q] = "kill" /\ Return(q, "timeout") /\ queue' = queue /\ left' = left
        /\ socket' \in {socket, NoConn}
        /\ UNCHANGED <<adapter, idle, made, commands, lost, readonly>>
    BY <1>13 DEF Kill
  <2>1. CASE /\ thread' = [thread EXCEPT ![conn[q]] = NoCall]
             /\ killed' = killed \union ({thread[conn[q]]} \ {NoCall})
             /\ spared' = spared
    <3>1. thread[conn[q]] \in {q, NoCall}
      BY <2>0 DEF Threads, Steps, Holding
    <3>2. killed' \subseteq Queries BY <2>1, <3>1 DEF TypeOK
    <3>3. thread' \in [Conns -> Calls \union {NoCall}] BY <2>1 DEF TypeOK
    <3> QED BY <1>5, <2>0, <2>1, <3>2, <3>3 DEF TypeOK, Results
  <2>2. CASE spared' = spared \union {q} /\ UNCHANGED <<thread, killed>>
    <3>1. spared' \subseteq Queries /\ killed' \subseteq Queries BY <2>2 DEF TypeOK
    <3> QED BY <1>5, <2>0, <2>2, <3>1 DEF TypeOK, Results
  <2> QED BY <1>13, <2>1, <2>2 DEF Kill
<1>14. ASSUME NEW q \in Queries, NoKiller(q) PROVE TypeOK'
  <2>1. /\ Return(q, "timeout") /\ left' = left /\ socket' \in {socket, NoConn}
        /\ UNCHANGED <<adapter, idle, made, commands, lost, readonly, thread, killed>>
        /\ spared' = spared \union {q}
    BY <1>14 DEF NoKiller, PingFails
  <2>2. queue' \in Seq(Calls) BY <1>14, <1>b DEF NoKiller, TypeOK
  <2>3. spared' \subseteq Queries /\ killed' \subseteq Queries BY <2>1 DEF TypeOK
  <2> QED BY <1>5, <2>1, <2>2, <2>3 DEF TypeOK, Results
<1>n. ASSUME NEW q \in Calls, NotGot(q) PROVE TypeOK'
  <2>1. queue' \in Seq(Calls) BY <1>n, <1>b DEF NotGot, TypeOK
  <2>2. /\ thread' \in [Conns -> Calls \union {NoCall}]
        /\ killed' \subseteq Queries /\ spared' \subseteq Queries
    BY <1>n DEF NotGot, TypeOK
  <2> QED BY <1>5, <1>n, <2>1, <2>2 DEF NotGot, Results
<1>15. ASSUME NEW c \in Conns, Recycle(c) PROVE TypeOK'
  BY <1>15 DEF Recycle, SetUp, TypeOK
<1>16. ASSUME NEW c \in Conns, Serve(c) PROVE TypeOK'
  <2>1. /\ Head(commands[c]) \in Calls \union {Setup}
        /\ Tail(commands[c]) \in Seq(Calls \union {Setup})
    <3>1. commands[c] \in Seq(Calls \union {Setup}) /\ commands[c] # <<>>
      BY <1>16 DEF Serve, TypeOK
    <3> QED BY <3>1
  <2>2. commands' \in [Conns -> Seq(Calls \union {Setup})]
    BY <1>16, <2>1 DEF Serve, TypeOK
  <2>3. thread' \in [Conns -> Calls \union {NoCall}] BY <1>16, <2>1 DEF Serve, TypeOK
  <2>4. c \in made BY <1>16 DEF Serve, Sessions
  <2>5. readonly' \subseteq made BY <1>16, <2>4 DEF Serve, TypeOK
  <2> QED BY <1>16, <2>2, <2>3, <2>5 DEF Serve, TypeOK
<1>17. ASSUME NEW c \in Conns, Complete(c) PROVE TypeOK'
  BY <1>17 DEF Complete, TypeOK
<1>18. ASSUME NEW c \in Conns, Lose(c) PROVE TypeOK'
  BY <1>18 DEF Lose, TypeOK, Steps, NoConn, Conns
<1>19. CASE UNCHANGED vars BY <1>19 DEF vars, TypeOK
<1> QED BY <1>1, <1>2, <1>3, <1>4, <1>7, <1>8, <1>9, <1>10, <1>11, <1>12, <1>13, <1>14,
           <1>n, <1>15, <1>16, <1>17, <1>18, <1>19 DEF Next

-----------------------------------------------------------------------------
(* The queue.                                                              *)

Waits(q) == pc[q] \in {"get", "getKiller"}

\* A call that waits goes to the end of the queue.
LEMMA Joins ==
  ASSUME TypeOK, Queued, ~Python, adapter' = adapter,
         NEW q \in Calls, ~Waits(q), Wait(q), Waits(q)',
         \A p \in Calls \ {q} : pc'[p] = pc[p]
  PROVE  Queued'
<1>1. /\ Len(queue) \in Nat /\ DOMAIN queue = 1..Len(queue)
      /\ DOMAIN queue' = 1..(Len(queue) + 1)
      /\ \A i \in DOMAIN queue : queue'[i] = queue[i] /\ queue[i] \in Calls
      /\ queue'[Len(queue) + 1] = q
  BY DEF TypeOK, Wait
<1>2. \A i \in DOMAIN queue : queue[i] # q BY <1>1 DEF Queued, Waits
<1> QED BY <1>1, <1>2 DEF Queued, Waits

\* The first of the queue gets what it waits for.
LEMMA Served ==
  ASSUME TypeOK, Queued, adapter' = adapter, NEW q \in Calls, Leaves(q),
         \A p \in Calls \ {q} : pc'[p] = pc[p]
  PROVE  Queued'
<1>0. queue \in Seq(Calls) BY DEF TypeOK
<1>1. /\ Len(queue) \in Nat \ {0} /\ DOMAIN queue = 1..Len(queue)
      /\ q = queue[1] /\ \A i \in DOMAIN queue : queue[i] \in Calls
  BY <1>0 DEF Leaves
<1>2. /\ queue' \in Seq(Calls) /\ Len(queue') = Len(queue) - 1
      /\ \A i \in 1..(Len(queue) - 1) : queue'[i] = queue[i + 1]
  BY <1>0, <1>1 DEF Leaves
<1>3. DOMAIN queue' = 1..(Len(queue) - 1) BY <1>1, <1>2
<1>4. 1 \in DOMAIN queue BY <1>1
<1>5. ASSUME NEW i \in DOMAIN queue' PROVE pc'[queue'[i]] \in {"get", "getKiller"}
  <2>1. i + 1 \in DOMAIN queue /\ i + 1 # 1 BY <1>1, <1>3
  <2>2. queue[i + 1] # queue[1] BY <1>4, <2>1 DEF Queued
  <2> QED BY <1>1, <1>2, <1>3, <2>1, <2>2 DEF Queued
<1>6. ASSUME NEW i \in DOMAIN queue', NEW j \in DOMAIN queue', queue'[i] = queue'[j]
      PROVE  i = j
  <2>1. i \in Int /\ j \in Int /\ i + 1 \in DOMAIN queue /\ j + 1 \in DOMAIN queue
    BY <1>1, <1>3
  <2>2. i + 1 = j + 1 BY <1>2, <1>3, <1>6, <2>1 DEF Queued
  <2> QED BY <2>1, <2>2
<1>7. ~Python BY DEF Queued, Leaves
<1> QED BY <1>5, <1>6, <1>7 DEF Queued

\* A step of a call that is not in the queue leaves it.
LEMMA Passes ==
  ASSUME TypeOK, Queued, adapter' = adapter, queue' = queue, NEW q \in Calls,
         ~Waits(q) \/ Python,
         \A p \in Calls \ {q} : pc'[p] = pc[p]
  PROVE  Queued'
<1>1. \A i \in DOMAIN queue : queue[i] \in Calls BY DEF TypeOK
<1>2. CASE Python BY <1>2 DEF Queued
<1>3. CASE ~Waits(q) BY <1>1, <1>3 DEF Queued, Waits
<1> QED BY <1>2, <1>3

-----------------------------------------------------------------------------
(* The calls and what they hold.                                           *)

\* One call goes on.
Moves(q) ==
  /\ Others(q) /\ adapter' = adapter
  /\ made \subseteq made' /\ socket' \in made' \union {NoConn}
  /\ pc'[q] # "end" => status'[q] = "none"
  /\ q \in Catalogs \/ TypeScript => pc'[q] \notin {"getKiller", "kill"}
  /\ Python => pc'[q] # "get" /\ (Active(q) \/ MayBegin)
  /\ Python /\ q \in Queries /\ pc'[q] = "run" => socket' = conn'[q]
  /\ {conn'[q], killer'[q]} \ {NoConn} \subseteq made'
  /\ killer'[q] # NoConn <=> pc'[q] = "kill"
  /\ conn'[q] # NoConn => pc'[q] \in {"run", "getKiller", "kill"}
  /\ pc'[q] \in {"run", "getKiller", "kill"} => conn'[q] # NoConn \/ (Python /\ q \in Catalogs)

LEMMA MovesKeeps ==
  ASSUME TypeOK, Steps, Holdings, NEW q \in Calls, Moves(q)
  PROVE  Steps' /\ Holdings'
<1>1. Python => \A p \in Calls : Active(p) => p = q
  BY DEF Moves, Steps, MayBegin, Active
<1>2. Steps'
  <2>1. \A p \in Calls : pc'[p] # "end" => status'[p] = "none"
    BY DEF Moves, Others, Steps
  <2>2. \A k \in Catalogs : pc'[k] \notin {"getKiller", "kill"}
    BY DEF Moves, Others, Steps
  <2>3. TypeScript => \A p \in Calls : pc'[p] \notin {"getKiller", "kill"}
    BY DEF Moves, Others, Steps
  <2>4. Python => \A p \in Calls : Active(p)' => p = q
    BY <1>1 DEF Moves, Others, Active
  <2>5. Python => \A p \in Calls : pc'[p] # "get"
    BY DEF Moves, Others, Steps
  <2>6. Python => \A p \in Queries : pc'[p] = "run" => socket' = conn'[p]
    BY <2>4 DEF Moves, Active
  <2> QED BY <2>1, <2>2, <2>3, <2>4, <2>5, <2>6 DEF Moves, Steps
<1>3. Holdings'
  <2>1. \A p \in Calls : (Held(p) \subseteq made)' BY DEF Moves, Others, Holdings, Held
  <2>2. \A p \in Calls : (killer[p] # NoConn <=> pc[p] = "kill")'
    BY DEF Moves, Others, Holdings
  <2>3. \A p \in Calls : (conn[p] # NoConn => Holding(p))'
    BY DEF Moves, Others, Holdings, Holding
  <2>4. \A p \in Calls : (Holding(p) => conn[p] # NoConn \/ (Python /\ p \in Catalogs))'
    BY DEF Moves, Others, Holdings, Holding
  <2> QED BY <2>1, <2>2, <2>3, <2>4 DEF Holdings
<1> QED BY <1>2, <1>3

\* What one call takes, gives back or makes has been in no other place.
LEMMA PlacesKept ==
  ASSUME TypeOK, Holdings, Places, NEW q \in Calls, Others(q), adapter' = adapter,
         ~Python =>
           /\ Held(q)' \union idle' \union dirty'
                = Held(q) \union idle \union dirty \union (made' \ made)
           /\ idle' \cap dirty' = {}
           /\ Held(q)' \cap (idle' \union dirty') = {}
           /\ conn'[q] # NoConn => conn'[q] # killer'[q]
  PROVE  Places'
<1> SUFFICES ASSUME ~Python PROVE Places' BY DEF Places
<1>1. \A p \in Calls \ {q} : Held(p)' = Held(p) BY DEF Others, Held
<1>2. \A p \in Calls : Held(p) \subseteq made BY DEF Holdings
<1>3. \A p \in Calls \ {q} : Held(p) \cap (Held(q) \union idle \union dirty) = {}
  BY DEF Places
<1>4. \A p \in Calls \ {q} : Held(p)' \cap (Held(q)' \union idle' \union dirty') = {}
  BY <1>1, <1>2, <1>3
<1>5. \A p \in Calls : Held(p)' \cap (idle' \union dirty') = {} BY <1>4
<1>6. \A p, r \in Calls : \A c \in Held(p)' : c \in Held(r)' => p = r
  BY <1>1, <1>4 DEF Places
<1>7. \A p \in Calls : conn'[p] # NoConn => conn'[p] # killer'[p] BY DEF Others, Places
<1>8. ASSUME NEW c \in made' PROVE Placed(c)'
  <2>1. CASE c \in Held(q)' \union idle' \union dirty' BY <2>1 DEF Placed
  <2>2. CASE c \notin Held(q)' \union idle' \union dirty'
    <3>1. c \in made /\ c \notin Held(q) \union idle \union dirty BY <1>8, <2>2
    <3>2. PICK p \in Calls \ {q} : c \in Held(p) BY <3>1 DEF Places, Placed
    <3> QED BY <1>1, <3>2 DEF Placed
  <2> QED BY <2>1, <2>2
<1> QED BY <1>5, <1>6, <1>7, <1>8 DEF Places

CallInv == Queued /\ Steps /\ Holdings /\ Places

\* A call that returns.
LEMMA ReturnKeeps ==
  ASSUME TypeOK, CallInv, NEW q \in Calls, NEW s \in Results, Return(q, s), Active(q),
         (queue' = queue /\ (~Waits(q) \/ Python)) \/ Leaves(q),
         socket' \in {socket, NoConn}, UNCHANGED <<adapter, idle, made>>
  PROVE  CallInv'
<1> USE DEF CallInv
<1>1. Ended(q, s) BY ReturnStep
<1>2. Queued' BY <1>1, Served, Passes DEF Ended, Others
<1>3. Moves(q) BY <1>1 DEF Moves, Ended, Steps
<1>4. Held(q)' = {} BY <1>1 DEF Ended, Held
<1>5. ~Python => dirty' = dirty \union Held(q) BY ReturnStep
<1>6. Places' BY <1>1, <1>4, <1>5, PlacesKept DEF Places, Ended
<1> QED BY <1>2, <1>3, <1>6, MovesKeeps

\* A step of no call, which moves connections from one list to the other.
LEMMA NoCallKeeps ==
  ASSUME TypeOK, CallInv, UNCHANGED <<adapter, callVars, queue, made, socket>>,
         idle' \union dirty' = idle \union dirty, idle' \cap dirty' = {}
  PROVE  CallInv'
<1> USE DEF CallInv, callVars
<1>1. Queued' BY DEF Queued
<1>2. Steps' BY DEF Steps, Active
<1>3. Holdings' BY DEF Holdings, Holding, Held
<1>4. Places' BY DEF Places, Held, Placed
<1> QED BY <1>1, <1>2, <1>3, <1>4

\* Every step keeps the queue, the calls and the places of the connections.
LEMMA CallsStep ==
  ASSUME TypeOK, CallInv, [Next]_vars
  PROVE  CallInv'
<1> USE DEF CallInv, poolVars, driverVars, serverVars
<1>0. /\ \A q \in Calls : q \in Queries \/ q \in Catalogs
      /\ \A q \in Calls : \A x \in Pcs : Goes(q, x) =>
           pc'[q] = x /\ \A p \in Calls \ {q} : pc'[p] = pc[p]
      /\ \A q \in Calls : Active(q) => status[q] = "none"
      /\ \A q \in Calls : pc[q] \in {"idle", "get"} => conn[q] = NoConn /\ killer[q] = NoConn
  BY DEF Goes, TypeOK, Steps, Active, Holdings, Holding
<1>1. ASSUME NEW q \in Calls, pc[q] = "idle", MayBegin, ~Python, Goes(q, "get"), Wait(q),
             UNCHANGED <<adapter, conn, killer, status, idle, dirty, made, socket>>
      PROVE  CallInv'
  <2>1. pc'[q] = "get" /\ Others(q) BY <1>0, <1>1 DEF Others, Pcs
  <2>2. Queued' BY <1>1, <2>1, Joins DEF Waits, Others
  <2>3. Moves(q) BY <1>0, <1>1, <2>1 DEF Moves, Steps
  <2>4. Places' BY <1>1, <2>1, PlacesKept DEF Places, Held
  <2> QED BY <2>2, <2>3, <2>4, MovesKeeps
<1>2. ASSUME NEW q \in Queries, Query(q) PROVE CallInv'
  <2>1. CASE ~Python /\ Goes(q, "get") /\ Wait(q) /\ UNCHANGED <<conn, status, made, socket>>
    BY <1>1, <1>2, <2>1 DEF Query
  <2>2. CASE Python /\ Unreachable(q) /\ queue' = queue
    <3>1. /\ pc'[q] = "end" /\ Others(q) /\ conn' = conn /\ killer' = killer /\ made' = made
          /\ socket' = NoConn
      BY <1>2, <2>2 DEF Query, Unreachable, PingFails, Others, TypeOK
    <3>2. Queued' BY <1>2, <2>2, <3>1, Passes DEF Query, Others
    <3>3. Moves(q) BY <1>0, <1>2, <3>1 DEF Query, Moves
    <3>4. Places' BY <1>2, <2>2, <3>1 DEF Query, Places
    <3> QED BY <3>2, <3>3, <3>4, MovesKeeps
  <2>3. ASSUME NEW c \in Conns, Python, Ping(c), conn' = [conn EXCEPT ![q] = c], Send(q, c),
               Goes(q, "run"), status' = status, queue' = queue
        PROVE  CallInv'
    <3>1. /\ pc'[q] = "run" /\ conn'[q] = c /\ killer' = killer /\ Others(q)
          /\ adapter' = adapter /\ MayBegin /\ pc[q] = "idle"
      BY <1>0, <1>2, <2>3 DEF Query, Others, TypeOK, Pcs
    <3>2. made \subseteq made' /\ c \in made' /\ socket' = c BY <2>3, PingStep
    <3>3. Queued' BY <2>3, <3>1, Passes DEF Others
    <3>4. c # NoConn BY DEF Conns, NoConn
    <3>5. q \notin Catalogs BY CallsAssumption
    <3>6. Moves(q) BY <1>0, <2>3, <3>1, <3>2, <3>4, <3>5 DEF Moves, Steps
    <3>7. Places' BY <2>3, <3>1 DEF Places
    <3> QED BY <3>3, <3>6, <3>7, MovesKeeps
  <2> QED BY <1>2, <2>1, <2>2, <2>3 DEF Query, PyQuery, Goes
<1>3. ASSUME NEW k \in Catalogs, Catalog(k) PROVE CallInv'
  <2>1. CASE ~Python /\ Goes(k, "get") /\ Wait(k)
    BY <1>1, <1>3, <2>1 DEF Catalog
  <2>2. CASE Python /\ Goes(k, "run") /\ queue' = queue
    <3>1. /\ pc'[k] = "run" /\ UNCHANGED <<conn, killer, status, made, socket>> /\ Others(k)
          /\ adapter' = adapter /\ MayBegin /\ pc[k] = "idle"
      BY <1>0, <1>3, <2>2 DEF Catalog, Others, Pcs
    <3>2. Queued' BY <2>2, <3>1, Passes DEF Others
    <3>3. k \notin Queries BY CallsAssumption
    <3>4. Moves(k) BY <1>0, <2>2, <3>1, <3>3 DEF Moves, Steps
    <3>5. Places' BY <2>2, <3>1 DEF Places
    <3> QED BY <3>2, <3>4, <3>5, MovesKeeps
  <2> QED BY <1>3, <2>1, <2>2 DEF Catalog, Goes
<1>4. ASSUME NEW q \in Calls, NEW c \in Conns, pc[q] = "get", Leaves(q),
             conn' = [conn EXCEPT ![q] = c], Goes(q, "run"),
             UNCHANGED <<adapter, killer, status, dirty, socket>>,
             \/ c \in idle /\ idle' = idle \ {c} /\ made' = made
             \/ c \notin made /\ idle' = idle /\ made' = made \union {c}
      PROVE  CallInv'
  <2>1. pc'[q] = "run" /\ conn'[q] = c /\ Others(q) BY <1>0, <1>4 DEF Others, TypeOK, Pcs
  <2>2. Queued' BY <1>4, <2>1, Served DEF Others
  <2>3. c # NoConn /\ ~Python BY <1>4 DEF Conns, NoConn, Steps
  <2>4. c \in made' BY <1>4 DEF TypeOK
  <2>5. Moves(q) BY <1>0, <1>4, <2>1, <2>3, <2>4 DEF Moves, Steps
  <2>6. Held(q) = {} /\ Held(q)' = {c} BY <1>0, <1>4, <2>1, <2>3 DEF Held
  <2>7. idle \subseteq made /\ dirty \subseteq made BY DEF TypeOK
  <2>8. idle \cap dirty = {} BY <2>3 DEF Places
  <2>9. conn'[q] # killer'[q] BY <1>0, <1>4, <2>1, <2>3
  <2>10. Places'
    BY <1>4, <2>1, <2>6, <2>7, <2>8, <2>9, PlacesKept
  <2> QED BY <2>2, <2>5, <2>10, MovesKeeps
<1>5. ASSUME NEW q \in Calls, NEW c \in Conns, Got(q, c) \/ GotNew(q, c) PROVE CallInv'
  <2>1. CASE Got(q, c) BY <1>4, <2>1 DEF Got, Take, Leaves, Goes
  <2>2. CASE GotNew(q, c) BY <1>4, <2>2 DEF GotNew, Leaves, Goes
  <2> QED BY <1>5, <2>1, <2>2
<1>6. ASSUME NEW q \in Calls, NEW s \in Results, Return(q, s), pc[q] = "run", queue' = queue,
             socket' \in {socket, NoConn}, UNCHANGED <<adapter, idle, made>>
      PROVE  CallInv'
  BY <1>6, ReturnKeeps DEF Active, Waits
<1>7. ASSUME NEW q \in Calls,
             Finished(q) \/ Broken(q) \/ DriverTimeout(q) \/ CatalogTimeout(q)
      PROVE  CallInv'
  <2>1. PICK s \in Results : Return(q, s)
    BY <1>7 DEF Finished, Broken, DriverTimeout, CatalogTimeout, Results
  <2> QED BY <1>6, <1>7, <2>1 DEF Finished, Broken, DriverTimeout, CatalogTimeout
<1>8. ASSUME NEW k \in Catalogs, ReadDone(k) PROVE CallInv'
  <2>0. pc[k] = "run" /\ UNCHANGED <<adapter, idle, made, socket>> BY <1>8 DEF ReadDone
  <2>1. CASE /\ ~Python /\ Goes(k, "get")
             /\ dirty' = dirty \union {conn[k]} /\ conn' = [conn EXCEPT ![k] = NoConn] /\ Wait(k)
             /\ UNCHANGED <<killer, status>>
    <3>1. pc'[k] = "get" /\ conn'[k] = NoConn /\ Others(k)
      BY <1>0, <2>1 DEF Others, TypeOK, Pcs
    <3>2. Queued' BY <2>0, <2>1, <3>1, Joins DEF Waits, Others
    <3>3. killer[k] = NoConn /\ conn[k] # NoConn BY <2>0, <2>1 DEF Holdings, Holding
    <3>4. Moves(k) BY <1>0, <2>0, <2>1, <3>1, <3>3 DEF Moves, Steps, Active
    <3>5. Held(k) = {conn[k]} /\ Held(k)' = {} BY <2>1, <3>1, <3>3 DEF Held
    <3>6. idle \cap dirty = {} /\ conn[k] \notin idle BY <2>1, <3>5 DEF Places
    <3>7. Places' BY <2>0, <2>1, <3>1, <3>5, <3>6, PlacesKept
    <3> QED BY <3>2, <3>4, <3>7, MovesKeeps
  <2>2. CASE Python /\ UNCHANGED <<pc, conn, killer, status, dirty, queue>>
    <3>1. Queued' /\ Places' BY <2>0, <2>2 DEF Queued, Places
    <3>2. Steps' /\ Holdings' BY <2>0, <2>2 DEF Steps, Active, Holdings, Holding, Held
    <3> QED BY <3>1, <3>2
  <2>3. CASE Return(k, "error") /\ queue' = queue
    BY <1>6, <2>0, <2>3 DEF Results
  <2> QED BY <1>8, <2>1, <2>2, <2>3 DEF ReadDone, Goes
<1>9. ASSUME NEW q \in Queries, Timeout(q) PROVE CallInv'
  <2>1. /\ pc[q] = "run" /\ Goes(q, "getKiller") /\ ~TypeScript
        /\ UNCHANGED <<adapter, conn, killer, status, idle, dirty, made>>
        /\ (~Python /\ Wait(q) /\ socket' = socket) \/ (Python /\ socket' = NoConn /\ queue' = queue)
    BY <1>9 DEF Timeout, Goes
  <2>2. pc'[q] = "getKiller" /\ Others(q) BY <1>0, <2>1 DEF Others, Pcs
  <2>3. Queued' BY <2>1, <2>2, Joins, Passes DEF Waits, Others
  <2>4. q \notin Catalogs BY CallsAssumption
  <2>5. conn[q] # NoConn /\ killer[q] = NoConn /\ {conn[q], killer[q]} \ {NoConn} \subseteq made
    BY <2>1, <2>4 DEF Holdings, Holding, Held
  <2>6. Moves(q) BY <1>0, <2>1, <2>2, <2>4, <2>5 DEF Moves, Steps, Active
  <2>7. Places' BY <2>1, <2>2, PlacesKept DEF Places, Held
  <2> QED BY <2>3, <2>6, <2>7, MovesKeeps
<1>10. ASSUME NEW q \in Queries, NEW c \in Conns, GotKiller(q, c) PROVE CallInv'
  <2>1. /\ pc[q] = "getKiller" /\ Goes(q, "kill") /\ killer' = [killer EXCEPT ![q] = c]
        /\ UNCHANGED <<adapter, conn, status, dirty>>
    BY <1>10 DEF GotKiller, Goes
  <2>2. pc'[q] = "kill" /\ killer'[q] = c /\ Others(q) BY <1>0, <2>1 DEF Others, TypeOK, Pcs
  <2>3. q \notin Catalogs /\ ~TypeScript BY <2>1, CallsAssumption DEF Steps
  <2>4. conn[q] # NoConn /\ killer[q] = NoConn /\ {conn[q], killer[q]} \ {NoConn} \subseteq made
    BY <2>1, <2>3 DEF Holdings, Holding, Held
  <2>5. c # NoConn BY DEF Conns, NoConn
  <2>6. CASE Rust /\ Take(q, c) /\ UNCHANGED <<made, socket>>
    <3>1. Queued' BY <2>1, <2>2, <2>6, Served DEF Take, Leaves, Others
    <3>2. c \in made /\ c \in idle /\ idle' = idle \ {c} BY <2>6 DEF Take, TypeOK
    <3>3. Moves(q) BY <1>0, <2>1, <2>2, <2>3, <2>4, <2>5, <2>6, <3>2 DEF Moves, Steps, Active
    <3>4. Held(q) = {conn[q]} /\ Held(q)' = {conn[q], c} BY <2>1, <2>2, <2>4, <2>5 DEF Held
    <3>5. idle \cap dirty = {} /\ conn[q] \notin idle \union dirty BY <2>6, <3>4 DEF Places
    <3>6. Places' BY <2>1, <2>2, <2>6, <3>2, <3>4, <3>5, PlacesKept
    <3> QED BY <3>1, <3>3, <3>6, MovesKeeps
  <2>7. CASE Python /\ Ping(c) /\ UNCHANGED <<queue, idle>>
    <3>1. Queued' BY <2>1, <2>2, <2>7, Passes DEF Others
    <3>2. made \subseteq made' /\ c \in made' /\ socket' = c BY <2>7, PingStep
    <3>3. Moves(q) BY <1>0, <2>1, <2>2, <2>3, <2>4, <2>5, <2>7, <3>2 DEF Moves, Active
    <3>4. Places' BY <2>1, <2>7 DEF Places
    <3> QED BY <3>1, <3>3, <3>4, MovesKeeps
  <2> QED BY <1>10, <2>6, <2>7 DEF GotKiller
<1>11. ASSUME NEW q \in Queries, Kill(q) PROVE CallInv'
  BY <1>11, ReturnKeeps DEF Kill, Active, Waits, Results
<1>12. ASSUME NEW q \in Queries, NoKiller(q) PROVE CallInv'
  BY <1>12, ReturnKeeps DEF NoKiller, PingFails, Active, Leaves, Results
<1>n. ASSUME NEW q \in Calls, NotGot(q) PROVE CallInv'
  BY <1>n, ReturnKeeps DEF NotGot, Active, Leaves, Results
<1>13. ASSUME NEW c \in Conns, Recycle(c) PROVE CallInv'
  <2>1. /\ c \in dirty /\ dirty' = dirty \ {c} /\ idle' = idle \union {c}
        /\ UNCHANGED <<adapter, callVars, queue, made, socket>>
    BY <1>13 DEF Recycle
  <2>2. CASE ~Python
    <3>1. idle \cap dirty = {} BY <2>2 DEF Places
    <3> QED BY <2>1, <3>1, NoCallKeeps
  <2>3. CASE Python
    <3>1. Queued' /\ Places' BY <2>1, <2>3 DEF Queued, Places
    <3>2. Steps' /\ Holdings' BY <2>1, <2>3 DEF callVars, Steps, Active, Holdings, Holding, Held
    <3> QED BY <3>1, <3>2
  <2> QED BY <2>2, <2>3
<1>14. ASSUME UNCHANGED <<adapter, callVars, queue, idle, dirty, made, socket>> PROVE CallInv'
  <2>1. Queued' /\ Places' BY <1>14 DEF callVars, Queued, Places, Placed, Held
  <2>2. Steps' /\ Holdings' BY <1>14 DEF callVars, Steps, Active, Holdings, Holding, Held
  <2> QED BY <2>1, <2>2
<1>15. ASSUME NEW c \in Conns, Serve(c) \/ Complete(c) \/ Lose(c) PROVE CallInv'
  BY <1>14, <1>15 DEF Serve, Complete, Lose
<1>16. CASE UNCHANGED vars BY <1>14, <1>16 DEF vars
<1> QED BY <1>2, <1>3, <1>5, <1>7, <1>8, <1>9, <1>10, <1>11, <1>12, <1>n, <1>13, <1>15, <1>16 DEF Next

-----------------------------------------------------------------------------
(* The statements on the server.                                           *)

\* A step of q that starts no other call's statement, and q's on q's own
\* connection.
LEMMA ThreadsKept ==
  ASSUME TypeOK, Threads, NEW q \in Calls, Others(q), pc[q] # "end", adapter' = adapter,
         killed \subseteq killed', killed' \subseteq killed \union {q},
         q \in killed' => pc'[q] = "end" /\ status'[q] = "timeout",
         spared \subseteq spared',
         ~TypeScript =>
           /\ commands' = commands
           /\ \A c \in Conns : thread'[c] \in {thread[c], NoCall, q}
           /\ q \in Queries => \A c \in Conns : thread'[c] = q =>
                /\ pc'[q] \notin {"idle", "get"}
                /\ pc'[q] # "end" => conn'[q] = c
                /\ status'[q] = "timeout" => q \in spared'
           /\ q \in Queries /\ pc'[q] \in {"run", "getKiller", "kill"}
                => thread'[conn'[q]] \in {q, NoCall}
           /\ \A p \in Queries \ {q} : Holding(p) => thread'[conn[p]] \in {p, NoCall}
  PROVE  Threads'
<1>1. \A p \in killed' : pc'[p] = "end" /\ status'[p] = "timeout"
  BY DEF Threads, Others, TypeOK
<1>2. ASSUME ~TypeScript, NEW c \in Conns, thread'[c] \in Queries
      PROVE  /\ pc'[thread'[c]] \notin {"idle", "get"}
             /\ pc'[thread'[c]] # "end" => conn'[thread'[c]] = c
             /\ status'[thread'[c]] = "timeout" => thread'[c] \in spared'
  <2>1. NoCall \notin Queries BY CallsAssumption
  <2>2. CASE thread'[c] = q BY <1>2, <2>2
  <2>3. CASE thread'[c] # q
    <3>1. thread'[c] = thread[c] BY <1>2, <2>1, <2>3
    <3>2. PICK p \in Queries \ {q} : p = thread[c] BY <1>2, <2>3, <3>1
    <3>3. pc'[p] = pc[p] /\ conn'[p] = conn[p] /\ status'[p] = status[p] BY DEF Others
    <3> QED BY <1>2, <3>1, <3>2, <3>3 DEF Threads
  <2> QED BY <2>2, <2>3
<1>3. ASSUME ~TypeScript, NEW p \in Queries, pc'[p] \in {"run", "getKiller", "kill"}
      PROVE  thread'[conn'[p]] \in {p, NoCall}
  BY <1>3 DEF Others, Holding
<1>4. ~TypeScript => \A c \in Conns : commands'[c] = <<>> BY DEF Threads
<1> QED BY <1>1, <1>2, <1>3, <1>4 DEF Threads, Holding

\* Two queries of a pool hold different connections; a query of Python's holds
\* one while no other call runs.
LEMMA OwnConnection ==
  ASSUME TypeOK, CallInv, NEW q \in Calls, NEW p \in Queries, p # q, Holding(p)
  PROVE  /\ Python => ~Active(q) /\ ~MayBegin
         /\ ~Python => conn[p] \in made \ (idle \union dirty) /\ conn[p] \notin Held(q)
         /\ conn[p] \in Conns
<1>1. p \in Calls /\ p \notin Catalogs BY CallsAssumption
<1>2. conn[p] # NoConn BY <1>1 DEF CallInv, Holdings
<1>3. conn[p] \in Held(p) BY <1>2 DEF Held
<1>4. Active(p) BY DEF Holding, Active
<1>5. Python => ~Active(q) /\ ~MayBegin BY <1>1, <1>4 DEF CallInv, Steps, MayBegin, Active
<1>6. ~Python => conn[p] \notin idle \union dirty /\ conn[p] \notin Held(q)
  BY <1>1, <1>3 DEF CallInv, Places
<1>7. conn[p] \in made BY <1>1, <1>3 DEF CallInv, Holdings
<1> QED BY <1>5, <1>6, <1>7 DEF TypeOK

\* Every step keeps each query's statement on the query's connection.
LEMMA ThreadsStep ==
  ASSUME TypeOK, CallInv, Threads, [Next]_vars
  PROVE  Threads'
<1> USE DEF callVars, poolVars, driverVars, serverVars
<1>0. /\ Steps /\ Holdings
      /\ \A q \in Calls : \A x \in Pcs : Goes(q, x) =>
           pc'[q] = x /\ \A p \in Calls \ {q} : pc'[p] = pc[p]
      /\ \A q \in killed : pc[q] = "end"
      /\ \A c \in Conns : thread[c] \in Calls \union {NoCall}
      /\ Queries \subseteq Calls
  BY DEF Goes, TypeOK, Threads, CallInv
\* No statement is started.
<1>1. ASSUME NEW q \in Calls, Others(q), pc[q] # "end",
             UNCHANGED <<adapter, commands, thread, killed>>, spared \subseteq spared',
             q \in Queries =>
               /\ pc[q] \in {"idle", "get"} \/ pc'[q] \notin {"idle", "get"}
               /\ status'[q] = "timeout" => TypeScript \/ q \in spared'
               /\ pc'[q] # "end" => conn'[q] = conn[q]
               /\ pc'[q] \in {"run", "getKiller", "kill"} => Holding(q)
      PROVE  Threads'
  <2>1. q \notin killed BY <1>0, <1>1
  <2>2. \A p \in Queries : ~TypeScript /\ Holding(p) => thread[conn[p]] \in {p, NoCall}
    BY DEF Threads
  <2>3. ASSUME ~TypeScript, q \in Queries, NEW c \in Conns, thread'[c] = q
        PROVE  /\ pc'[q] \notin {"idle", "get"}
               /\ pc'[q] # "end" => conn'[q] = c
               /\ status'[q] = "timeout" => q \in spared'
    <3>1. pc[q] \notin {"idle", "get"} /\ conn[q] = c BY <1>1, <2>3 DEF Threads
    <3> QED BY <1>1, <2>3, <3>1
  <2> QED BY <1>1, <2>1, <2>2, <2>3, ThreadsKept
\* q's statement starts on c, which no other call holds.
<1>2. ASSUME NEW q \in Calls, NEW c \in Conns, Others(q), pc[q] # "end", Send(q, c),
             UNCHANGED <<adapter, killed, spared>>, pc'[q] = "run",
             q \in Queries => pc[q] \in {"idle", "get"} /\ conn'[q] = c /\ status'[q] = "none",
             \/ Python /\ (MayBegin \/ Active(q))
             \/ ~Python /\ c \in idle
      PROVE  Threads'
  <2>1. q \notin killed BY <1>0, <1>2
  <2>2. ~TypeScript => /\ commands' = commands
                       /\ thread'[c] = q
                       /\ \A d \in Conns \ {c} : thread'[d] = thread[d]
    BY <1>2, SendStep
  <2>3. \A p \in Queries \ {q} : Holding(p) => conn[p] # c /\ conn[p] \in Conns
    BY <1>2, OwnConnection
  <2>4. \A p \in Queries \ {q} : ~TypeScript /\ Holding(p) => thread'[conn[p]] \in {p, NoCall}
    BY <2>2, <2>3 DEF Threads
  <2>5. ~TypeScript /\ q \in Queries => \A d \in Conns : thread'[d] = q => d = c
    BY <1>2, <2>2 DEF Threads
  <2> QED BY <1>2, <2>1, <2>2, <2>4, <2>5, ThreadsKept
<1>3. ASSUME NEW q \in Queries, Query(q) PROVE Threads'
  <2>1. CASE ~Python /\ Goes(q, "get") /\ UNCHANGED <<conn, status, commands, thread>>
    <3>1. pc'[q] = "get" /\ Others(q) BY <1>0, <1>3, <2>1 DEF Query, Others, Pcs
    <3> QED BY <1>0, <1>1, <1>3, <2>1, <3>1 DEF Query, Steps
  <2>2. CASE Unreachable(q)
    <3>1. /\ pc'[q] = "end" /\ status'[q] = "unreachable" /\ Others(q) /\ conn' = conn
          /\ UNCHANGED <<commands, thread>>
      BY <1>3, <2>2 DEF Query, Unreachable, PingFails, Others, TypeOK
    <3> QED BY <1>1, <1>3, <3>1 DEF Query
  <2>3. ASSUME NEW c \in Conns, Python, conn' = [conn EXCEPT ![q] = c], Send(q, c),
               Goes(q, "run"), status' = status
        PROVE  Threads'
    <3>1. pc'[q] = "run" /\ conn'[q] = c /\ Others(q)
      BY <1>0, <1>3, <2>3 DEF Query, Others, TypeOK, Pcs
    <3> QED BY <1>0, <1>2, <1>3, <2>3, <3>1 DEF Query, Steps
  <2> QED BY <1>3, <2>1, <2>2, <2>3 DEF Query, PyQuery, Goes
<1>4. ASSUME NEW k \in Catalogs, Catalog(k) PROVE Threads'
  <2>0. k \notin Queries /\ pc[k] = "idle" /\ MayBegin /\ UNCHANGED <<adapter, conn, killer, status, killed, spared>>
    BY <1>4, CallsAssumption DEF Catalog
  <2>1. CASE (Goes(k, "get") \/ Goes(k, "run")) /\ UNCHANGED <<commands, thread>>
    <3>1. Others(k) BY <1>0, <2>0, <2>1 DEF Others, Pcs
    <3> QED BY <1>1, <2>0, <2>1, <3>1
  <2>2. CASE Python /\ Goes(k, "run") /\ socket # NoConn /\ Send(k, socket)
    <3>1. pc'[k] = "run" /\ Others(k) BY <1>0, <2>0, <2>2 DEF Others, Pcs
    <3>2. socket \in Conns BY <1>0, <2>2 DEF Steps, TypeOK
    <3> QED BY <1>2, <2>0, <2>2, <3>1, <3>2
  <2> QED BY <1>4, <2>1, <2>2 DEF Catalog, Goes
<1>5. ASSUME NEW q \in Calls, NEW c \in Conns, Got(q, c) PROVE Threads'
  <2>1. /\ pc'[q] = "run" /\ conn'[q] = c /\ Others(q) /\ c \in idle /\ pc[q] = "get"
        /\ Send(q, c) /\ UNCHANGED <<adapter, status, killed, spared>>
    BY <1>0, <1>5 DEF Got, Take, Others, TypeOK, Pcs, Goes
  <2>2. ~Python BY <1>0, <2>1 DEF Steps
  <2> QED BY <1>0, <1>2, <2>1, <2>2 DEF Steps
<1>6. ASSUME NEW q \in Calls, NEW c \in Conns, GotNew(q, c) PROVE Threads'
  <2>1. /\ TypeScript /\ adapter' = adapter /\ killed' = killed
        /\ pc[q] = "get" /\ \A p \in Calls \ {q} : pc'[p] = pc[p] /\ status' = status
    BY <1>6 DEF GotNew, TypeOK
  <2>2. q \notin killed /\ killed \subseteq Calls BY <1>0, <2>1 DEF TypeOK
  <2> QED BY <2>1, <2>2 DEF Threads
<1>7. ASSUME NEW q \in Calls, NEW s \in Results, Return(q, s), pc[q] \notin {"idle", "end"},
             UNCHANGED <<adapter, commands, thread, killed>>, spared \subseteq spared',
             s = "timeout" => TypeScript \/ q \in spared'
      PROVE  Threads'
  <2>1. Ended(q, s) BY <1>7, ReturnStep
  <2> QED BY <1>1, <1>7, <2>1 DEF Ended
<1>8. ASSUME NEW q \in Calls, Finished(q) \/ Broken(q) \/ CatalogTimeout(q) PROVE Threads'
  <2>1. PICK s \in Results \ {"timeout"} : Return(q, s)
    BY <1>8 DEF Finished, Broken, CatalogTimeout, Results
  <2>2. pc[q] = "run" /\ UNCHANGED <<adapter, commands, thread, killed, spared>>
    BY <1>8 DEF Finished, Broken, CatalogTimeout
  <2> QED BY <1>7, <2>1, <2>2
<1>9. ASSUME NEW q \in Queries, DriverTimeout(q) PROVE Threads'
  BY <1>7, <1>9 DEF DriverTimeout, Results
<1>10. ASSUME NEW k \in Catalogs, ReadDone(k) PROVE Threads'
  <2>0. k \notin Queries /\ pc[k] = "run" /\ UNCHANGED <<adapter, killed, spared>>
    BY <1>10, CallsAssumption DEF ReadDone
  <2>1. CASE /\ Goes(k, "get") /\ conn' = [conn EXCEPT ![k] = NoConn]
             /\ UNCHANGED <<killer, status, commands, thread>>
    <3>1. Others(k) BY <1>0, <2>1 DEF Others, TypeOK, Pcs
    <3> QED BY <1>1, <2>0, <2>1, <3>1
  <2>2. CASE Python /\ UNCHANGED <<pc, conn, killer, status>> /\ Send(k, socket)
    <3>1. socket \in Conns BY <1>0, <1>10, <2>2 DEF ReadDone, Answered, Steps, TypeOK
    <3>2. Others(k) /\ pc'[k] = "run" BY <2>0, <2>2 DEF Others
    <3> QED BY <1>2, <2>0, <2>2, <3>1, <3>2 DEF Active
  <2>3. CASE Return(k, "error") /\ UNCHANGED <<commands, thread>>
    BY <1>7, <2>0, <2>3 DEF Results
  <2> QED BY <1>10, <2>1, <2>2, <2>3 DEF ReadDone, Goes
<1>11. ASSUME NEW q \in Queries, Timeout(q) PROVE Threads'
  <2>1. /\ pc[q] = "run" /\ Goes(q, "getKiller")
        /\ UNCHANGED <<adapter, conn, killer, status, commands, thread, killed, spared>>
    BY <1>11 DEF Timeout, Goes
  <2>2. pc'[q] = "getKiller" /\ Others(q) BY <1>0, <2>1 DEF Others, Pcs
  <2> QED BY <1>0, <1>1, <2>1, <2>2 DEF Steps, Holding
<1>12. ASSUME NEW q \in Queries, NEW c \in Conns, GotKiller(q, c) PROVE Threads'
  <2>1. /\ pc[q] = "getKiller" /\ Goes(q, "kill") /\ killer' = [killer EXCEPT ![q] = c]
        /\ UNCHANGED <<adapter, conn, status, commands, thread, killed, spared>>
    BY <1>12 DEF GotKiller, Goes
  <2>2. pc'[q] = "kill" /\ Others(q) BY <1>0, <2>1 DEF Others, TypeOK, Pcs
  <2> QED BY <1>0, <1>1, <2>1, <2>2 DEF Steps, Holding
<1>13. ASSUME NEW q \in Queries, Kill(q) PROVE Threads'
  <2>0. /\ pc[q] = "kill" /\ Return(q, "timeout") /\ UNCHANGED <<adapter, commands>>
        /\ ~TypeScript
    BY <1>0, <1>13 DEF Kill, Steps
  <2>1. Ended(q, "timeout") BY <2>0, ReturnStep DEF Results
  <2>2. CASE /\ thread' = [thread EXCEPT ![conn[q]] = NoCall]
             /\ killed' = killed \union ({thread[conn[q]]} \ {NoCall})
             /\ spared' = spared
    <3>1. Holding(q) /\ q \notin Catalogs BY <2>0, CallsAssumption DEF Holding
    <3>2. thread[conn[q]] \in {q, NoCall} BY <2>0, <3>1 DEF Threads
    <3>3. conn[q] \in Conns BY <1>0, <3>1 DEF Holdings, TypeOK
    <3>4. /\ thread'[conn[q]] = NoCall
          /\ \A d \in Conns \ {conn[q]} : thread'[d] = thread[d]
      BY <2>2, <3>3 DEF TypeOK
    <3>5. NoCall \notin Queries BY CallsAssumption
    <3>6. \A d \in Conns : thread'[d] # q BY <2>0, <3>4, <3>5 DEF Threads
    <3>7. \A p \in Queries : Holding(p) => conn[p] \in Conns
      BY <1>0, CallsAssumption DEF Holdings, TypeOK
    <3>8. \A p \in Queries \ {q} : Holding(p) => thread'[conn[p]] \in {p, NoCall}
      BY <2>0, <3>4, <3>7 DEF Threads
    <3> QED BY <2>0, <2>1, <2>2, <3>2, <3>4, <3>6, <3>8, ThreadsKept DEF Ended
  <2>3. CASE spared' = spared \union {q} /\ UNCHANGED <<thread, killed>>
    BY <1>7, <2>0, <2>3 DEF Results
  <2> QED BY <1>13, <2>2, <2>3 DEF Kill
<1>14. ASSUME NEW q \in Queries, NoKiller(q) PROVE Threads'
  BY <1>7, <1>14 DEF NoKiller, Results
<1>n. ASSUME NEW q \in Calls, NotGot(q) PROVE Threads'
  BY <1>7, <1>n DEF NotGot, Results
<1>15. ASSUME UNCHANGED <<adapter, callVars, killed, spared>>,
              ~TypeScript => /\ commands' = commands
                             /\ \A c \in Conns : thread'[c] \in {thread[c], NoCall}
       PROVE  Threads'
  <2>1. NoCall \notin Queries BY CallsAssumption
  <2>2. \A p \in Queries : Holding(p) => conn[p] \in Conns
    BY <1>0, CallsAssumption DEF Holdings, TypeOK
  <2> QED BY <1>15, <2>1, <2>2 DEF Threads, Holding
<1>16. ASSUME NEW c \in Conns, Serve(c) PROVE Threads'
  <2>1. TypeScript BY <1>16 DEF Serve, Threads
  <2> QED BY <1>15, <1>16, <2>1 DEF Serve
<1>17. ASSUME NEW c \in Conns, Complete(c) PROVE Threads'
  <2>1. \A d \in Conns : thread'[d] \in {thread[d], NoCall} BY <1>17 DEF Complete, TypeOK
  <2> QED BY <1>15, <1>17, <2>1 DEF Complete
<1>18. ASSUME NEW c \in Conns, Recycle(c) \/ Lose(c) PROVE Threads'
  BY <1>15, <1>18 DEF Recycle, Lose
<1>19. CASE UNCHANGED vars BY <1>15, <1>19 DEF vars
<1> QED BY <1>3, <1>4, <1>5, <1>6, <1>8, <1>9, <1>10, <1>11, <1>12, <1>13, <1>14, <1>n, <1>16,
           <1>17, <1>18, <1>19 DEF Next

-----------------------------------------------------------------------------
(* The sessions.                                                           *)

\* A statement joins a connection's queue behind its SET SESSION, or starts
\* where there is no queue.
LEMMA SendKeeps ==
  ASSUME TypeOK, Threads, Sessions, NEW q \in Calls, NEW c \in Conns, Send(q, c),
         made \subseteq made', made' \subseteq made \union {c}, c \in made',
         readonly \subseteq readonly', ReadOnly /\ c \notin made => c \in readonly'
  PROVE  Sessions'
<1>1. ASSUME NEW d \in Conns \ made' PROVE thread'[d] = NoCall /\ commands'[d] = <<>>
  <2>1. d # c /\ d \in Conns \ made OBVIOUS
  <2>2. thread[d] = NoCall /\ commands[d] = <<>> BY <2>1 DEF Sessions
  <2> QED BY <2>1, <2>2, SendStep
<1>2. ASSUME ReadOnly, NEW d \in made' \ readonly'
      PROVE  thread'[d] = NoCall /\ commands'[d] # <<>> /\ Head(commands'[d]) = Setup
  <2>1. d \in made \ readonly BY <1>2
  <2>2. d \in Conns BY <2>1 DEF TypeOK
  <2>3. thread[d] = NoCall /\ commands[d] # <<>> /\ Head(commands[d]) = Setup
    BY <1>2, <2>1 DEF Sessions
  <2>4. TypeScript BY <2>2, <2>3 DEF Threads
  <2>5. commands[d] \in Seq(Calls \union {Setup}) BY <2>2 DEF TypeOK
  <2>6. commands'[d] = commands[d] \/ commands'[d] = Append(commands[d], q)
    BY <2>2, <2>4, SendStep
  <2>7. commands'[d] # <<>> /\ Head(commands'[d]) = Setup BY <2>3, <2>5, <2>6
  <2> QED BY <2>3, <2>4, <2>7, SendStep
<1> QED BY <1>1, <1>2 DEF Sessions

\* Every step keeps SET SESSION ahead of every statement.
LEMMA SessionsStep ==
  ASSUME TypeOK, CallInv, Threads, Sessions, [Next]_vars
  PROVE  Sessions'
<1> USE DEF callVars, poolVars, driverVars, serverVars
<1>0. /\ made \subseteq Conns /\ Steps
      /\ \A c \in Conns : commands[c] \in Seq(Calls \union {Setup})
  BY DEF TypeOK, CallInv
<1>1. ASSUME UNCHANGED <<commands, made>>, readonly \subseteq readonly',
             \A c \in Conns : thread'[c] \in {thread[c], NoCall}
      PROVE  Sessions'
  BY <1>0, <1>1 DEF Sessions
<1>2. ASSUME NEW q \in Queries, Query(q) PROVE Sessions'
  <2>1. ASSUME NEW c \in Conns, Ping(c), Send(q, c) PROVE Sessions'
    BY <1>0, <2>1, PingStep, SendKeeps
  <2>2. CASE UNCHANGED <<made, commands, thread, readonly>> BY <1>1, <2>2
  <2> QED BY <1>2, <2>1, <2>2 DEF Query, PyQuery, Unreachable
<1>3. ASSUME NEW q \in Calls, NEW c \in Conns, Send(q, c), c \in made, UNCHANGED <<made, readonly>>
      PROVE  Sessions'
  BY <1>3, SendKeeps
<1>4. ASSUME NEW k \in Catalogs, Catalog(k) \/ ReadDone(k) PROVE Sessions'
  <2>1. CASE UNCHANGED <<commands, thread>> BY <1>1, <1>4, <2>1 DEF Catalog, ReadDone
  <2>2. CASE socket # NoConn /\ Send(k, socket)
    <3>1. socket \in made BY <1>0, <2>2 DEF Steps
    <3> QED BY <1>0, <1>3, <1>4, <2>2, <3>1 DEF Catalog, ReadDone
  <2> QED BY <1>4, <2>1, <2>2 DEF Catalog, ReadDone, Answered
<1>5. ASSUME NEW q \in Calls, NEW c \in Conns, Got(q, c) PROVE Sessions'
  <2>1. c \in made BY <1>5 DEF Got, Take, TypeOK
  <2> QED BY <1>3, <1>5, <2>1 DEF Got
<1>6. ASSUME NEW q \in Calls, NEW c \in Conns, GotNew(q, c) PROVE Sessions'
  <2>1. /\ c \notin made /\ made' = made \union {c} /\ UNCHANGED <<readonly, thread>>
        /\ commands'[c] = IF ReadOnly THEN <<Setup, q>> ELSE <<q>>
        /\ \A d \in Conns \ {c} : commands'[d] = commands[d]
    BY <1>6 DEF GotNew, TypeOK
  <2>2. thread[c] = NoCall BY <2>1 DEF Sessions
  <2> QED BY <1>0, <2>1, <2>2 DEF Sessions
<1>7. ASSUME NEW q \in Queries, NEW c \in Conns, GotKiller(q, c) PROVE Sessions'
  <2>1. CASE UNCHANGED <<made, readonly>> BY <1>1, <1>7, <2>1 DEF GotKiller
  <2>2. CASE Ping(c)
    <3>1. UNCHANGED <<commands, thread>> BY <1>7 DEF GotKiller
    <3>2. /\ made \subseteq made' /\ made' \subseteq made \union {c}
          /\ readonly \subseteq readonly' /\ (ReadOnly /\ c \notin made => c \in readonly')
      BY <1>0, <2>2, PingStep
    <3> QED BY <1>0, <3>1, <3>2 DEF Sessions
  <2> QED BY <1>7, <2>1, <2>2 DEF GotKiller
<1>8. ASSUME NEW q \in Queries, Kill(q) PROVE Sessions'
  <2>1. \A c \in Conns : thread'[c] \in {thread[c], NoCall} BY <1>8 DEF Kill, TypeOK
  <2> QED BY <1>1, <1>8, <2>1 DEF Kill
<1>9. ASSUME NEW c \in Conns, Recycle(c) \/ Complete(c) \/ Lose(c) PROVE Sessions'
  <2>1. \A d \in Conns : thread'[d] \in {thread[d], NoCall}
    BY <1>9 DEF Recycle, Complete, Lose, TypeOK
  <2> QED BY <1>1, <1>9, <2>1 DEF Recycle, Complete, Lose, SetUp
<1>10. ASSUME NEW c \in Conns, Serve(c) PROVE Sessions'
  <2>1. commands[c] # <<>> /\ thread[c] = NoCall /\ made' = made BY <1>10 DEF Serve
  <2>2. c \in made BY <2>1 DEF Sessions
  <2>3. /\ \A d \in Conns \ {c} : commands'[d] = commands[d] /\ thread'[d] = thread[d]
        /\ readonly \subseteq readonly'
    BY <1>10 DEF Serve, TypeOK
  <2>4. ReadOnly => c \in readonly'
    BY <1>10, <2>1, <2>2 DEF Serve, Sessions
  <2> QED BY <1>0, <2>1, <2>2, <2>3, <2>4 DEF Sessions
<1>11. ASSUME NEW q \in Calls, \/ Finished(q) \/ Broken(q) \/ CatalogTimeout(q) \/ DriverTimeout(q)
                               \/ NoKiller(q) \/ Timeout(q) \/ NotGot(q)
       PROVE  Sessions'
  BY <1>1, <1>11 DEF Finished, Broken, CatalogTimeout, DriverTimeout, NoKiller, Timeout, NotGot
<1>12. CASE UNCHANGED vars BY <1>1, <1>12 DEF vars
<1> QED BY <1>2, <1>4, <1>5, <1>6, <1>7, <1>8, <1>9, <1>10, <1>11, <1>12 DEF Next

-----------------------------------------------------------------------------
(* Losses.                                                                 *)

\* Connections are finitely many.
LEMMA LostFinite ==
  ASSUME TypeOK, NEW c
  PROVE  IsFiniteSet(lost) /\ IsFiniteSet(lost \ {c}) /\ Cardinality(lost \ {c}) \in Nat
<1>1. IsFiniteSet(Conns) BY PoolAssumption, FS_Interval DEF Conns
<1>2. lost \subseteq Conns BY DEF TypeOK
<1>3. IsFiniteSet(lost) /\ IsFiniteSet(lost \ {c}) BY <1>1, <1>2, FS_Subset
<1> QED BY <1>3, FS_CardinalityType

\* Every step charges a lost connection at most once.
LEMMA LossStep ==
  ASSUME TypeOK, TypeOK', CallInv, Losses, [Next]_vars
  PROVE  Losses'
<1> USE DEF callVars, poolVars, driverVars, serverVars
<1>0. Steps /\ Holdings /\ NoConn \notin Conns BY DEF CallInv, NoConn, Conns
<1>1. ASSUME Charged' \subseteq Charged, lost \ {socket} \subseteq lost' \ {socket'}
      PROVE  Losses'
  <2>1. IsFiniteSet(Charged') /\ Cardinality(Charged') <= Cardinality(Charged)
    BY <1>1, FS_Subset DEF Losses
  <2>2. Cardinality(Charged) \in Nat /\ Cardinality(Charged') \in Nat
    BY <2>1, FS_CardinalityType DEF Losses
  <2>3. Cardinality(lost \ {socket}) \in Nat BY LostFinite
  <2>4. IsFiniteSet(lost' \ {socket'}) /\ Cardinality(lost' \ {socket'}) \in Nat
    <3>1. \A c : IsFiniteSet(lost' \ {c}) /\ Cardinality(lost' \ {c}) \in Nat
      <4>1. IsFiniteSet(Conns) BY PoolAssumption, FS_Interval DEF Conns
      <4>2. lost' \subseteq Conns BY DEF TypeOK
      <4>3. \A c : IsFiniteSet(lost' \ {c}) BY <4>1, <4>2, FS_Subset
      <4> QED BY <4>3, FS_CardinalityType
    <3> QED BY <3>1
  <2>5. Cardinality(lost \ {socket}) <= Cardinality(lost' \ {socket'})
    BY <1>1, <2>4, FS_Subset
  <2> QED BY <2>1, <2>2, <2>3, <2>4, <2>5 DEF Losses
<1>2. ASSUME NEW q \in Calls, NEW s \in Results, Return(q, s), s # "broken" \/ q \notin Queries
      PROVE  Charged' \subseteq Charged
  BY <1>2, ReturnStep DEF Ended, Others, Charged
<1>3. lost \subseteq lost \ {NoConn} BY <1>0 DEF TypeOK
<1>4. ASSUME NEW q \in Calls, NEW s \in Results, Return(q, s), s # "broken" \/ q \notin Queries,
             lost' = lost, socket' \in {socket, NoConn}
      PROVE  Losses'
  BY <1>1, <1>2, <1>3, <1>4
<1>5. ASSUME NEW q \in Queries, Broken(q) PROVE Losses'
  <2>1. /\ Return(q, "broken") /\ socket \in lost /\ socket' = NoConn /\ lost' = lost
    <3>1. Python /\ pc[q] = "run" /\ q \notin Catalogs BY <1>5, CallsAssumption DEF Broken
    <3>2. socket = conn[q] /\ conn[q] # NoConn
      BY <1>0, <3>1 DEF Steps, Holdings, Holding
    <3> QED BY <1>5, <3>2 DEF Broken
  <2>2. Charged' \subseteq Charged \union {q}
    BY <2>1, ReturnStep DEF Ended, Others, Charged, Results
  <2>3. lost' \ {socket'} = lost BY <1>3, <2>1
  <2>4. IsFiniteSet(lost) /\ Cardinality(lost \ {socket}) = Cardinality(lost) - 1
    BY <2>1, LostFinite, FS_RemoveElement
  <2>5. Cardinality(lost) \in Nat BY <2>4, FS_CardinalityType
  <2>6. IsFiniteSet(Charged) /\ Cardinality(Charged) \in Nat
    BY FS_CardinalityType DEF Losses
  <2>7. /\ IsFiniteSet(Charged \union {q})
        /\ Cardinality(Charged \union {q})
             = IF q \in Charged THEN Cardinality(Charged) ELSE Cardinality(Charged) + 1
    BY <2>6, FS_AddElement
  <2>8. /\ IsFiniteSet(Charged') /\ Cardinality(Charged') <= Cardinality(Charged \union {q})
    BY <2>2, <2>7, FS_Subset
  <2>9. Cardinality(Charged') \in Nat /\ Cardinality(Charged \union {q}) \in Nat
    BY <2>7, <2>8, FS_CardinalityType
  <2>10. Cardinality(Charged') <= Cardinality(lost)
    BY <2>4, <2>5, <2>6, <2>7, <2>8, <2>9 DEF Losses
  <2> QED BY <2>3, <2>8, <2>10 DEF Losses
<1>6. ASSUME NEW q \in Queries, Query(q) PROVE Losses'
  <2>1. CASE UNCHANGED <<socket, status, lost>> BY <1>1, <2>1 DEF Charged
  <2>2. CASE Unreachable(q) /\ lost' = lost
    <3>1. \A p \in Queries \ {q} : status'[p] = status[p] BY <2>2 DEF Unreachable, TypeOK
    <3>2. status'[q] = "unreachable" /\ socket' = NoConn
      BY <2>2 DEF Unreachable, PingFails, TypeOK
    <3>3. Charged' \subseteq Charged BY <3>1, <3>2 DEF Charged
    <3> QED BY <1>1, <1>3, <2>2, <3>2, <3>3
  <2>3. ASSUME NEW c \in Conns, Ping(c), status' = status, lost' = lost PROVE Losses'
    BY <1>0, <1>1, <2>3, PingStep DEF Charged
  <2> QED BY <1>6, <2>1, <2>2, <2>3 DEF Query, PyQuery
<1>7. ASSUME NEW k \in Catalogs, Catalog(k) \/ ReadDone(k) PROVE Losses'
  <2>1. UNCHANGED <<lost, socket>> BY <1>7 DEF Catalog, ReadDone
  <2>2. CASE status' = status BY <1>1, <2>1, <2>2 DEF Charged
  <2>3. CASE Return(k, "error") BY <1>4, <2>1, <2>3 DEF Results
  <2> QED BY <1>7, <2>2, <2>3 DEF Catalog, ReadDone
<1>8. ASSUME NEW q \in Calls, Finished(q) \/ CatalogTimeout(q) \/ DriverTimeout(q) PROVE Losses'
  <2>1. PICK s \in Results \ {"broken"} : Return(q, s)
    BY <1>8 DEF Finished, CatalogTimeout, DriverTimeout, Results
  <2> QED BY <1>4, <1>8, <2>1 DEF Finished, CatalogTimeout, DriverTimeout
<1>9. ASSUME NEW k \in Catalogs, Broken(k) PROVE Losses'
  <2>1. k \notin Queries BY CallsAssumption
  <2> QED BY <1>4, <1>9, <2>1 DEF Broken, Results
<1>10. ASSUME NEW q \in Queries, Kill(q) \/ NoKiller(q) PROVE Losses'
  <2>1. Return(q, "timeout") /\ lost' = lost /\ socket' \in {socket, NoConn}
    BY <1>10 DEF Kill, NoKiller, PingFails
  <2> QED BY <1>4, <2>1 DEF Results
<1>n. ASSUME NEW q \in Calls, NotGot(q) PROVE Losses'
  BY <1>4, <1>n DEF NotGot, Results
<1>11. ASSUME NEW q \in Queries, Timeout(q) PROVE Losses'
  <2>1. status' = status /\ lost' = lost /\ socket' \in {socket, NoConn} BY <1>11 DEF Timeout
  <2> QED BY <1>1, <1>3, <2>1 DEF Charged
<1>12. ASSUME NEW q \in Queries, NEW c \in Conns, GotKiller(q, c) PROVE Losses'
  <2>1. status' = status /\ lost' = lost /\ (socket' = socket \/ Ping(c))
    BY <1>12 DEF GotKiller
  <2> QED BY <1>0, <1>1, <2>1, PingStep DEF Charged
<1>13. ASSUME NEW c \in Conns, Lose(c) PROVE Losses'
  <2>1. status' = status /\ socket' = socket /\ lost \subseteq lost' BY <1>13 DEF Lose
  <2> QED BY <1>1, <2>1 DEF Charged
<1>14. CASE UNCHANGED <<status, socket, lost>> BY <1>1, <1>14 DEF Charged
<1>15. ASSUME \/ \E q \in Calls, c \in Conns : Got(q, c) \/ GotNew(q, c)
              \/ \E c \in Conns : Recycle(c) \/ Serve(c) \/ Complete(c)
              \/ UNCHANGED vars
       PROVE  Losses'
  BY <1>14, <1>15 DEF Got, GotNew, Recycle, Serve, Complete, vars
<1> QED BY <1>5, <1>6, <1>7, <1>8, <1>9, <1>10, <1>n, <1>11, <1>12, <1>13, <1>15 DEF Next

-----------------------------------------------------------------------------
(* The invariant and what follows from it.                                 *)

LEMMA Invariance == Spec => []IInv
<1>1. Init => IInv
  <2> SUFFICES ASSUME Init PROVE IInv OBVIOUS
  <2>0. NoConn \notin Conns /\ 1 \in Conns BY PoolAssumption DEF NoConn, Conns
  <2>m. made \subseteq Conns /\ (Python => made = {1}) BY <2>0 DEF Init
  <2>h. \A q \in Calls : Held(q) = {} BY DEF Init, Held
  <2>1. TypeOK
    <3>1. <<>> \in Seq(Calls) /\ <<>> \in Seq(Calls \union {Setup}) OBVIOUS
    <3>2. 0 \in 0..3 OBVIOUS
    <3> QED BY <2>0, <2>m, <3>1, <3>2 DEF Init, TypeOK
  <2>2. Queued BY DEF Init, Queued
  <2>3. Steps BY <2>m DEF Init, Steps, Active
  <2>4. Holdings BY <2>h DEF Init, Holdings, Holding
  <2>5. Places BY <2>h DEF Init, Places, Placed
  <2>6. Threads BY CallsAssumption DEF Init, Threads, Holding
  <2>7. Sessions BY DEF Init, Sessions
  <2>8. Losses
    <3>1. Charged = {} /\ lost \ {socket} = {} BY DEF Init, Charged
    <3> QED BY <3>1, FS_EmptySet DEF Losses
  <2> QED BY <2>1, <2>2, <2>3, <2>4, <2>5, <2>6, <2>7, <2>8 DEF IInv
<1>2. IInv /\ [Next]_vars => IInv'
  <2> SUFFICES ASSUME IInv, [Next]_vars PROVE IInv' OBVIOUS
  <2>1. TypeOK /\ CallInv BY DEF IInv, CallInv
  <2>2. TypeOK' BY <2>1, TypeStep DEF IInv
  <2>3. CallInv' BY <2>1, CallsStep
  <2>4. Threads' BY <2>1, ThreadsStep DEF IInv
  <2>5. Sessions' BY <2>1, SessionsStep DEF IInv
  <2>6. Losses' BY <2>1, <2>2, LossStep DEF IInv
  <2> QED BY <2>2, <2>3, <2>4, <2>5, <2>6 DEF IInv, CallInv
<1> QED BY <1>1, <1>2, PTL DEF Spec

\* PoolOK: every connection of the pool is idle, coming back, or held by one
\* call: the timeout path, where a call holds two, neither loses one nor hands
\* one out twice (run_query and kill_query in mysql/rust, the pool of
\* mysql/typescript).
THEOREM PoolOKHolds == Spec => []PoolOK
<1>1. IInv => PoolOK
  <2> SUFFICES ASSUME IInv PROVE PoolOK OBVIOUS
  <2>1. OnePlace
    <3> SUFFICES ASSUME ~Python, NEW c \in made
                 PROVE  Cardinality({q \in Calls : c \in Held(q)})
                          + (IF c \in idle THEN 1 ELSE 0) + (IF c \in dirty THEN 1 ELSE 0) = 1
      BY DEF OnePlace
    <3> DEFINE H == {q \in Calls : c \in Held(q)}
    <3>1. /\ idle \cap dirty = {} /\ Placed(c)
          /\ \A q \in Calls : c \in Held(q) => c \notin idle \union dirty
          /\ \A p, q \in Calls : c \in Held(p) /\ c \in Held(q) => p = q
      BY DEF IInv, Places
    <3>2. CASE c \in idle \union dirty
      <4>1. H = {} BY <3>1, <3>2
      <4>2. Cardinality(H) = 0 BY <4>1, FS_EmptySet
      <4> QED BY <3>1, <3>2, <4>2
    <3>3. CASE c \notin idle \union dirty
      <4>1. PICK q \in Calls : c \in Held(q) BY <3>1, <3>3 DEF Placed
      <4>2. H = {q} BY <3>1, <4>1
      <4>3. Cardinality(H) = 1 BY <4>2, FS_Singleton
      <4> QED BY <3>3, <4>3
    <3> QED BY <3>2, <3>3
  <2> QED BY <2>1 DEF IInv, PoolOK
<1> QED BY <1>1, Invariance, PTL

\* KillsOwn: a KILL QUERY ends the statement of the call that timed out and of
\* no other: in Rust the call keeps its connection until the KILL is sent, in
\* Python the KILL names a session no later call uses.
THEOREM KillsOwnHolds == Spec => []KillsOwn
<1>1. IInv => KillsOwn BY DEF IInv, Threads, KillsOwn
<1> QED BY <1>1, Invariance, PTL

\* TimedOutIsStopped: in Rust and Python a caller told of a timeout has no
\* statement left at the server, unless its KILL QUERY could not be sent.
THEOREM TimedOutIsStoppedHolds == Spec => []TimedOutIsStopped
<1>1. IInv => TimedOutIsStopped BY DEF IInv, Threads, TimedOutIsStopped
<1> QED BY <1>1, Invariance, PTL

\* SessionIsReadOnly: in read-only mode no statement runs on a session that
\* would take writes, on whatever connection, new, reset or replaced.
THEOREM SessionIsReadOnlyHolds == Spec => []SessionIsReadOnly
<1>1. IInv => SessionIsReadOnly BY DEF IInv, Sessions, SessionIsReadOnly
<1> QED BY <1>1, Invariance, PTL

\* LossCostsOneQuery: Python's lost connections fail at most one query each.
THEOREM LossCostsOneQueryHolds == Spec => []LossCostsOneQuery
<1>1. IInv => LossCostsOneQuery
  <2> SUFFICES ASSUME IInv PROVE Cardinality(Charged) <= Cardinality(lost)
    BY DEF LossCostsOneQuery, Charged
  <2>1. IsFiniteSet(lost) /\ Cardinality(lost \ {socket}) \in Nat BY LostFinite DEF IInv
  <2>2. IsFiniteSet(Charged) /\ Cardinality(Charged) <= Cardinality(lost \ {socket})
    BY DEF IInv, Losses
  <2>3. Cardinality(lost \ {socket}) <= Cardinality(lost) BY <2>1, FS_Subset
  <2>4. Cardinality(Charged) \in Nat /\ Cardinality(lost) \in Nat
    BY <2>1, <2>2, FS_CardinalityType
  <2> QED BY <2>1, <2>2, <2>3, <2>4
<1> QED BY <1>1, Invariance, PTL
=============================================================================
