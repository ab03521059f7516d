---------------------------- MODULE PgPoolProofs ----------------------------
(* What the proof system checks about PgPool: for both adapters, every set *)
(* of calls, every size of the pool and any number of lost connections.    *)
EXTENDS PgPool, FiniteSetTheorems, TLAPS

USE DEF Calls, Statements, Outcomes, Control

-----------------------------------------------------------------------------
(* The inductive invariant.                                                *)

\* Calls that wait for a client are in the queue once.
Queued ==
  /\ \A i \in DOMAIN queue : pc[queue[i]] = "connect"
  /\ \A i, j \in DOMAIN queue : queue[i] = queue[j] => i = j

\* Which requests a call makes.
Requests ==
  /\ \A q \in Queries : pc[q] # "catalog" /\ (pc[q] \in {"begin", "rollback"} => readOnly)
  /\ \A k \in Catalogs : pc[k] \in {"idle", "connect", "catalog", "end"}

Holds(q) == pc[q] \in {"begin", "run", "rollback", "catalog"}

\* A call that makes requests has a busy client of its own.
OwnClient ==
  /\ \A q \in Calls : Holds(q) => client[q] \in Clients /\ place[client[q]] = "busy"
  /\ \A p, q \in Calls : Holds(p) /\ Holds(q) /\ client[p] = client[q] => p = q

PoolInv == Queued /\ Requests /\ OwnClient

\* No client opens or ends a transaction in read-only mode.
Plain == readOnly => \A q \in Queries : stmt[q] \notin Control

Clean(c) == (readOnly => tx[c] = "none" /\ default[c]) /\ (pooled => tx[c] # "failed")
Opened(c) == tx[c] # "none" /\ saved[c]

InOrder(q) ==
  Holds(q) /\ client[q] \notin lost =>
    /\ pc[q] \in {"begin", "catalog"} => Clean(client[q])
    /\ pc[q] = "run" /\ readOnly => tx[client[q]] = "ro" /\ saved[client[q]]
    /\ pc[q] = "rollback" => Opened(client[q])

\* A client that is not lost is clean before and after each call. In read-only
\* mode it is in a transaction during a call only, and the rollback will restore
\* its setting.
Sessions ==
  /\ \A c \in Clients : Idle(c) /\ c \notin lost => Clean(c)
  /\ \A q \in Calls : InOrder(q)

\* What "ok" means, wherever it is kept on its way to the caller.
Ended(q) ==
  /\ stmt[q] # "bad"
  /\ stmt[q] = "write" => q \in written \/ (~readOnly /\ q \in within)
Honest ==
  \A q \in Queries :
    /\ kept[q] = "ok" \/ status[q] = "ok" => Ended(q)
    /\ pc[q] = "idle" => kept[q] # "ok" /\ status[q] # "ok"

\* A lost connection is charged once: to the call that returned "lost", or
\* to the client while it is in the pool.
Charged == {q \in Calls : status[q] = "lost"}
Broken == {c \in lost : place[c] # "absent"}
Losses ==
  pooled =>
    /\ IsFiniteSet(Charged)
    /\ Cardinality(Charged) + Cardinality(Broken) <= losses
    /\ \A q \in Queries : pc[q] = "rollback" /\ kept[q] = "lost" => client[q] \in lost

IInv == TypeOK /\ Plain /\ PoolInv /\ Sessions /\ NoWrite /\ Honest /\ Losses

-----------------------------------------------------------------------------
(* Types.                                                                  *)

\* What a call changes when it returns.
Typed ==
  /\ pc' \in [Calls -> {"idle", "connect", "begin", "run", "rollback", "catalog", "end"}]
  /\ status' \in [Calls -> Outcomes \union {"none"}]
  /\ client' \in [Calls -> Clients \union {NoClient}]
  /\ place' \in [Clients -> {"absent", "idle", "busy"}]

\* Returning keeps the types.
LEMMA SettleType ==
  ASSUME TypeOK, NEW q \in Calls, NEW s \in Outcomes \union {"none"}, Settle(q, s),
         NEW c, NEW b, Release(c, b)
  PROVE  Typed
<1>1. place' \in [Clients -> {"absent", "idle", "busy"}] BY DEF Release, TypeOK
<1>2. status' \in [Calls -> Outcomes \union {"none"}] BY DEF Settle, TypeOK
<1> QED BY <1>1, <1>2 DEF Settle, Typed, TypeOK

\* The ways a catalog read ends.
LEMMA ReadEnds ==
  ASSUME NEW k, CatalogRead(k)
  PROVE  \E outcome \in Outcomes :
           /\ Release(client[k], outcome # "ok")
           /\ \/ /\ More(k) /\ left' = [left EXCEPT ![k] = @ - 1] /\ Connect(k)
                 /\ client' = [client EXCEPT ![k] = NoClient] /\ UNCHANGED status
              \/ (Settle(k, "error") \/ Settle(k, outcome)) /\ UNCHANGED <<left, queue>>
           /\ outcome = "lost" => client[k] \in lost
           /\ outcome = "ok" /\ client[k] \notin lost => tx[client[k]] # "failed"
           /\ outcome = "ok" \/ client[k] \in lost => UNCHANGED sessionVars
           /\ outcome = "ok" => client[k] \notin lost
           /\ UNCHANGED sessionVars \/ Abort(client[k])
BY DEF CatalogRead

\* What is committed was held by the session.
LEMMA CommitTypes ==
  ASSUME TypeOK, NEW c \in Clients, EndClient(c)
  PROVE  written' \subseteq Queries
<1>1. held[c] \subseteq Queries BY DEF TypeOK
<1> QED BY <1>1 DEF EndClient, TypeOK

SessionTypes ==
  /\ tx \in [Clients -> {"none", "ro", "rw", "failed"}]
  /\ default \in [Clients -> BOOLEAN] /\ saved \in [Clients -> BOOLEAN]
  /\ held \in [Clients -> SUBSET Queries] /\ within \subseteq Queries
  /\ written \subseteq Queries

\* What a session serves keeps its types.
LEMMA PerformTypes ==
  ASSUME TypeOK, NEW q \in Calls, NEW c \in Clients,
         (q \in Queries /\ Perform(q, c)) \/ Abort(c) \/ UNCHANGED sessionVars
  PROVE  SessionTypes'
<1>0. SessionTypes BY DEF TypeOK, SessionTypes
<1>1. CASE Abort(c) BY <1>0, <1>1 DEF Abort, SessionTypes
<1>2. CASE q \in Queries /\ Effect(q, c)
  <2>1. default' \in [Clients -> BOOLEAN] BY <1>0, <1>2 DEF Effect, SessionTypes
  <2>2. /\ held' \in [Clients -> SUBSET Queries]
        /\ within' \subseteq Queries /\ written' \subseteq Queries
    <3>1. CASE held' = [held EXCEPT ![c] = @ \union {q}] /\ within' = within \union {q}
               /\ UNCHANGED written
      BY <1>0, <1>2, <3>1 DEF SessionTypes
    <3>2. CASE UNCHANGED <<held, within>>
      BY <1>0, <1>2, <3>2 DEF Effect, SessionTypes
    <3> QED BY <1>2, <3>1, <3>2 DEF Effect
  <2> QED BY <1>0, <1>2, <2>1, <2>2 DEF Effect, SessionTypes
<1>3. CASE BeginClient(c)
  <2>1. tx' \in [Clients -> {"none", "ro", "rw", "failed"}]
    BY <1>0, <1>3 DEF BeginClient, SessionTypes
  <2>2. saved' \in [Clients -> BOOLEAN]
    <3>1. c \in Clients => default[c] \in BOOLEAN /\ saved[c] \in BOOLEAN
      BY <1>0 DEF SessionTypes
    <3> QED BY <1>0, <1>3, <3>1 DEF BeginClient, SessionTypes
  <2> QED BY <1>0, <1>3, <2>1, <2>2 DEF BeginClient, SessionTypes
<1>4. CASE EndClient(c)
  <2>1. /\ tx' \in [Clients -> {"none", "ro", "rw", "failed"}]
        /\ held' \in [Clients -> SUBSET Queries]
    BY <1>0, <1>4 DEF EndClient, SessionTypes
  <2>2. default' \in [Clients -> BOOLEAN]
    <3>1. c \in Clients => default[c] \in BOOLEAN /\ saved[c] \in BOOLEAN
      BY <1>0 DEF SessionTypes
    <3> QED BY <1>0, <1>4, <3>1 DEF EndClient, SessionTypes
  <2>3. written' \subseteq Queries
    BY <1>0, <1>4, CommitTypes DEF EndClient, SessionTypes
  <2> QED BY <1>0, <1>4, <2>1, <2>2, <2>3 DEF EndClient, SessionTypes
<1>5. CASE UNCHANGED sessionVars BY <1>0, <1>5 DEF sessionVars, SessionTypes
<1> QED BY <1>1, <1>2, <1>3, <1>4, <1>5 DEF Perform

\* The variables keep their types.
LEMMA TypeStep ==
  ASSUME TypeOK, OwnClient, [Next]_vars
  PROVE  TypeOK'
<1> USE DEF modeVars, callVars, sessionVars
<1>0. \A q \in Calls : Append(queue, q) \in Seq(Calls) BY DEF TypeOK
<1>1. ASSUME NEW q \in Queries, Query(q) PROVE TypeOK'
  BY <1>0, <1>1 DEF Query, Connect, TypeOK
<1>2. ASSUME NEW q \in Queries, Begin(q) PROVE TypeOK'
  <2> DEFINE c == client[q]
  <2>1. /\ tx' \in [Clients -> {"none", "ro", "rw", "failed"}]
        /\ saved' \in [Clients -> BOOLEAN]
    <3>1. CASE tx' = [tx EXCEPT ![c] = "ro"] /\ saved' = [saved EXCEPT ![c] = default[c]]
      BY <3>1 DEF TypeOK
    <3>2. CASE UNCHANGED <<tx, saved>> BY <3>2 DEF TypeOK
    <3> QED BY <1>2, <3>1, <3>2 DEF Begin
  <2>2. CASE pc' = [pc EXCEPT ![q] = "run"] /\ UNCHANGED <<kept, status, client, place>>
    BY <1>2, <2>1, <2>2 DEF Begin, TypeOK
  <2>3. CASE /\ kept' = [kept EXCEPT ![q] = "lost"] /\ pc' = [pc EXCEPT ![q] = "rollback"]
             /\ UNCHANGED <<status, client, place>>
    BY <1>2, <2>1, <2>3 DEF Begin, TypeOK
  <2>4. CASE Settle(q, "lost") /\ Release(c, TRUE) /\ UNCHANGED kept
    <3>1. Typed BY <2>4, SettleType
    <3> QED BY <1>2, <2>1, <2>4, <3>1 DEF Begin, Typed, TypeOK
  <2> QED BY <1>2, <2>2, <2>3, <2>4 DEF Begin
<1>3. ASSUME NEW q \in Queries, Run(q) PROVE TypeOK'
  <2> DEFINE c == client[q]
             outcome == IF c \in lost THEN "lost" ELSE IF Refused(q, c) THEN "error" ELSE "ok"
  <2>0. c \in Clients BY <1>3 DEF Run, OwnClient, Holds
  <2>1. SessionTypes' BY <1>3, <2>0, PerformTypes DEF Run
  <2>2. CASE /\ kept' = [kept EXCEPT ![q] = outcome] /\ pc' = [pc EXCEPT ![q] = "rollback"]
             /\ UNCHANGED <<status, client, place>>
    BY <1>3, <2>1, <2>2 DEF Run, TypeOK, SessionTypes
  <2>3. CASE Settle(q, outcome) /\ Release(c, outcome # "ok") /\ UNCHANGED kept
    <3>1. Typed BY <2>3, SettleType
    <3> QED BY <1>3, <2>1, <2>3, <3>1 DEF Run, Typed, TypeOK, SessionTypes
  <2> QED BY <1>3, <2>2, <2>3 DEF Run
<1>4. ASSUME NEW q \in Queries, Rollback(q) PROVE TypeOK'
  <2> DEFINE c == client[q]
  <2>1. Result(q, c) \in Outcomes \union {"none"} BY DEF Result, TypeOK
  <2>2. Typed BY <1>4, <2>1, SettleType DEF Rollback
  <2>3. /\ tx' \in [Clients -> {"none", "ro", "rw", "failed"}]
        /\ default' \in [Clients -> BOOLEAN]
    BY <1>4 DEF Rollback, TypeOK
  <2> QED BY <1>4, <2>2, <2>3 DEF Rollback, Typed, TypeOK
<1>5. ASSUME NEW k \in Catalogs, Catalog(k) PROVE TypeOK'
  BY <1>0, <1>5 DEF Catalog, Connect, TypeOK
<1>6. ASSUME NEW k \in Catalogs, CatalogRead(k) PROVE TypeOK'
  <2>0. /\ SessionTypes' /\ UNCHANGED <<modeVars, up, stmt, kept, losses, lost>>
    <3>1. client[k] \in Clients BY <1>6 DEF CatalogRead, OwnClient, Holds
    <3>2. UNCHANGED sessionVars \/ Abort(client[k]) BY <1>6, ReadEnds
    <3> QED BY <1>6, <3>1, <3>2, PerformTypes DEF CatalogRead
  <2>1. PICK outcome \in Outcomes :
          /\ Release(client[k], outcome # "ok")
          /\ \/ /\ More(k) /\ left' = [left EXCEPT ![k] = @ - 1] /\ Connect(k)
                /\ client' = [client EXCEPT ![k] = NoClient] /\ UNCHANGED status
             \/ (Settle(k, "error") \/ Settle(k, outcome)) /\ UNCHANGED <<left, queue>>
    BY <1>6, ReadEnds
  <2>2. place' \in [Clients -> {"absent", "idle", "busy"}]
    BY <2>1 DEF Release, TypeOK
  <2>3. CASE /\ More(k) /\ left' = [left EXCEPT ![k] = @ - 1] /\ Connect(k)
             /\ client' = [client EXCEPT ![k] = NoClient] /\ UNCHANGED status
    <3>1. left' \in [Catalogs -> 0..3] BY <2>3 DEF More, TypeOK
    <3>2. queue' \in Seq(Calls) BY <1>0, <2>3 DEF Connect
    <3>3. /\ pc' \in [Calls -> {"idle", "connect", "begin", "run", "rollback", "catalog", "end"}]
          /\ client' \in [Calls -> Clients \union {NoClient}]
      BY <2>3 DEF Connect, TypeOK
    <3> QED BY <2>0, <2>2, <2>3, <3>1, <3>2, <3>3 DEF SessionTypes, TypeOK
  <2>4. CASE (Settle(k, "error") \/ Settle(k, outcome)) /\ UNCHANGED <<left, queue>>
    <3>1. Typed BY <2>1, <2>4, SettleType
    <3> QED BY <2>0, <2>4, <3>1 DEF Typed, SessionTypes, TypeOK
  <2> QED BY <2>1, <2>3, <2>4
<1>7. ASSUME NEW q \in Calls, NEW c \in Clients, Take(q, c) PROVE TypeOK'
  <2>1. Tail(queue) \in Seq(Calls) BY <1>7 DEF Take, TypeOK
  <2>2. held' \in [Clients -> SUBSET Queries]
    <3>1. held' = held \/ held' = [held EXCEPT ![c] = {}] BY <1>7 DEF Take
    <3> QED BY <3>1 DEF TypeOK
  <2>3. /\ tx' \in [Clients -> {"none", "ro", "rw", "failed"}]
        /\ default' \in [Clients -> BOOLEAN] /\ saved' \in [Clients -> BOOLEAN]
        /\ lost' \subseteq Clients
    BY <1>7 DEF Take, TypeOK
  <2>4. CASE /\ place' = [place EXCEPT ![c] = "busy"] /\ client' = [client EXCEPT ![q] = c]
             /\ pc' = [pc EXCEPT ![q] = FirstRequest(q)] /\ UNCHANGED status
    <3>1. FirstRequest(q) \in {"begin", "run", "catalog"} BY DEF FirstRequest
    <3>2. Typed BY <2>4, <3>1 DEF Typed, TypeOK
    <3> QED BY <1>7, <2>1, <2>2, <2>3, <3>2 DEF Take, Typed, TypeOK
  <2>5. CASE Settle(q, "error") /\ UNCHANGED place
    <3>1. Typed BY <2>5 DEF Settle, Typed, TypeOK
    <3> QED BY <1>7, <2>1, <2>2, <2>3, <3>1 DEF Take, Typed, TypeOK
  <2> QED BY <1>7, <2>4, <2>5 DEF Take
<1>8. ASSUME NEW c \in Clients, Lose(c) PROVE TypeOK'
  <2>1. losses' \in 0..MaxLosses BY <1>8, BoundsAssumption DEF Lose, TypeOK
  <2>2. up' \in BOOLEAN BY <1>8 DEF Lose, TypeOK
  <2> QED BY <1>8, <2>1, <2>2 DEF Lose, TypeOK
<1>9. CASE UNCHANGED vars BY <1>9 DEF vars, TypeOK
<1> QED BY <1>1, <1>2, <1>3, <1>4, <1>5, <1>6, <1>7, <1>8, <1>9 DEF Next

-----------------------------------------------------------------------------
(* The queue and the clients.                                              *)

\* A call that waits goes to the end of the queue.
LEMMA Joins ==
  ASSUME TypeOK, Queued, NEW q \in Calls, pc[q] # "connect", Connect(q)
  PROVE  Queued'
<1>1. /\ Len(queue) \in Nat /\ DOMAIN queue = 1..Len(queue)
      /\ DOMAIN queue' = 1..(Len(queue) + 1)
      /\ \A i \in DOMAIN queue : queue'[i] = queue[i] /\ queue[i] \in Calls
      /\ queue'[Len(queue) + 1] = q
  BY DEF TypeOK, Connect
<1>2. pc'[q] = "connect" /\ \A p \in Calls \ {q} : pc'[p] = pc[p]
  BY DEF TypeOK, Connect
<1>3. \A i \in DOMAIN queue : queue[i] # q BY <1>1 DEF Queued
<1> QED BY <1>1, <1>2, <1>3 DEF Queued

\* The first of the queue gets what it waits for.
LEMMA Served ==
  ASSUME TypeOK, Queued, queue # <<>>, queue' = Tail(queue), NEW x, x # "connect",
         pc' = [pc EXCEPT ![Head(queue)] = x]
  PROVE  Head(queue) \in Calls /\ pc[Head(queue)] = "connect" /\ Queued'
<1>0. queue \in Seq(Calls) BY DEF TypeOK
<1>1. /\ Len(queue) \in Nat \ {0} /\ DOMAIN queue = 1..Len(queue)
      /\ Head(queue) = queue[1] /\ \A i \in DOMAIN queue : queue[i] \in Calls
  BY <1>0
<1>2. /\ queue' \in Seq(Calls) /\ Len(queue') = Len(queue) - 1
      /\ \A i \in 1..(Len(queue) - 1) : queue'[i] = queue[i + 1]
  BY <1>0, <1>1
<1>3. DOMAIN queue' = 1..(Len(queue) - 1) BY <1>1, <1>2
<1>4. 1 \in DOMAIN queue BY <1>1
<1>5. \A p \in Calls \ {queue[1]} : pc'[p] = pc[p] BY <1>1 DEF TypeOK
<1>6. ASSUME NEW i \in DOMAIN queue' PROVE pc'[queue'[i]] = "connect"
  <2>1. i + 1 \in DOMAIN queue /\ i + 1 # 1 BY <1>1, <1>3
  <2>2. queue[i + 1] # queue[1] BY <1>4, <2>1 DEF Queued
  <2> QED BY <1>1, <1>2, <1>3, <1>5, <2>1, <2>2 DEF Queued
<1>7. ASSUME NEW i \in DOMAIN queue', NEW j \in DOMAIN queue', queue'[i] = queue'[j]
      PROVE  i = j
  <2>1. i \in Int /\ j \in Int /\ i + 1 \in DOMAIN queue /\ j + 1 \in DOMAIN queue
    BY <1>1, <1>3
  <2>2. i + 1 = j + 1 BY <1>2, <1>3, <1>7, <2>1 DEF Queued
  <2> QED BY <2>1, <2>2
<1> QED BY <1>1, <1>4, <1>6, <1>7 DEF Queued

\* A step of a call that does not wait leaves the queue.
LEMMA Passes ==
  ASSUME TypeOK, Queued, queue' = queue, NEW q \in Calls, pc[q] # "connect",
         \A p \in Calls \ {q} : pc'[p] = pc[p]
  PROVE  Queued'
<1>1. \A i \in DOMAIN queue : queue[i] \in Calls BY DEF TypeOK
<1> QED BY <1>1 DEF Queued

\* A call that is at a request of its own goes on, or lets its client go.
LEMMA GoesOn ==
  ASSUME TypeOK, OwnClient, NEW q \in Calls, Holds(q),
         \A p \in Calls \ {q} : pc'[p] = pc[p] /\ client'[p] = client[p],
         \A d \in Clients \ {client[q]} : place'[d] = place[d],
         \/ client'[q] = client[q] /\ place' = place
         \/ pc'[q] \in {"connect", "end"}
  PROVE  OwnClient'
BY DEF OwnClient, Holds

\* Every step keeps the queue, and each call's client its own.
LEMMA PoolStep ==
  ASSUME TypeOK, PoolInv, [Next]_vars
  PROVE  PoolInv'
<1> USE DEF modeVars, callVars, sessionVars
<1>0. Queued /\ Requests /\ OwnClient BY DEF PoolInv
<1>1. ASSUME NEW q \in Calls, Query(q) \/ Catalog(q) PROVE PoolInv'
  <2>1. /\ pc[q] = "idle" /\ Connect(q) /\ UNCHANGED <<readOnly, client, place>>
    BY <1>1 DEF Query, Catalog
  <2>2. pc'[q] = "connect" /\ \A p \in Calls \ {q} : pc'[p] = pc[p]
    BY <2>1 DEF Connect, TypeOK
  <2>3. Queued' BY <1>0, <2>1, Joins
  <2>4. Requests' BY <1>0, <2>1, <2>2 DEF Requests
  <2>5. OwnClient' BY <1>0, <2>1, <2>2 DEF OwnClient, Holds
  <2> QED BY <2>3, <2>4, <2>5 DEF PoolInv
<1>2. ASSUME NEW q \in Calls, Holds(q),
             \A p \in Calls \ {q} : pc'[p] = pc[p] /\ client'[p] = client[p],
             \A d \in Clients \ {client[q]} : place'[d] = place[d],
             \/ client'[q] = client[q] /\ place' = place
             \/ pc'[q] \in {"connect", "end"},
             q \in Queries => pc'[q] \in {"run", "rollback", "end"} /\ (pc'[q] = "rollback" => readOnly),
             q \in Catalogs => pc'[q] \in {"connect", "end"},
             readOnly' = readOnly,
             Connect(q) \/ queue' = queue
      PROVE  PoolInv'
  <2>1. pc[q] # "connect" BY <1>2 DEF Holds
  <2>2. Queued' BY <1>0, <1>2, <2>1, Joins, Passes
  <2>3. OwnClient' BY <1>0, <1>2, GoesOn
  <2>4. Requests' BY <1>0, <1>2 DEF Requests
  <2> QED BY <2>2, <2>3, <2>4 DEF PoolInv
<1>3. ASSUME NEW q \in Calls, NEW s, NEW b, Holds(q), Settle(q, s), Release(client[q], b),
             readOnly' = readOnly, queue' = queue
      PROVE  PoolInv'
  <2>1. pc'[q] = "end" /\ \A p \in Calls \ {q} : pc'[p] = pc[p] /\ client'[p] = client[p]
    BY <1>3 DEF Settle, TypeOK
  <2>2. \A d \in Clients \ {client[q]} : place'[d] = place[d]
    BY <1>3 DEF Release, TypeOK
  <2> QED BY <1>2, <1>3, <2>1, <2>2
<1>4. ASSUME NEW q \in Queries, NEW x \in {"run", "rollback"}, Holds(q),
             pc' = [pc EXCEPT ![q] = x], x = "rollback" => readOnly,
             UNCHANGED <<client, place, readOnly, queue>>
      PROVE  PoolInv'
  <2>1. pc'[q] = x /\ \A p \in Calls \ {q} : pc'[p] = pc[p]
    BY <1>4 DEF TypeOK
  <2>2. q \notin Catalogs BY CallsAssumption
  <2> QED BY <1>2, <1>4, <2>1, <2>2
<1>5. ASSUME NEW q \in Queries, Begin(q) PROVE PoolInv'
  <2>1. Holds(q) /\ readOnly /\ readOnly' = readOnly /\ queue' = queue
    BY <1>0, <1>5 DEF Begin, Holds, Requests
  <2>2. CASE pc' = [pc EXCEPT ![q] = "run"] /\ UNCHANGED <<client, place>>
    BY <1>4, <2>1, <2>2
  <2>3. CASE pc' = [pc EXCEPT ![q] = "rollback"] /\ UNCHANGED <<client, place>>
    BY <1>4, <2>1, <2>3
  <2>4. CASE Settle(q, "lost") /\ Release(client[q], TRUE)
    BY <1>3, <2>1, <2>4
  <2> QED BY <1>5, <2>2, <2>3, <2>4 DEF Begin
<1>6. ASSUME NEW q \in Queries, Run(q) PROVE PoolInv'
  <2>1. Holds(q) /\ readOnly' = readOnly /\ queue' = queue
    BY <1>6 DEF Run, Holds
  <2>2. CASE readOnly /\ pc' = [pc EXCEPT ![q] = "rollback"] /\ UNCHANGED <<client, place>>
    BY <1>4, <2>1, <2>2
  <2>3. ASSUME NEW s, NEW b, Settle(q, s), Release(client[q], b) PROVE PoolInv'
    BY <1>3, <2>1, <2>3
  <2> QED BY <1>6, <2>2, <2>3 DEF Run
<1>7. ASSUME NEW q \in Queries, Rollback(q) PROVE PoolInv'
  BY <1>3, <1>7 DEF Rollback, Holds
<1>8. ASSUME NEW k \in Catalogs, CatalogRead(k) PROVE PoolInv'
  <2>1. Holds(k) /\ readOnly' = readOnly
    BY <1>8 DEF CatalogRead, Holds
  <2>2. PICK b : Release(client[k], b) BY <1>8 DEF CatalogRead
  <2>3. CASE Connect(k) /\ client' = [client EXCEPT ![k] = NoClient]
    <3>1. /\ pc'[k] = "connect"
          /\ \A p \in Calls \ {k} : pc'[p] = pc[p] /\ client'[p] = client[p]
      BY <2>3 DEF Connect, TypeOK
    <3>2. \A d \in Clients \ {client[k]} : place'[d] = place[d]
      BY <2>2 DEF Release, TypeOK
    <3>3. k \notin Queries BY CallsAssumption
    <3> QED BY <1>2, <2>1, <2>3, <3>1, <3>2, <3>3
  <2>4. ASSUME NEW s, Settle(k, s), queue' = queue PROVE PoolInv'
    BY <1>3, <2>1, <2>2, <2>4
  <2> QED BY <1>8, <2>3, <2>4 DEF CatalogRead
<1>9. ASSUME NEW q \in Calls, NEW c \in Clients, Take(q, c) PROVE PoolInv'
  <2>1. /\ queue # <<>> /\ q = Head(queue) /\ queue' = Tail(queue) /\ readOnly' = readOnly
    BY <1>9 DEF Take
  <2>2. CASE /\ place[c] # "busy" /\ place' = [place EXCEPT ![c] = "busy"]
             /\ client' = [client EXCEPT ![q] = c] /\ pc' = [pc EXCEPT ![q] = FirstRequest(q)]
    <3>1. FirstRequest(q) \in {"catalog", "begin", "run"} BY DEF FirstRequest
    <3>2. pc[q] = "connect" /\ Queued' BY <1>0, <2>1, <2>2, <3>1, Served
    <3>3. /\ pc'[q] = FirstRequest(q) /\ client'[q] = c /\ place'[c] = "busy"
          /\ \A p \in Calls \ {q} : pc'[p] = pc[p] /\ client'[p] = client[p]
          /\ \A d \in Clients \ {c} : place'[d] = place[d]
      BY <2>2 DEF TypeOK
    <3>4. Requests'
      BY <1>0, <2>1, <3>3, CallsAssumption DEF Requests, FirstRequest
    <3>5. OwnClient' BY <1>0, <2>2, <3>3 DEF OwnClient, Holds
    <3> QED BY <3>2, <3>4, <3>5 DEF PoolInv
  <2>3. CASE Settle(q, "error") /\ place' = place
    <3>1. pc[q] = "connect" /\ Queued' BY <1>0, <2>1, <2>3, Served DEF Settle
    <3>2. /\ pc'[q] = "end"
          /\ \A p \in Calls \ {q} : pc'[p] = pc[p] /\ client'[p] = client[p]
      BY <2>3 DEF Settle, TypeOK
    <3>3. Requests' BY <1>0, <2>1, <3>2 DEF Requests
    <3>4. OwnClient' BY <1>0, <2>3, <3>2 DEF OwnClient, Holds
    <3> QED BY <3>1, <3>3, <3>4 DEF PoolInv
  <2> QED BY <1>9, <2>2, <2>3 DEF Take, Idle, Fresh
<1>10. ASSUME NEW c \in Clients, Lose(c) PROVE PoolInv'
  BY <1>0, <1>10 DEF Lose, PoolInv, Queued, Requests, OwnClient, Holds
<1>11. CASE UNCHANGED vars
  BY <1>0, <1>11 DEF vars, PoolInv, Queued, Requests, OwnClient, Holds
<1> QED BY <1>1, <1>5, <1>6, <1>7, <1>8, <1>9, <1>10, <1>11 DEF Next

-----------------------------------------------------------------------------
(* The sessions.                                                           *)

\* Another client's session is nobody else's: a step on c matters to its
\* holder and to c only.
LEMMA Elsewhere ==
  ASSUME TypeOK, Sessions, NEW q \in Calls, NEW c,
         \A d \in Clients \ {c} : /\ tx'[d] = tx[d] /\ default'[d] = default[d]
                                  /\ saved'[d] = saved[d] /\ place'[d] = place[d]
                                  /\ d \in lost' <=> d \in lost,
         \A p \in Calls \ {q} : /\ pc'[p] = pc[p] /\ client'[p] = client[p]
                                /\ Holds(p) => client[p] \in Clients \ {c},
         readOnly' = readOnly, pooled' = pooled,
         c \in Clients => (Idle(c) /\ c \notin lost => Clean(c))',
         InOrder(q)'
  PROVE  Sessions'
<1>1. ASSUME NEW d \in Clients PROVE (Idle(d) /\ d \notin lost => Clean(d))'
  <2>1. CASE d = c BY <2>1
  <2>2. CASE d # c BY <2>2 DEF Sessions, Idle, Clean
  <2> QED BY <2>1, <2>2
<1>2. ASSUME NEW p \in Calls PROVE InOrder(p)'
  <2>1. CASE p = q BY <2>1
  <2>2. CASE p # q
    <3>1. /\ pc'[p] = pc[p] /\ client'[p] = client[p]
          /\ Holds(p) => client[p] \in Clients \ {c}
      BY <2>2
    <3>2. Holds(p)' <=> Holds(p) BY <3>1 DEF Holds
    <3>3. ASSUME Holds(p)
          PROVE  /\ tx'[client'[p]] = tx[client[p]] /\ default'[client'[p]] = default[client[p]]
                 /\ saved'[client'[p]] = saved[client[p]]
                 /\ client'[p] \in lost' <=> client[p] \in lost
      BY <3>1, <3>3
    <3>4. InOrder(p) BY DEF Sessions
    <3> QED BY <3>1, <3>2, <3>3, <3>4 DEF InOrder, Clean, Opened
  <2> QED BY <2>1, <2>2
<1> QED BY <1>1, <1>2 DEF Sessions

\* Only Query sets a statement, and the guard passes no transaction's.
LEMMA PlainStep ==
  ASSUME TypeOK, Plain, [Next]_vars
  PROVE  Plain'
<1>1. ASSUME NEW q \in Queries, Query(q) PROVE Plain'
  <2>1. PICK t \in Statements : (readOnly => t \notin Control) /\ stmt' = [stmt EXCEPT ![q] = t]
    BY <1>1 DEF Query
  <2>2. readOnly' = readOnly BY <1>1 DEF Query, modeVars
  <2>3. \A p \in Queries : stmt'[p] = t \/ stmt'[p] = stmt[p]
    BY <2>1 DEF TypeOK
  <2> QED BY <2>1, <2>2, <2>3 DEF Plain
<1>2. CASE UNCHANGED <<readOnly, stmt>>
  BY <1>2 DEF Plain
<1> QED BY <1>1, <1>2 DEF Next, Begin, Run, Rollback, Catalog, CatalogRead, Take, Lose,
                          vars, modeVars, callVars

\* Every step keeps the sessions in order, and read-only mode free of writes.
LEMMA SessionStep ==
  ASSUME TypeOK, Plain, PoolInv, Sessions, NoWrite, [Next]_vars
  PROVE  Sessions' /\ NoWrite'
<1> USE DEF modeVars, callVars, sessionVars
<1>0. Queued /\ Requests /\ OwnClient BY DEF PoolInv
<1>p. pooled' = pooled
  BY DEF Next, Query, Begin, Run, Rollback, Catalog, CatalogRead, Take, Lose, vars
<1>1. ASSUME NEW q \in Calls, Query(q) \/ Catalog(q) PROVE Sessions' /\ NoWrite'
  <2>1. /\ UNCHANGED <<readOnly, client, place, lost, tx, default, saved, written>>
        /\ pc'[q] = "connect" /\ \A p \in Calls \ {q} : pc'[p] = pc[p]
    BY <1>1 DEF Query, Catalog, Connect, TypeOK
  <2> QED BY <1>p, <2>1 DEF Sessions, InOrder, Holds, Idle, Clean, Opened, NoWrite
<1>2. ASSUME NEW q \in Calls, Holds(q)
      PROVE  /\ client[q] \in Clients /\ place[client[q]] = "busy"
             /\ \A p \in Calls \ {q} : Holds(p) => client[p] \in Clients \ {client[q]}
  BY <1>0, <1>2 DEF OwnClient
<1>3. ASSUME NEW q \in Queries, Begin(q) PROVE Sessions' /\ NoWrite'
  <2> DEFINE c == client[q]
  <2>1. /\ Holds(q) /\ pc[q] = "begin" /\ UNCHANGED <<readOnly, lost, default, written>>
        /\ c \in Clients /\ place[c] = "busy"
        /\ \A p \in Calls \ {q} : Holds(p) => client[p] \in Clients \ {c}
        /\ readOnly
    BY <1>0, <1>2, <1>3 DEF Begin, Holds, Requests
  <2>2. CASE /\ c \notin lost /\ tx' = [tx EXCEPT ![c] = "ro"]
             /\ saved' = [saved EXCEPT ![c] = default[c]]
             /\ pc' = [pc EXCEPT ![q] = "run"] /\ UNCHANGED <<client, place>>
    <3>1. /\ \A d \in Clients \ {c} : tx'[d] = tx[d] /\ saved'[d] = saved[d]
          /\ tx'[c] = "ro" /\ saved'[c] = default[c]
          /\ pc'[q] = "run" /\ \A p \in Calls \ {q} : pc'[p] = pc[p]
      BY <2>1, <2>2 DEF TypeOK
    <3>2. Clean(c) BY <2>1, <2>2 DEF Sessions, InOrder
    <3>3. InOrder(q)' BY <2>1, <2>2, <3>1, <3>2 DEF InOrder, Clean
    <3>4. (Idle(c) /\ c \notin lost => Clean(c))' BY <2>1, <2>2 DEF Idle
    <3> QED BY <2>1, <2>2, <3>1, <3>3, <3>4, <1>p, Elsewhere DEF NoWrite
  <2>3. CASE /\ c \in lost /\ pc' = [pc EXCEPT ![q] = "rollback"]
             /\ UNCHANGED <<client, place, tx, saved>>
    <3>1. pc'[q] = "rollback" /\ \A p \in Calls \ {q} : pc'[p] = pc[p]
      BY <2>3 DEF TypeOK
    <3>2. InOrder(q)' BY <2>1, <2>3 DEF InOrder
    <3>3. (Idle(c) /\ c \notin lost => Clean(c))' BY <2>1, <2>3 DEF Idle
    <3> QED BY <2>1, <2>3, <3>1, <3>2, <3>3, <1>p, Elsewhere DEF NoWrite
  <2>4. CASE c \in lost /\ Settle(q, "lost") /\ Release(c, TRUE) /\ UNCHANGED <<tx, saved>>
    <3>1. /\ pc'[q] = "end"
          /\ \A p \in Calls \ {q} : pc'[p] = pc[p] /\ client'[p] = client[p]
          /\ \A d \in Clients \ {c} : place'[d] = place[d]
      BY <2>4 DEF Settle, Release, TypeOK
    <3>2. InOrder(q)' BY <3>1 DEF InOrder, Holds
    <3> QED BY <2>1, <2>4, <3>1, <3>2, <1>p, Elsewhere DEF NoWrite
  <2> QED BY <1>3, <2>2, <2>3, <2>4 DEF Begin
<1>4. ASSUME NEW q \in Queries, Run(q) PROVE Sessions' /\ NoWrite'
  <2>0. PICK c : c = client[q] OBVIOUS
  <2> DEFINE outcome == IF c \in lost THEN "lost" ELSE IF Refused(q, c) THEN "error" ELSE "ok"
  <2>1. /\ Holds(q) /\ pc[q] = "run" /\ UNCHANGED <<readOnly, lost>>
        /\ c \in Clients /\ place[c] = "busy"
        /\ \A p \in Calls \ {q} : Holds(p) => client[p] \in Clients \ {c}
    BY <1>2, <1>4, <2>0 DEF Run, Holds
  <2>2. /\ \A d \in Clients \ {c} : tx'[d] = tx[d] /\ default'[d] = default[d] /\ saved'[d] = saved[d]
        /\ c \notin lost /\ readOnly => tx'[c] # "none" /\ saved'[c]
        /\ readOnly => written' = written
        /\ outcome = "ok" => tx'[c] # "failed"
    <3>1. CASE c \in lost
      BY <1>4, <2>0, <3>1 DEF Run
    <3>2. CASE c \notin lost
      <4>1. Perform(q, c) BY <1>4, <2>0, <3>2 DEF Run
      <4>2. InOrder(q) BY DEF Sessions
      <4>3. readOnly => tx[c] = "ro" /\ saved[c] /\ stmt[q] \notin Control
        BY <2>0, <2>1, <3>2, <4>2 DEF InOrder, Plain
      <4>4. CASE Refused(q, c) /\ Abort(c)
        BY <2>1, <3>2, <4>3, <4>4 DEF Abort, TypeOK
      <4>5. CASE ~Refused(q, c) /\ stmt[q] \notin Control /\ Effect(q, c)
        <5>1. tx[c] # "failed" /\ (readOnly => stmt[q] # "write")
          BY <4>3, <4>5 DEF Refused
        <5> QED BY <2>1, <3>2, <4>3, <4>5, <5>1 DEF Effect, TypeOK
      <4>6. CASE ~Refused(q, c) /\ stmt[q] = "begin" /\ BeginClient(c)
        <5>1. tx[c] # "failed" BY <4>6 DEF Refused
        <5> QED BY <2>1, <3>2, <4>3, <4>6, <5>1 DEF BeginClient, TypeOK
      <4>7. CASE ~Refused(q, c) /\ stmt[q] = "end" /\ EndClient(c)
        BY <2>1, <3>2, <4>3, <4>7 DEF EndClient, TypeOK
      <4> QED BY <4>1, <4>4, <4>5, <4>6, <4>7 DEF Perform
    <3> QED BY <3>1, <3>2
  <2>3. NoWrite' BY <2>1, <2>2 DEF NoWrite
  <2>4. CASE readOnly /\ pc' = [pc EXCEPT ![q] = "rollback"] /\ UNCHANGED <<client, place>>
    <3>1. pc'[q] = "rollback" /\ \A p \in Calls \ {q} : pc'[p] = pc[p]
      BY <2>4 DEF TypeOK
    <3>2. InOrder(q)' BY <2>0, <2>1, <2>2, <2>4, <3>1 DEF InOrder, Opened
    <3>3. (Idle(c) /\ c \notin lost => Clean(c))' BY <2>1, <2>4 DEF Idle
    <3> QED BY <2>1, <2>2, <2>3, <2>4, <3>1, <3>2, <3>3, <1>p, Elsewhere
  <2>5. CASE ~readOnly /\ Settle(q, outcome) /\ Release(c, outcome # "ok")
    <3>1. /\ pc'[q] = "end"
          /\ \A p \in Calls \ {q} : pc'[p] = pc[p] /\ client'[p] = client[p]
          /\ \A d \in Clients \ {c} : place'[d] = place[d]
      BY <2>0, <2>5 DEF Settle, Release, TypeOK
    <3>2. InOrder(q)' BY <3>1 DEF InOrder, Holds
    <3>3. (Idle(c) /\ c \notin lost => Clean(c))'
      <4>1. Idle(c)' /\ pooled => outcome = "ok"
        BY <2>1, <2>5 DEF Release, Idle, TypeOK
      <4> QED BY <1>p, <2>1, <2>2, <2>5, <4>1 DEF Clean
    <3> QED BY <2>1, <2>2, <2>3, <3>1, <3>2, <3>3, <1>p, Elsewhere
  <2> QED BY <1>4, <2>0, <2>4, <2>5 DEF Run
<1>5. ASSUME NEW q \in Queries, Rollback(q) PROVE Sessions' /\ NoWrite'
  <2>0. PICK c : c = client[q] OBVIOUS
  <2>1. /\ Holds(q) /\ pc[q] = "rollback" /\ UNCHANGED <<readOnly, lost, saved, written>>
        /\ c \in Clients
        /\ \A p \in Calls \ {q} : Holds(p) => client[p] \in Clients \ {c}
    BY <1>2, <1>5, <2>0 DEF Rollback, Holds
  <2>2. /\ pc'[q] = "end"
        /\ \A p \in Calls \ {q} : pc'[p] = pc[p] /\ client'[p] = client[p]
        /\ \A d \in Clients \ {c} : place'[d] = place[d]
    BY <1>5, <2>0 DEF Rollback, Settle, Release, TypeOK
  <2>3. /\ \A d \in Clients \ {c} : tx'[d] = tx[d] /\ default'[d] = default[d]
        /\ tx'[c] = "none" /\ default'[c] = IF tx[c] = "none" THEN default[c] ELSE saved[c]
    BY <1>5, <2>0, <2>1 DEF Rollback, TypeOK
  <2>4. (Idle(c) /\ c \notin lost => Clean(c))'
    <3>1. c \notin lost => Opened(c) BY <2>0, <2>1 DEF Sessions, InOrder
    <3> QED BY <2>1, <2>3, <3>1 DEF Clean, Opened
  <2>5. InOrder(q)' BY <2>2 DEF InOrder, Holds
  <2> QED BY <2>1, <2>2, <2>3, <2>4, <2>5, <1>p, Elsewhere DEF NoWrite
<1>6. ASSUME NEW k \in Catalogs, CatalogRead(k) PROVE Sessions' /\ NoWrite'
  <2>0. PICK c : c = client[k] OBVIOUS
  <2>1. /\ Holds(k) /\ pc[k] = "catalog" /\ UNCHANGED <<readOnly, lost>>
        /\ c \in Clients /\ place[c] = "busy"
        /\ \A p \in Calls \ {k} : Holds(p) => client[p] \in Clients \ {c}
    BY <1>2, <1>6, <2>0 DEF CatalogRead, Holds
  <2>2. PICK outcome \in Outcomes :
          /\ Release(c, outcome # "ok")
          /\ \/ Connect(k) /\ client' = [client EXCEPT ![k] = NoClient]
             \/ Settle(k, "error") \/ Settle(k, outcome)
          /\ outcome = "ok" /\ c \notin lost => tx[c] # "failed"
          /\ outcome = "ok" \/ c \in lost => UNCHANGED sessionVars
          /\ UNCHANGED sessionVars \/ Abort(c)
    BY <1>6, <2>0, ReadEnds
  <2>3. /\ pc'[k] \in {"connect", "end"}
        /\ \A p \in Calls \ {k} : pc'[p] = pc[p] /\ client'[p] = client[p]
        /\ \A d \in Clients \ {c} : place'[d] = place[d]
        /\ pooled /\ outcome # "ok" => place'[c] = "absent"
    BY <2>1, <2>2 DEF Connect, Settle, Release, TypeOK
  <2>4. /\ UNCHANGED <<default, saved, written>>
        /\ \A d \in Clients \ {c} : tx'[d] = tx[d]
        /\ tx[c] = "none" => tx'[c] = "none"
        /\ outcome = "ok" => tx' = tx
    BY <2>1, <2>2 DEF Abort, TypeOK
  <2>5. (Idle(c) /\ c \notin lost => Clean(c))'
    <3>1. c \notin lost => Clean(c) BY <2>0, <2>1 DEF Sessions, InOrder
    <3> QED BY <1>p, <2>1, <2>2, <2>3, <2>4, <3>1 DEF Clean, Idle
  <2>6. InOrder(k)' BY <2>3 DEF InOrder, Holds
  <2> QED BY <2>1, <2>3, <2>4, <2>5, <2>6, <1>p, Elsewhere DEF NoWrite
<1>7. ASSUME NEW q \in Calls, NEW c \in Clients, Take(q, c) PROVE Sessions' /\ NoWrite'
  <2>1. /\ queue # <<>> /\ q = Head(queue) /\ queue' = Tail(queue)
        /\ UNCHANGED <<readOnly, written>>
    BY <1>7 DEF Take
  <2>2. ASSUME place[c] # "busy"
        PROVE  \A p \in Calls \ {q} : Holds(p) => client[p] \in Clients \ {c}
    BY <1>0, <2>2 DEF OwnClient
  <2>3. FirstRequest(q) = "catalog" \/ (FirstRequest(q) = "begin" /\ readOnly)
          \/ (FirstRequest(q) = "run" /\ ~readOnly)
    BY DEF FirstRequest
  <2>4. CASE /\ Idle(c) /\ place' = [place EXCEPT ![c] = "busy"]
             /\ client' = [client EXCEPT ![q] = c] /\ pc' = [pc EXCEPT ![q] = FirstRequest(q)]
             /\ UNCHANGED <<lost, tx, default, saved>>
    <3>1. /\ pc'[q] = FirstRequest(q) /\ client'[q] = c /\ place'[c] = "busy"
          /\ \A p \in Calls \ {q} : pc'[p] = pc[p] /\ client'[p] = client[p]
          /\ \A d \in Clients \ {c} : place'[d] = place[d]
      BY <2>4 DEF TypeOK
    <3>2. c \notin lost => Clean(c) BY <2>4 DEF Sessions
    <3>3. InOrder(q)' BY <1>p, <2>1, <2>3, <2>4, <3>1, <3>2 DEF InOrder, Clean
    <3>4. (Idle(c) /\ c \notin lost => Clean(c))' BY <3>1 DEF Idle
    <3> QED BY <2>1, <2>2, <2>4, <3>1, <3>3, <3>4, <1>p, Elsewhere DEF NoWrite, Idle
  <2>5. CASE /\ Fresh(c) /\ place' = [place EXCEPT ![c] = "busy"]
             /\ client' = [client EXCEPT ![q] = c] /\ pc' = [pc EXCEPT ![q] = FirstRequest(q)]
             /\ lost' = lost \ {c} /\ tx' = [tx EXCEPT ![c] = "none"]
             /\ default' = [default EXCEPT ![c] = readOnly]
             /\ saved' = [saved EXCEPT ![c] = readOnly]
    <3>1. /\ pc'[q] = FirstRequest(q) /\ client'[q] = c /\ place'[c] = "busy"
          /\ \A p \in Calls \ {q} : pc'[p] = pc[p] /\ client'[p] = client[p]
          /\ \A d \in Clients \ {c} :
               place'[d] = place[d] /\ tx'[d] = tx[d] /\ default'[d] = default[d] /\ saved'[d] = saved[d]
          /\ tx'[c] = "none" /\ default'[c] = readOnly
      BY <2>5 DEF TypeOK
    <3>2. InOrder(q)' BY <1>p, <2>1, <2>3, <3>1 DEF InOrder, Clean
    <3>3. (Idle(c) /\ c \notin lost => Clean(c))' BY <3>1 DEF Idle
    <3> QED BY <2>1, <2>2, <2>5, <3>1, <3>2, <3>3, <1>p, Elsewhere DEF NoWrite, Fresh
  <2>6. CASE Settle(q, "error") /\ UNCHANGED <<place, lost, tx, default, saved>>
    <3>1. pc'[q] = "end" /\ \A p \in Calls \ {q} : pc'[p] = pc[p] /\ client'[p] = client[p]
      BY <2>6 DEF Settle, TypeOK
    <3> QED BY <1>p, <2>1, <2>6, <3>1 DEF Sessions, InOrder, Holds, Idle, Clean, Opened, NoWrite
  <2> QED BY <1>7, <2>4, <2>5, <2>6 DEF Take
<1>8. ASSUME NEW c \in Clients, Lose(c) PROVE Sessions' /\ NoWrite'
  <2>1. /\ UNCHANGED <<readOnly, pc, client, place, default, saved, written>>
        /\ lost' = lost \union {c} /\ \A d \in Clients \ {c} : tx'[d] = tx[d]
    BY <1>8 DEF Lose, TypeOK
  <2>2. \A q \in Calls : Holds(q) /\ client[q] \notin lost' => client[q] \in Clients \ {c}
    BY <1>0, <2>1 DEF OwnClient
  <2> QED BY <1>p, <2>1, <2>2 DEF Sessions, InOrder, Holds, Idle, Clean, Opened, NoWrite
<1>9. CASE UNCHANGED vars
  BY <1>p, <1>9 DEF vars, Sessions, InOrder, Holds, Idle, Clean, Opened, NoWrite
<1> QED BY <1>1, <1>3, <1>4, <1>5, <1>6, <1>7, <1>8, <1>9 DEF Next

-----------------------------------------------------------------------------
(* Results.                                                                *)

\* A step of q, which is not idle then, answers for q only.
LEMMA OwnAnswer ==
  ASSUME Honest, NEW q,
         UNCHANGED <<stmt, readOnly>>, written \subseteq written', within \subseteq within',
         pc'[q] # "idle",
         \A p \in Queries \ {q} :
           pc'[p] = pc[p] /\ kept'[p] = kept[p] /\ status'[p] = status[p],
         q \in Queries => (kept'[q] = "ok" \/ status'[q] = "ok" => Ended(q)')
  PROVE  Honest'
<1> SUFFICES ASSUME NEW p \in Queries
             PROVE  /\ kept'[p] = "ok" \/ status'[p] = "ok" => Ended(p)'
                    /\ pc'[p] = "idle" => kept'[p] # "ok" /\ status'[p] # "ok"
  BY DEF Honest
<1>1. CASE p = q
  <2>1. Ended(p)' <=> Ended(q)' BY <1>1 DEF Ended
  <2> QED BY <1>1, <2>1
<1>2. CASE p # q BY <1>2 DEF Honest, Ended
<1> QED BY <1>1, <1>2

\* What was written stays written.
LEMMA Grows ==
  ASSUME NEW q, NEW c, Perform(q, c) \/ UNCHANGED sessionVars
  PROVE  written \subseteq written' /\ within \subseteq within'
BY DEF Perform, Abort, Effect, BeginClient, EndClient, sessionVars

\* Every step keeps what "ok" means.
LEMMA HonestStep ==
  ASSUME TypeOK, PoolInv, Sessions, Honest, [Next]_vars
  PROVE  Honest'
<1> USE DEF modeVars, callVars, sessionVars
<1>1. ASSUME NEW q \in Queries, Query(q) PROVE Honest'
  <2>1. /\ pc[q] = "idle" /\ UNCHANGED <<kept, status, written, within, readOnly>>
        /\ \A p \in Queries \ {q} : pc'[p] = pc[p] /\ stmt'[p] = stmt[p]
    BY <1>1 DEF Query, Connect, TypeOK
  <2> SUFFICES ASSUME NEW p \in Queries
               PROVE  /\ kept'[p] = "ok" \/ status'[p] = "ok" => Ended(p)'
                      /\ pc'[p] = "idle" => kept'[p] # "ok" /\ status'[p] # "ok"
    BY DEF Honest
  <2>2. CASE p = q BY <2>1, <2>2 DEF Honest
  <2>3. CASE p # q BY <2>1, <2>3 DEF Honest, Ended
  <2> QED BY <2>2, <2>3
<1>2. ASSUME NEW q \in Calls, NEW s \in {"error", "lost", "none"},
             UNCHANGED <<stmt, readOnly>>, written \subseteq written', within \subseteq within',
             q \in Queries => kept'[q] = kept[q] \/ kept'[q] # "ok",
             \A p \in Queries \ {q} : kept'[p] = kept[p],
             \/ Settle(q, s)
             \/ status' = status /\ pc'[q] # "idle" /\ \A p \in Calls \ {q} : pc'[p] = pc[p]
      PROVE  Honest'
  <2>1. /\ pc'[q] # "idle"
        /\ \A p \in Queries \ {q} :
             pc'[p] = pc[p] /\ kept'[p] = kept[p] /\ status'[p] = status[p]
        /\ status'[q] # "ok" \/ status' = status
    BY <1>2 DEF Settle, TypeOK
  <2>2. q \in Queries => (kept'[q] = "ok" \/ status'[q] = "ok" => Ended(q)')
    BY <1>2, <2>1 DEF Honest, Ended
  <2> QED BY <1>2, <2>1, <2>2, OwnAnswer
<1>3. ASSUME NEW k \in Catalogs, Catalog(k) PROVE Honest'
  <2>1. pc'[k] = "connect" /\ \A p \in Calls \ {k} : pc'[p] = pc[p]
    BY <1>3 DEF Catalog, Connect, TypeOK
  <2> QED BY <1>2, <1>3, <2>1 DEF Catalog
<1>4. ASSUME NEW q \in Queries, Begin(q) PROVE Honest'
  <2>1. UNCHANGED <<stmt, readOnly, written, within>> BY <1>4 DEF Begin
  <2>2. CASE pc' = [pc EXCEPT ![q] = "run"] /\ UNCHANGED <<kept, status>>
    <3>1. pc'[q] = "run" /\ \A p \in Calls \ {q} : pc'[p] = pc[p] BY <2>2 DEF TypeOK
    <3> QED BY <1>2, <2>1, <2>2, <3>1
  <2>3. CASE /\ kept' = [kept EXCEPT ![q] = "lost"] /\ pc' = [pc EXCEPT ![q] = "rollback"]
             /\ status' = status
    <3>1. /\ pc'[q] = "rollback" /\ kept'[q] = "lost"
          /\ \A p \in Calls \ {q} : pc'[p] = pc[p]
          /\ \A p \in Queries \ {q} : kept'[p] = kept[p]
      BY <2>3 DEF TypeOK
    <3> QED BY <1>2, <2>1, <2>3, <3>1
  <2>4. CASE Settle(q, "lost") /\ kept' = kept BY <1>2, <2>1, <2>4
  <2> QED BY <1>4, <2>2, <2>3, <2>4 DEF Begin
<1>5. ASSUME NEW q \in Queries, Run(q) PROVE Honest'
  <2> DEFINE c == client[q]
             outcome == IF c \in lost THEN "lost" ELSE IF Refused(q, c) THEN "error" ELSE "ok"
  <2>0. Perform(q, c) \/ UNCHANGED sessionVars BY <1>5 DEF Run
  <2>1. UNCHANGED <<stmt, readOnly>> /\ written \subseteq written' /\ within \subseteq within'
    BY <1>5, <2>0, Grows DEF Run
  <2>2. outcome = "ok" => Ended(q)'
    <3>1. CASE c \notin lost /\ ~Refused(q, c)
      <4>0. pc[q] = "run" /\ Perform(q, c) BY <1>5, <3>1 DEF Run
      <4>1. readOnly => tx[c] # "rw" BY <3>1, <4>0 DEF Sessions, InOrder, Holds
      <4>2. stmt[q] = "write" => Effect(q, c) BY <3>1, <4>0 DEF Perform
      <4> QED BY <2>1, <3>1, <4>1, <4>2 DEF Ended, Refused, Effect
    <3> QED BY <3>1
  <2>3. pc[q] = "run" BY <1>5 DEF Run
  <2>4. CASE /\ kept' = [kept EXCEPT ![q] = outcome] /\ pc' = [pc EXCEPT ![q] = "rollback"]
             /\ status' = status
    <3>1. /\ pc'[q] = "rollback" /\ kept'[q] = outcome
          /\ \A p \in Calls \ {q} : pc'[p] = pc[p]
          /\ \A p \in Queries \ {q} : kept'[p] = kept[p]
      BY <2>4 DEF TypeOK
    <3>2. status[q] = "ok" => Ended(q)' BY <2>1 DEF Honest, Ended
    <3> QED BY <2>1, <2>2, <2>4, <3>1, <3>2, OwnAnswer
  <2>5. CASE Settle(q, outcome) /\ kept' = kept
    <3>1. /\ pc'[q] = "end" /\ status'[q] = outcome
          /\ \A p \in Calls \ {q} : pc'[p] = pc[p] /\ status'[p] = status[p]
      BY <2>5 DEF Settle, TypeOK
    <3>2. kept[q] = "ok" => Ended(q)' BY <2>1 DEF Honest, Ended
    <3> QED BY <2>1, <2>2, <2>5, <3>1, <3>2, OwnAnswer
  <2> QED BY <1>5, <2>4, <2>5 DEF Run
<1>6. ASSUME NEW q \in Queries, Rollback(q) PROVE Honest'
  <2>1. /\ UNCHANGED <<stmt, readOnly, written, within, kept>>
        /\ Settle(q, Result(q, client[q]))
    BY <1>6 DEF Rollback
  <2>2. /\ pc'[q] = "end" /\ status'[q] = Result(q, client[q])
        /\ \A p \in Calls \ {q} : pc'[p] = pc[p] /\ status'[p] = status[p]
    BY <2>1 DEF Settle, TypeOK
  <2>3. kept[q] = "ok" \/ status'[q] = "ok" => Ended(q)'
    BY <2>1, <2>2 DEF Honest, Ended, Result
  <2> QED BY <2>1, <2>2, <2>3, OwnAnswer
<1>7. ASSUME NEW k \in Catalogs, CatalogRead(k) PROVE Honest'
  <2>1. UNCHANGED <<stmt, readOnly, written, within, kept>> /\ k \notin Queries
    <3>1. UNCHANGED <<stmt, readOnly, kept>> BY <1>7 DEF CatalogRead
    <3>2. UNCHANGED <<written, within>> BY <1>7, ReadEnds DEF Abort
    <3> QED BY <3>1, <3>2, CallsAssumption
  <2>2. CASE Connect(k) /\ status' = status
    <3>1. pc'[k] = "connect" /\ \A p \in Calls \ {k} : pc'[p] = pc[p]
      BY <2>2 DEF Connect, TypeOK
    <3> QED BY <2>1, <2>2, <3>1, OwnAnswer
  <2>3. ASSUME NEW s, Settle(k, s) PROVE Honest'
    <3>1. pc'[k] = "end" /\ \A p \in Calls \ {k} : pc'[p] = pc[p] /\ status'[p] = status[p]
      BY <2>3 DEF Settle, TypeOK
    <3> QED BY <2>1, <3>1, OwnAnswer
  <2> QED BY <1>7, <2>2, <2>3, ReadEnds
<1>8. ASSUME NEW q \in Calls, NEW c \in Clients, Take(q, c) PROVE Honest'
  <2>1. UNCHANGED <<stmt, readOnly, written, within, kept>> BY <1>8 DEF Take
  <2>2. CASE pc' = [pc EXCEPT ![q] = FirstRequest(q)] /\ status' = status
    <3>1. pc'[q] # "idle" /\ \A p \in Calls \ {q} : pc'[p] = pc[p]
      BY <2>2 DEF FirstRequest, TypeOK
    <3> QED BY <1>2, <2>1, <2>2, <3>1
  <2>3. CASE Settle(q, "error") BY <1>2, <2>1, <2>3
  <2> QED BY <1>8, <2>2, <2>3 DEF Take
<1>9. CASE (\E c \in Clients : Lose(c)) \/ UNCHANGED vars
  BY <1>9 DEF Lose, vars, Honest, Ended
<1> QED BY <1>1, <1>3, <1>4, <1>5, <1>6, <1>7, <1>8, <1>9 DEF Next

-----------------------------------------------------------------------------
(* Losses.                                                                 *)

\* The sum of two sets' sizes, over a step that moves at most one element
\* from the second to the first, or adds one to the second.
LEMMA Ledger ==
  ASSUME NEW L, NEW B, NEW L2, NEW B2, NEW n \in Nat, NEW m \in Nat,
         IsFiniteSet(L), IsFiniteSet(B), Cardinality(L) + Cardinality(B) <= n,
         \/ L2 \subseteq L /\ B2 \subseteq B /\ m = n
         \/ \E q, c : c \in B /\ L2 \subseteq L \union {q} /\ B2 \subseteq B \ {c} /\ m = n
         \/ \E c : L2 \subseteq L /\ B2 \subseteq B \union {c} /\ m = n + 1
  PROVE  IsFiniteSet(L2) /\ Cardinality(L2) + Cardinality(B2) <= m
<1>0. ASSUME NEW S, NEW T, IsFiniteSet(S), T \subseteq S
      PROVE  IsFiniteSet(T) /\ Cardinality(T) \in Nat /\ Cardinality(T) <= Cardinality(S)
  BY <1>0, FS_Subset, FS_CardinalityType
<1>1. Cardinality(L) \in Nat /\ Cardinality(B) \in Nat BY FS_CardinalityType
<1>2. CASE L2 \subseteq L /\ B2 \subseteq B /\ m = n
  <2>1. IsFiniteSet(L2) /\ Cardinality(L2) \in Nat /\ Cardinality(L2) <= Cardinality(L)
    BY <1>0, <1>2
  <2>2. Cardinality(B2) \in Nat /\ Cardinality(B2) <= Cardinality(B) BY <1>0, <1>2
  <2> QED BY <1>1, <1>2, <2>1, <2>2
<1>3. ASSUME NEW q, NEW c, c \in B, L2 \subseteq L \union {q}, B2 \subseteq B \ {c}, m = n
      PROVE  IsFiniteSet(L2) /\ Cardinality(L2) + Cardinality(B2) <= m
  <2>1. IsFiniteSet(L \union {q}) /\ Cardinality(L \union {q}) <= Cardinality(L) + 1
    BY <1>1, FS_AddElement
  <2>2. IsFiniteSet(B \ {c}) /\ Cardinality(B \ {c}) = Cardinality(B) - 1
    BY <1>3, FS_RemoveElement
  <2>3. Cardinality(L \union {q}) \in Nat BY <2>1, FS_CardinalityType
  <2>4. /\ IsFiniteSet(L2) /\ Cardinality(L2) \in Nat
        /\ Cardinality(L2) <= Cardinality(L \union {q})
    BY <1>0, <1>3, <2>1
  <2>5. Cardinality(B2) \in Nat /\ Cardinality(B2) <= Cardinality(B) - 1
    BY <1>0, <1>3, <2>2
  <2> QED BY <1>1, <1>3, <2>1, <2>3, <2>4, <2>5
<1>4. ASSUME NEW c, L2 \subseteq L, B2 \subseteq B \union {c}, m = n + 1
      PROVE  IsFiniteSet(L2) /\ Cardinality(L2) + Cardinality(B2) <= m
  <2>1. IsFiniteSet(L2) /\ Cardinality(L2) \in Nat /\ Cardinality(L2) <= Cardinality(L)
    BY <1>0, <1>4
  <2>2. IsFiniteSet(B \union {c}) /\ Cardinality(B \union {c}) <= Cardinality(B) + 1
    <3>1. /\ IsFiniteSet(B \union {c})
          /\ Cardinality(B \union {c}) = IF c \in B THEN Cardinality(B) ELSE Cardinality(B) + 1
      BY FS_AddElement
    <3> QED BY <1>1, <3>1
  <2>3. Cardinality(B \union {c}) \in Nat BY <2>2, FS_CardinalityType
  <2>4. Cardinality(B2) \in Nat /\ Cardinality(B2) <= Cardinality(B \union {c})
    BY <1>0, <1>4, <2>2
  <2> QED BY <1>1, <1>4, <2>1, <2>2, <2>3, <2>4
<1> QED BY <1>2, <1>3, <1>4

\* There are finitely many clients, hence broken ones.
LEMMA BrokenFinite ==
  ASSUME TypeOK
  PROVE  IsFiniteSet(Broken) /\ losses \in Nat
<1>1. IsFiniteSet(Clients) BY BoundsAssumption, FS_Interval DEF Clients
<1>2. Broken \in SUBSET Clients BY DEF Broken, TypeOK
<1>3. losses \in Nat BY BoundsAssumption DEF TypeOK
<1> QED BY <1>1, <1>2, <1>3, FS_Subset

\* Every step charges a lost connection at most once.
LEMMA LossStep ==
  ASSUME TypeOK, TypeOK', PoolInv, Losses, [Next]_vars
  PROVE  Losses'
<1> USE DEF modeVars, callVars, sessionVars
<1>a. Queued /\ Requests /\ OwnClient BY DEF PoolInv
<1>b. pooled' = pooled
  BY DEF Next, Query, Begin, Run, Rollback, Catalog, CatalogRead, Take, Lose, vars
<1> SUFFICES ASSUME pooled PROVE Losses'
  BY <1>b DEF Losses
<1> DEFINE Certain == \A q \in Queries : pc[q] = "rollback" /\ kept[q] = "lost" => client[q] \in lost
<1>c. /\ IsFiniteSet(Charged) /\ Certain
      /\ Cardinality(Charged) + Cardinality(Broken) <= losses
  BY DEF Losses
<1>d. ASSUME Certain',
             \/ Charged' \subseteq Charged /\ Broken' \subseteq Broken /\ losses' = losses
             \/ \E q, c : /\ c \in Broken /\ Charged' \subseteq Charged \union {q}
                          /\ Broken' \subseteq Broken \ {c} /\ losses' = losses
             \/ \E c : /\ Charged' \subseteq Charged /\ Broken' \subseteq Broken \union {c}
                       /\ losses' = losses + 1
      PROVE  Losses'
  <2>1. IsFiniteSet(Broken) /\ losses \in Nat BY BrokenFinite
  <2>2. losses' \in Nat BY BoundsAssumption DEF TypeOK
  <2>3. IsFiniteSet(Charged)' /\ (Cardinality(Charged) + Cardinality(Broken) <= losses)'
    BY <1>c, <1>d, <2>1, <2>2, Ledger
  <2> QED BY <1>d, <2>3 DEF Losses
<1> HIDE DEF Certain
<1>1. ASSUME NEW q \in Calls, Holds(q), NEW s, NEW b, Settle(q, s), Release(client[q], b),
             s = "lost" => client[q] \in lost /\ b,
             UNCHANGED <<kept, lost, losses>>
      PROVE  Losses'
  <2>0. PICK c : c = client[q] OBVIOUS
  <2>1. /\ pc'[q] = "end" /\ status'[q] = s
        /\ \A p \in Calls \ {q} :
             pc'[p] = pc[p] /\ client'[p] = client[p] /\ status'[p] = status[p]
    BY <1>1 DEF Settle, TypeOK
  <2>2. c \in Clients /\ place[c] = "busy" BY <1>a, <1>1, <2>0 DEF OwnClient
  <2>3. /\ \A d \in Clients \ {c} : place'[d] = place[d]
        /\ b => place'[c] = "absent"
    BY <1>1, <2>0, <2>2 DEF Release, TypeOK
  <2>4. Certain' BY <1>c, <1>1, <2>1 DEF Certain
  <2>5. lost \subseteq Clients BY DEF TypeOK
  <2>6. CASE s = "lost"
    <3>1. c \in Broken BY <1>1, <2>0, <2>2, <2>6 DEF Broken
    <3>2. Charged' \subseteq Charged \union {q} BY <2>1 DEF Charged
    <3>3. Broken' \subseteq Broken \ {c} BY <1>1, <2>3, <2>5, <2>6 DEF Broken
    <3> QED BY <1>d, <1>1, <2>4, <3>1, <3>2, <3>3
  <2>7. CASE s # "lost"
    <3>1. Charged' \subseteq Charged BY <2>1, <2>7 DEF Charged
    <3>2. Broken' \subseteq Broken BY <1>1, <2>2, <2>3, <2>5 DEF Broken
    <3> QED BY <1>d, <1>1, <2>4, <3>1, <3>2
  <2> QED BY <2>6, <2>7
<1>2. ASSUME Certain', status' = status, losses' = losses, Broken' \subseteq Broken
      PROVE  Losses'
  <2>1. Charged' = Charged BY <1>2 DEF Charged
  <2> QED BY <1>d, <1>2, <2>1
<1>3. ASSUME NEW q \in Calls, Query(q) \/ Catalog(q) PROVE Losses'
  <2>1. /\ UNCHANGED <<kept, client, status, place, lost, losses>>
        /\ Connect(q)
    BY <1>3 DEF Query, Catalog
  <2>2. \A p \in Calls : pc'[p] = pc[p] \/ pc'[p] = "connect"
    BY <2>1 DEF Connect, TypeOK
  <2>3. Certain' /\ Broken' = Broken BY <1>c, <2>1, <2>2 DEF Certain, Broken
  <2> QED BY <1>2, <2>1, <2>3
<1>4. ASSUME NEW q \in Queries, Begin(q) PROVE Losses'
  <2>1. UNCHANGED <<losses, lost>> BY <1>4 DEF Begin
  <2>2. CASE pc' = [pc EXCEPT ![q] = "run"] /\ UNCHANGED <<kept, status, client, place>>
    <3>1. \A p \in Calls : pc'[p] = pc[p] \/ pc'[p] = "run" BY <2>2 DEF TypeOK
    <3>2. Certain' /\ Broken' = Broken BY <1>c, <2>1, <2>2, <3>1 DEF Certain, Broken
    <3> QED BY <1>2, <2>1, <2>2, <3>2
  <2>3. CASE /\ client[q] \in lost /\ kept' = [kept EXCEPT ![q] = "lost"]
             /\ pc' = [pc EXCEPT ![q] = "rollback"] /\ UNCHANGED <<status, client, place>>
    <3>1. \A p \in Queries \ {q} : pc'[p] = pc[p] /\ kept'[p] = kept[p]
      BY <2>3 DEF TypeOK
    <3>2. Certain' /\ Broken' = Broken BY <1>c, <2>1, <2>3, <3>1 DEF Certain, Broken
    <3> QED BY <1>2, <2>1, <2>3, <3>2
  <2> QED BY <1>4, <2>2, <2>3 DEF Begin
<1>5. ASSUME NEW q \in Queries, Run(q) PROVE Losses'
  <2> DEFINE c == client[q]
             outcome == IF c \in lost THEN "lost" ELSE IF Refused(q, c) THEN "error" ELSE "ok"
  <2>1. UNCHANGED <<losses, lost>> /\ Holds(q) BY <1>5 DEF Run, Holds
  <2>2. CASE /\ kept' = [kept EXCEPT ![q] = outcome] /\ pc' = [pc EXCEPT ![q] = "rollback"]
             /\ UNCHANGED <<status, client, place>>
    <3>1. /\ kept'[q] = outcome
          /\ \A p \in Queries \ {q} : pc'[p] = pc[p] /\ kept'[p] = kept[p]
      BY <2>2 DEF TypeOK
    <3>2. Certain' /\ Broken' = Broken BY <1>c, <2>1, <2>2, <3>1 DEF Certain, Broken
    <3> QED BY <1>2, <2>1, <2>2, <3>2
  <2>3. CASE Settle(q, outcome) /\ Release(c, outcome # "ok") /\ kept' = kept
    BY <1>1, <2>1, <2>3
  <2> QED BY <1>5, <2>2, <2>3 DEF Run
<1>6. ASSUME NEW q \in Queries, Rollback(q) PROVE Losses'
  <2>1. /\ pc[q] = "rollback" /\ UNCHANGED <<losses, lost, kept>>
        /\ Settle(q, kept[q]) /\ Release(client[q], client[q] \in lost)
    BY <1>6 DEF Rollback, Result
  <2>2. kept[q] = "lost" => client[q] \in lost BY <1>c, <2>1 DEF Certain
  <2> QED BY <1>1, <2>1, <2>2 DEF Holds
<1>7. ASSUME NEW k \in Catalogs, CatalogRead(k) PROVE Losses'
  <2> DEFINE c == client[k]
  <2>0. PICK outcome \in Outcomes :
          /\ Release(c, outcome # "ok")
          /\ \/ /\ Connect(k) /\ client' = [client EXCEPT ![k] = NoClient] /\ UNCHANGED status
             \/ Settle(k, "error") \/ Settle(k, outcome)
          /\ outcome = "lost" => c \in lost
    BY <1>7, ReadEnds
  <2>1. /\ Holds(k) /\ k \notin Queries /\ UNCHANGED <<kept, lost, losses>>
        /\ Release(c, outcome # "ok")
    BY <1>7, <2>0, CallsAssumption DEF CatalogRead, Holds
  <2>2. CASE Connect(k) /\ client' = [client EXCEPT ![k] = NoClient] /\ status' = status
    <3>1. \A p \in Calls \ {k} : pc'[p] = pc[p] /\ client'[p] = client[p]
      BY <2>2 DEF Connect, TypeOK
    <3>2. \A d \in Clients : place'[d] # "absent" => place[d] # "absent"
      BY <1>a, <2>1 DEF Release, OwnClient, TypeOK
    <3>3. Certain' BY <1>c, <2>1, <3>1 DEF Certain
    <3>4. Broken' \subseteq Broken BY <2>1, <3>2 DEF Broken, TypeOK
    <3> QED BY <1>2, <2>1, <2>2, <3>3, <3>4
  <2>3. CASE Settle(k, "error") BY <1>1, <2>1, <2>3
  <2>4. CASE Settle(k, outcome) BY <1>1, <2>0, <2>1, <2>4
  <2> QED BY <2>0, <2>2, <2>3, <2>4
<1>8. ASSUME NEW q \in Calls, NEW c \in Clients, Take(q, c) PROVE Losses'
  <2>1. /\ queue # <<>> /\ q = Head(queue) /\ UNCHANGED <<kept, losses>>
    BY <1>8 DEF Take
  <2>2. CASE /\ place[c] # "busy" /\ place' = [place EXCEPT ![c] = "busy"]
             /\ client' = [client EXCEPT ![q] = c] /\ pc' = [pc EXCEPT ![q] = FirstRequest(q)]
             /\ status' = status
             /\ (lost' = lost /\ Idle(c)) \/ lost' = lost \ {c}
    <3>1. /\ pc'[q] # "rollback"
          /\ \A p \in Calls \ {q} : pc'[p] = pc[p] /\ client'[p] = client[p]
          /\ \A d \in Clients \ {c} : place'[d] = place[d]
      BY <2>2 DEF FirstRequest, TypeOK
    <3>2. \A p \in Calls \ {q} : Holds(p) => client[p] # c
      BY <1>a, <2>2 DEF OwnClient
    <3>3. Certain' BY <1>c, <2>1, <2>2, <3>1, <3>2 DEF Certain, Holds
    <3>4. Broken' \subseteq Broken BY <2>2, <3>1 DEF Broken, Idle, TypeOK
    <3> QED BY <1>2, <2>1, <2>2, <3>3, <3>4
  <2>3. CASE Settle(q, "error") /\ UNCHANGED <<place, lost>>
    <3>1. /\ pc'[q] = "end" /\ status'[q] = "error"
          /\ \A p \in Calls \ {q} :
               pc'[p] = pc[p] /\ client'[p] = client[p] /\ status'[p] = status[p]
      BY <2>3 DEF Settle, TypeOK
    <3>2. Certain' BY <1>c, <2>1, <2>3, <3>1 DEF Certain
    <3>3. Charged' \subseteq Charged /\ Broken' = Broken BY <2>3, <3>1 DEF Charged, Broken
    <3> QED BY <1>d, <2>1, <3>2, <3>3
  <2> QED BY <1>8, <2>1, <2>2, <2>3 DEF Take, Idle, Fresh
<1>9. ASSUME NEW c \in Clients, Lose(c) PROVE Losses'
  <2>1. /\ losses' = losses + 1 /\ lost' = lost \union {c}
        /\ UNCHANGED <<pc, kept, client, status, place>>
    BY <1>9 DEF Lose
  <2>2. Certain' BY <1>c, <2>1 DEF Certain
  <2>3. Charged' = Charged /\ Broken' \subseteq Broken \union {c}
    BY <2>1 DEF Charged, Broken
  <2> QED BY <1>d, <2>1, <2>2, <2>3
<1>10. CASE UNCHANGED vars
  <2>1. Certain' /\ Broken' = Broken BY <1>c, <1>10 DEF vars, Certain, Broken
  <2> QED BY <1>2, <1>10, <2>1 DEF vars
<1> QED BY <1>3, <1>4, <1>5, <1>6, <1>7, <1>8, <1>9, <1>10 DEF Next

-----------------------------------------------------------------------------
(* The invariant and what follows from it.                                 *)

LEMMA Invariance == Spec => []IInv
<1>1. Init => IInv
  <2> SUFFICES ASSUME Init PROVE IInv OBVIOUS
  <2>1. TypeOK BY BoundsAssumption DEF Init, TypeOK
  <2>2. PoolInv BY DEF Init, PoolInv, Queued, Requests, OwnClient, Holds
  <2>3. Sessions BY DEF Init, Sessions, InOrder, Holds, Clean, Opened
  <2>4. NoWrite /\ Honest /\ Plain BY DEF Init, NoWrite, Honest, Ended, Plain
  <2>5. Losses
    <3>1. Charged = {} /\ Broken = {} BY DEF Init, Charged, Broken
    <3> QED BY <3>1, FS_EmptySet DEF Init, Losses
  <2> QED BY <2>1, <2>2, <2>3, <2>4, <2>5 DEF IInv
<1>2. IInv /\ [Next]_vars => IInv'
  <2> SUFFICES ASSUME IInv, [Next]_vars PROVE IInv' OBVIOUS
  <2>1. TypeOK' BY TypeStep DEF IInv, PoolInv
  <2> QED BY <2>1, PlainStep, PoolStep, SessionStep, HonestStep, LossStep DEF IInv
<1> QED BY <1>1, <1>2, PTL DEF Spec

\* The clients the calls share keep their types. In read-only mode one that is
\* idle and connected is outside of any transaction and has the session default
\* it was connected with: the ROLLBACK of adapter.ts and adapter.py undoes what
\* a statement did to the session. In write mode, where a client's BEGIN stays
\* open between calls, pg's pool never keeps one that is aborted.
THEOREM ClientsOKHolds == Spec => []ClientsOK
<1>1. IInv => ClientsOK
  BY DEF IInv, ClientsOK, CleanIdle, Sessions, Clean
<1> QED BY <1>1, Invariance, PTL

\* Read-only mode: no write is ever committed, on any client, after any calls
\* and any lost connections.
THEOREM NoWriteHolds == Spec => []NoWrite
<1>1. IInv => NoWrite BY DEF IInv
<1> QED BY <1>1, Invariance, PTL

\* A call that returned a success ran a statement that succeeded, and what it
\* wrote is committed, or was in a transaction a client had begun in write mode.
THEOREM HonestResultHolds == Spec => []HonestResult
<1>1. IInv => HonestResult BY DEF IInv, HonestResult, Honest, Ended
<1> QED BY <1>1, Invariance, PTL

\* However many connections are lost, at most one call of the pooled adapter
\* fails for each: a broken client leaves the pool with the call that found it.
THEOREM LossCostsOneCallHolds == Spec => []LossCostsOneCall
<1>1. IInv => LossCostsOneCall
  <2> SUFFICES ASSUME IInv, pooled PROVE Cardinality(Charged) <= losses
    BY DEF LossCostsOneCall, Charged
  <2>1. IsFiniteSet(Broken) /\ losses \in Nat BY BrokenFinite DEF IInv
  <2>2. IsFiniteSet(Charged) /\ Cardinality(Charged) + Cardinality(Broken) <= losses
    BY DEF IInv, Losses
  <2>3. Cardinality(Broken) \in Nat /\ Cardinality(Charged) \in Nat
    BY <2>1, <2>2, FS_CardinalityType
  <2> QED BY <2>1, <2>2, <2>3
<1> QED BY <1>1, Invariance, PTL
=============================================================================
