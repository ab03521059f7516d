--------------------------- MODULE PgClientProofs ---------------------------
(* What the proof system checks about PgClient: for every set of calls,    *)
(* every kind of statements and any number of cancelled calls.             *)
EXTENDS PgClient, TLAPS

USE DEF Calls, NoCall, Answers, Answer, Control

-----------------------------------------------------------------------------
(* The inductive invariant.                                                *)

Busy(q) == pc[q] \in {"prepare", "begin", "run", "rollback"}
QuietAfter(i) == \A j \in DOMAIN wire : j > i => wire[j].ask = "catalog"
QuietBefore(i) == \A j \in DOMAIN wire : j < i => wire[j].ask = "catalog"

\* Catalog calls send catalog reads, and queries everything else.
Senders ==
  \A i \in DOMAIN wire : wire[i].ask = "catalog" <=> wire[i].from \in Catalogs

\* Only the holder of the lock awaits an answer of a query.
Locked ==
  /\ \A q \in Queries : Busy(q) => lock = q
  /\ \A k \in Catalogs : pc[k] \in {"idle", "catalog", "end"}
  /\ \A q \in Queries : pc[q] # "catalog"

\* A query's request is the last one a query sent, and is not answered yet;
\* or its call was cancelled.
OneRequest ==
  \A i \in DOMAIN wire : wire[i].from \in Queries =>
    LET q == wire[i].from
    IN pc[q] = "end" \/ (pc[q] = wire[i].ask /\ reply[q] = "none" /\ QuietAfter(i))

\* Once the holder has its answer, no query's request is on the wire. So
\* whatever follows a prepare has only catalog reads before it.
Drained ==
  /\ \A q \in Queries : (Busy(q) /\ reply[q] # "none") => QuietAfter(0)
  /\ \A i \in DOMAIN wire : wire[i].ask \in {"begin", "run", "rollback"} => QuietBefore(i)

\* The wire and the lock.
WireInv == Locked /\ OneRequest /\ Drained

\* The session is in the transaction of q, which at most a catalog read spoiled.
Own(q) == owner = q /\ (tx = "ro" \/ (tx = "failed" /\ spoiler \in Catalogs))

\* From its begin's answer to its run, the transaction is the call's own; a
\* transaction saved the setting it was started with.
Owned ==
  readOnly =>
    /\ \A i \in DOMAIN wire : wire[i].ask = "run" => Own(wire[i].from)
    /\ \A q \in Queries : (pc[q] = "begin" /\ reply[q] # "none") => Own(q)
    /\ tx # "none" => saved
    /\ tx # "rw"

\* No client opens or ends a transaction in read-only mode.
Plain == readOnly => \A q \in Queries : stmt[q] \notin Control

SessionInv == Owned /\ SettingsReverted /\ NoWrite

\* What "ok" means, wherever it is kept on its way to the caller.
Ended(q) ==
  /\ stmt[q] \notin {"bad", "fail"}
  /\ stmt[q] = "write" => q \in written \/ (~readOnly /\ q \in within)

HonestInv ==
  \A q \in Queries :
    /\ (pc[q] = "run" /\ reply[q] = "ok") \/ kept[q] = "ok" \/ status[q] = "ok" => Ended(q)
    /\ pc[q] \in {"idle", "lock"} => kept[q] # "ok" /\ status[q] # "ok"

IInv == TypeOK /\ Senders /\ Plain /\ WireInv /\ SessionInv /\ HonestInv

-----------------------------------------------------------------------------
(* The wire.                                                               *)

Asks == {"prepare", "begin", "run", "rollback", "catalog"}
Request == [from : Calls, ask : Asks]
Fits(q, r) == q \in Calls /\ r \in Asks /\ (r = "catalog" <=> q \in Catalogs)

\* A request that is sent goes behind all others.
LEMMA Sent ==
  ASSUME TypeOK, Senders, NEW q, NEW r, Fits(q, r), Ask(q, r)
  PROVE  /\ wire' \in Seq(Request) /\ Senders'
         /\ pc' = [pc EXCEPT ![q] = r] /\ reply' = [reply EXCEPT ![q] = "none"]
         /\ Len(wire) \in Nat
         /\ DOMAIN wire = 1..Len(wire) /\ DOMAIN wire' = 1..(Len(wire) + 1)
         /\ \A i \in DOMAIN wire : wire'[i] = wire[i]
         /\ wire'[Len(wire) + 1] = [from |-> q, ask |-> r]
<1> DEFINE e == [from |-> q, ask |-> r]
<1>1. wire \in Seq(Request) BY DEF TypeOK, Request, Asks
<1>2. e \in Request BY DEF Fits, Request
<1>3. wire' = Append(wire, e) BY DEF Ask
<1>4. /\ wire' \in Seq(Request) /\ Len(wire) \in Nat
      /\ DOMAIN wire = 1..Len(wire) /\ DOMAIN wire' = 1..(Len(wire) + 1)
      /\ \A i \in DOMAIN wire : wire'[i] = wire[i]
      /\ wire'[Len(wire) + 1] = e
  BY <1>1, <1>2, <1>3
<1>5. Senders'
  <2> SUFFICES ASSUME NEW i \in DOMAIN wire'
               PROVE  wire'[i].ask = "catalog" <=> wire'[i].from \in Catalogs
    BY DEF Senders
  <2>1. CASE i \in DOMAIN wire BY <1>4, <2>1 DEF Senders
  <2>2. CASE i = Len(wire) + 1 BY <1>4, <2>2 DEF Fits
  <2> QED BY <1>4, <2>1, <2>2
<1> QED BY <1>4, <1>5 DEF Ask

\* The first request is served, and the others move up.
LEMMA Shifted ==
  ASSUME TypeOK, Senders, wire # <<>>, wire' = Tail(wire)
  PROVE  /\ wire' \in Seq(Request) /\ Senders'
         /\ Head(wire) = wire[1] /\ 1 \in DOMAIN wire
         /\ Fits(wire[1].from, wire[1].ask)
         /\ \A i \in DOMAIN wire' : /\ i \in Nat \ {0} /\ i + 1 \in DOMAIN wire
                                    /\ wire'[i] = wire[i + 1]
<1>0. wire \in Seq(Request) BY DEF TypeOK, Request, Asks
<1>1. /\ Len(wire) \in Nat /\ Len(wire) # 0 /\ DOMAIN wire = 1..Len(wire)
      /\ Head(wire) = wire[1] /\ wire[1] \in Request
  BY <1>0
<1>2. /\ wire' \in Seq(Request)
      /\ Len(wire') = Len(wire) - 1
      /\ \A i \in 1..(Len(wire) - 1) : wire'[i] = wire[i + 1]
  BY <1>0, <1>1
<1>3. DOMAIN wire' = 1..(Len(wire) - 1) BY <1>1, <1>2
<1>4. Fits(wire[1].from, wire[1].ask) BY <1>1 DEF Request, Fits, Senders
<1>5. Senders' BY <1>1, <1>2, <1>3 DEF Senders
<1> QED BY <1>1, <1>2, <1>3, <1>4, <1>5

-----------------------------------------------------------------------------
(* Types.                                                                  *)

SessionTypes ==
  /\ tx \in {"none", "ro", "rw", "failed"} /\ owner \in Queries \union {NoCall}
  /\ spoiler \in Calls \union {NoCall} /\ default \in BOOLEAN /\ saved \in BOOLEAN
  /\ held \subseteq Queries /\ within \subseteq Queries /\ written \subseteq Queries

\* The session serves a request.
Does(q, ask) ==
  \/ ask = "prepare" /\ Prepare(q)
  \/ ask = "begin" /\ BeginReadOnly(q)
  \/ ask = "run" /\ Run(q)
  \/ ask = "rollback" /\ Rollback(q)
  \/ ask = "catalog" /\ ReadCatalog(q)

LEMMA Replies ==
  ASSUME NEW q, NEW ask, Does(q, ask)
  PROVE  \E a \in Answers : reply' = [reply EXCEPT ![q] = a]
BY DEF Does, Prepare, BeginReadOnly, Run, Rollback, ReadCatalog

LEMMA AbortTypes ==
  ASSUME SessionTypes, NEW q \in Calls, Abort(q) \/ UNCHANGED sessionVars
  PROVE  SessionTypes'
BY DEF SessionTypes, Abort, sessionVars

LEMMA ServedTypes ==
  ASSUME TypeOK, NEW q, NEW ask, Fits(q, ask), Does(q, ask)
  PROVE  reply' \in [Calls -> Answers \union {"none"}] /\ SessionTypes'
<1>0. q \in Calls /\ (ask # "catalog" => q \in Queries) /\ SessionTypes
  BY DEF Fits, TypeOK, SessionTypes
<1>1. reply' \in [Calls -> Answers \union {"none"}]
  BY Replies DEF TypeOK
<1> SUFFICES SessionTypes'
  BY <1>1
<1>2. CASE ask = "prepare" /\ Prepare(q)
  BY <1>0, <1>2, AbortTypes DEF Prepare
<1>3. CASE ask = "begin" /\ BeginReadOnly(q)
  BY <1>0, <1>3 DEF BeginReadOnly, Revert, SessionTypes
<1>4. CASE ask = "run" /\ Run(q)
  <2>0. q \in Queries BY <1>0, <1>4
  <2>1. CASE Effect(q) BY <1>0, <2>0, <2>1 DEF Effect, SessionTypes
  <2>2. CASE BeginClient(q) BY <1>0, <2>0, <2>2 DEF BeginClient, SessionTypes
  <2>3. CASE EndClient BY <1>0, <2>3 DEF EndClient, Leave, Revert, SessionTypes
  <2> QED BY <1>0, <1>4, <2>1, <2>2, <2>3, AbortTypes DEF Run
<1>5. CASE ask = "rollback" /\ Rollback(q)
  BY <1>0, <1>5 DEF Rollback, Leave, Revert, SessionTypes
<1>6. CASE ask = "catalog" /\ ReadCatalog(q)
  BY <1>0, <1>6, AbortTypes DEF ReadCatalog
<1> QED BY <1>2, <1>3, <1>4, <1>5, <1>6 DEF Does

\* The variables keep their types, for all constants.
LEMMA Typing == Spec => [](TypeOK /\ Senders)
<1>1. Init => TypeOK /\ Senders
  BY BoundsAssumption, StatementsAssumption DEF Init, TypeOK, Senders
<1>2. TypeOK /\ Senders /\ [Next]_vars => TypeOK' /\ Senders'
  <2> SUFFICES ASSUME TypeOK, Senders, [Next]_vars PROVE TypeOK' /\ Senders'
    OBVIOUS
  <2> USE DEF sessionVars
  <2>1. ASSUME NEW q \in Queries, Step(q) PROVE TypeOK' /\ Senders'
    <3>1. CASE Query(q) BY <3>1 DEF Query, TypeOK, Senders
    <3>2. ASSUME NEW r \in Asks \ {"catalog"}, Ask(q, r)
          PROVE  /\ wire' \in Seq(Request) /\ Senders'
                 /\ pc' = [pc EXCEPT ![q] = r] /\ reply' = [reply EXCEPT ![q] = "none"]
      <4>1. Fits(q, r) BY CallsAssumption DEF Fits, Asks
      <4> QED BY <3>2, <4>1, Sent
    <3>3. CASE Acquire(q)
      <4>1. Ask(q, "prepare") /\ "prepare" \in Asks \ {"catalog"}
        BY <3>3 DEF Acquire, Asks
      <4>2. /\ wire' \in Seq(Request) /\ Senders'
            /\ pc' = [pc EXCEPT ![q] = "prepare"] /\ reply' = [reply EXCEPT ![q] = "none"]
        BY <3>2, <4>1
      <4> QED BY <3>3, <4>2 DEF Acquire, TypeOK, Request, Asks
    <3>4. CASE Prepared(q)
      <4>1. reply[q] \in Answers BY <3>4 DEF Prepared, Answered, TypeOK
      <4>2. CASE Ask(q, IF readOnly THEN "begin" ELSE "run") /\ UNCHANGED <<lock, status>>
        <5>1. (IF readOnly THEN "begin" ELSE "run") \in Asks \ {"catalog"} BY DEF Asks
        <5> QED BY <3>2, <3>4, <4>2, <5>1 DEF Prepared, TypeOK, Request, Asks
      <4>3. CASE Finish(q, reply[q])
        BY <3>4, <4>1, <4>3 DEF Prepared, Finish, TypeOK, Senders
      <4> QED BY <3>4, <4>2, <4>3 DEF Prepared
    <3>5. CASE Begun(q)
      <4>1. Ask(q, "run") /\ "run" \in Asks \ {"catalog"}
        BY <3>5 DEF Begun, Asks
      <4>2. /\ wire' \in Seq(Request) /\ Senders'
            /\ pc' = [pc EXCEPT ![q] = "run"] /\ reply' = [reply EXCEPT ![q] = "none"]
        BY <3>2, <4>1
      <4> QED BY <3>5, <4>2 DEF Begun, TypeOK, Request, Asks
    <3>6. CASE Ran(q)
      <4>1. reply[q] \in Answers BY <3>6 DEF Ran, Answered, TypeOK
      <4>2. CASE readOnly
        <5>1. Ask(q, "rollback") /\ "rollback" \in Asks \ {"catalog"}
          BY <3>6, <4>2 DEF Ran, Asks
        <5>2. /\ wire' \in Seq(Request) /\ Senders'
              /\ pc' = [pc EXCEPT ![q] = "rollback"] /\ reply' = [reply EXCEPT ![q] = "none"]
          BY <3>2, <5>1
        <5> QED BY <3>6, <4>1, <4>2, <5>2 DEF Ran, TypeOK, Request, Asks
      <4>3. CASE ~readOnly
        BY <3>6, <4>1, <4>3 DEF Ran, Finish, TypeOK, Senders
      <4> QED BY <4>2, <4>3
    <3>7. CASE RolledBack(q)
      BY <3>7 DEF RolledBack, Finish, TypeOK, Senders
    <3> QED BY <2>1, <3>1, <3>3, <3>4, <3>5, <3>6, <3>7 DEF Step
  <2>2. ASSUME NEW k \in Catalogs, Catalog(k) PROVE TypeOK' /\ Senders'
    <3>1. Fits(k, "catalog") BY DEF Fits, Asks
    <3>2. /\ wire' \in Seq(Request) /\ Senders'
          /\ pc' = [pc EXCEPT ![k] = "catalog"] /\ reply' = [reply EXCEPT ![k] = "none"]
      BY <2>2, <3>1, Sent DEF Catalog
    <3> QED BY <2>2, <3>2 DEF Catalog, TypeOK, Request, Asks
  <2>3. ASSUME NEW k \in Catalogs, CatalogRead(k) PROVE TypeOK' /\ Senders'
    <3>1. reply[k] \in Answers BY <2>3 DEF CatalogRead, Answered, TypeOK
    <3>2. CASE More(k) /\ left' = [left EXCEPT ![k] = @ - 1] /\ Ask(k, "catalog")
               /\ UNCHANGED <<lock, status>>
      <4>0. Fits(k, "catalog") BY DEF Fits, Asks
      <4>1. /\ wire' \in Seq(Request) /\ Senders'
            /\ pc' = [pc EXCEPT ![k] = "catalog"] /\ reply' = [reply EXCEPT ![k] = "none"]
        BY <3>2, <4>0, Sent
      <4>2. left[k] - 1 \in 0..3 BY <3>2 DEF More, TypeOK
      <4> QED BY <2>3, <3>2, <4>1, <4>2 DEF CatalogRead, TypeOK, Request, Asks
    <3>3. CASE UNCHANGED left /\ (Finish(k, "error") \/ Finish(k, reply[k]))
      BY <2>3, <3>1, <3>3 DEF CatalogRead, Finish, TypeOK, Senders
    <3> QED BY <2>3, <3>2, <3>3 DEF CatalogRead
  <2>4. ASSUME NEW q \in Calls, Cancel(q) PROVE TypeOK' /\ Senders'
    BY <2>4, BoundsAssumption DEF Cancel, Finish, TypeOK, Senders
  <2>5. CASE Serve
    <3> DEFINE q == wire[1].from
               ask == wire[1].ask
    <3>1. /\ wire' \in Seq(Request) /\ Senders'
          /\ Head(wire) = wire[1] /\ Fits(q, ask)
      BY <2>5, Shifted DEF Serve
    <3>2. reply' \in [Calls -> Answers \union {"none"}] /\ SessionTypes'
      <4>1. Does(q, ask) BY <2>5, <3>1 DEF Serve, Does
      <4> QED BY <3>1, <4>1, ServedTypes
    <3> QED BY <2>5, <3>1, <3>2 DEF Serve, TypeOK, SessionTypes, Request, Asks
  <2>6. CASE UNCHANGED vars
    BY <2>6 DEF vars, TypeOK, Senders
  <2> QED BY <2>1, <2>2, <2>3, <2>4, <2>5, <2>6 DEF Next
<1> QED BY <1>1, <1>2, PTL DEF Spec

-----------------------------------------------------------------------------
(* The lock and the wire.                                                  *)

\* What a query's request on the wire says of its call.
LEMMA Pending ==
  ASSUME TypeOK, Senders, OneRequest, NEW i \in DOMAIN wire, wire[i].from \in Queries
  PROVE  /\ wire[i].ask \in {"prepare", "begin", "run", "rollback"}
         /\ pc[wire[i].from] = "end" \/ Busy(wire[i].from)
<1>1. wire[i].ask \in Asks
  <2>1. wire \in Seq(Request) BY DEF TypeOK, Request, Asks
  <2>2. wire[i] \in Request BY <2>1
  <2> QED BY <2>2 DEF Request
<1>2. wire[i].ask # "catalog" BY CallsAssumption DEF Senders
<1> QED BY <1>1, <1>2 DEF OneRequest, Busy, Asks

\* A query that took the lock, or has its answer, sends its next request.
LEMMA QueryAsks ==
  ASSUME TypeOK, Senders, WireInv,
         NEW q \in Queries, NEW r \in Asks \ {"catalog"}, Ask(q, r), lock' = q,
         \A p \in Queries \ {q} : ~Busy(p),
         pc[q] = "lock" \/ (Busy(q) /\ reply[q] # "none"),
         r # "prepare" => QuietAfter(0)
  PROVE  WireInv'
<1>0. Fits(q, r) BY CallsAssumption DEF Fits
<1>1. /\ pc' = [pc EXCEPT ![q] = r] /\ reply' = [reply EXCEPT ![q] = "none"]
      /\ Len(wire) \in Nat
      /\ DOMAIN wire = 1..Len(wire) /\ DOMAIN wire' = 1..(Len(wire) + 1)
      /\ \A i \in DOMAIN wire : wire'[i] = wire[i]
      /\ wire'[Len(wire) + 1] = [from |-> q, ask |-> r]
  BY <1>0, Sent
<1>2. /\ pc'[q] = r /\ reply'[q] = "none"
      /\ \A p \in Calls \ {q} : pc'[p] = pc[p] /\ reply'[p] = reply[p]
  BY <1>1 DEF TypeOK
<1>3. Locked'
  BY <1>2, CallsAssumption DEF Locked, Busy, WireInv
<1>4. OneRequest'
  <2> SUFFICES ASSUME NEW i \in DOMAIN wire', wire'[i].from \in Queries
               PROVE  \/ pc'[wire'[i].from] = "end"
                      \/ /\ pc'[wire'[i].from] = wire'[i].ask
                         /\ reply'[wire'[i].from] = "none" /\ QuietAfter(i)'
    BY DEF OneRequest
  <2>1. CASE i \in DOMAIN wire
    <3>1. /\ wire'[i] = wire[i]
          /\ pc[wire[i].from] = "end" \/ Busy(wire[i].from)
      BY <1>1, <2>1, Pending DEF WireInv
    <3>2. wire[i].from # q
      BY <2>1, <3>1 DEF WireInv, OneRequest, Busy
    <3> QED BY <1>2, <3>1, <3>2
  <2>2. CASE i = Len(wire) + 1
    BY <1>1, <1>2, <2>2 DEF QuietAfter
  <2> QED BY <1>1, <2>1, <2>2
<1>5. Drained'
  <2>1. \A p \in Queries : ~(Busy(p)' /\ reply'[p] # "none")
    BY <1>2 DEF Busy
  <2>2. ASSUME NEW i \in DOMAIN wire', wire'[i].ask \in {"begin", "run", "rollback"}
        PROVE  QuietBefore(i)'
    <3>1. CASE i \in DOMAIN wire
      <4>1. QuietBefore(i) BY <1>1, <2>2, <3>1 DEF WireInv, Drained
      <4> QED BY <1>1, <3>1, <4>1 DEF QuietBefore
    <3>2. CASE i = Len(wire) + 1
      <4>1. QuietAfter(0) BY <1>1, <2>2, <3>2
      <4> QED BY <1>1, <3>2, <4>1 DEF QuietAfter, QuietBefore
    <3> QED BY <1>1, <3>1, <3>2
  <2> QED BY <2>1, <2>2 DEF Drained
<1> QED BY <1>3, <1>4, <1>5 DEF WireInv

\* A catalog read may come between any two requests.
LEMMA CatalogAsks ==
  ASSUME TypeOK, Senders, WireInv, NEW k \in Catalogs, Ask(k, "catalog"), lock' = lock
  PROVE  WireInv'
<1>0. Fits(k, "catalog") BY DEF Fits, Asks
<1>1. /\ pc' = [pc EXCEPT ![k] = "catalog"] /\ reply' = [reply EXCEPT ![k] = "none"]
      /\ Len(wire) \in Nat
      /\ DOMAIN wire = 1..Len(wire) /\ DOMAIN wire' = 1..(Len(wire) + 1)
      /\ \A i \in DOMAIN wire : wire'[i] = wire[i]
      /\ wire'[Len(wire) + 1] = [from |-> k, ask |-> "catalog"]
  BY <1>0, Sent
<1>2. /\ pc'[k] = "catalog"
      /\ \A p \in Calls \ {k} : pc'[p] = pc[p] /\ reply'[p] = reply[p]
      /\ k \notin Queries
  BY <1>1, CallsAssumption DEF TypeOK
<1>3. Locked'
  BY <1>2, CallsAssumption DEF Locked, Busy, WireInv
<1>4. \A i \in Nat : QuietAfter(i) => QuietAfter(i)'
  BY <1>1 DEF QuietAfter
<1>5. OneRequest'
  BY <1>1, <1>2, <1>4 DEF WireInv, OneRequest
<1>6. Drained'
  <2>1. ASSUME NEW p \in Queries, Busy(p)', reply'[p] # "none" PROVE QuietAfter(0)'
    BY <1>2, <1>4, <2>1 DEF WireInv, Drained, Busy
  <2>2. ASSUME NEW i \in DOMAIN wire', wire'[i].ask \in {"begin", "run", "rollback"}
        PROVE  QuietBefore(i)'
    <3>1. i \in DOMAIN wire /\ QuietBefore(i)
      BY <1>1, <2>2 DEF WireInv, Drained
    <3> QED BY <1>1, <3>1 DEF QuietBefore
  <2> QED BY <2>1, <2>2 DEF Drained
<1> QED BY <1>3, <1>5, <1>6 DEF WireInv

\* A call that ends lets go of the lock, and leaves what it sent.
LEMMA Leaves ==
  ASSUME TypeOK, WireInv, NEW q \in Calls, NEW s, Finish(q, s)
  PROVE  WireInv'
<1>1. /\ pc'[q] = "end" /\ wire' = wire /\ reply' = reply
      /\ \A p \in Calls \ {q} : pc'[p] = pc[p]
      /\ lock # q => lock' = lock
  BY DEF Finish, TypeOK
<1>2. \A p \in Queries : Busy(p)' => Busy(p) /\ p # q
  BY <1>1 DEF Busy
<1>3. \A i : (QuietAfter(i) => QuietAfter(i)') /\ (QuietBefore(i) => QuietBefore(i)')
  BY <1>1 DEF QuietAfter, QuietBefore
<1>4. Locked' BY <1>1, <1>2 DEF WireInv, Locked
<1>5. OneRequest' BY <1>1, <1>3 DEF WireInv, OneRequest
<1>6. Drained' BY <1>1, <1>2, <1>3 DEF WireInv, Drained
<1> QED BY <1>4, <1>5, <1>6 DEF WireInv

\* The session answers the first request.
LEMMA Answers1 ==
  ASSUME TypeOK, Senders, WireInv, wire # <<>>, wire' = Tail(wire),
         UNCHANGED <<pc, lock>>,
         NEW a \in Answers, reply' = [reply EXCEPT ![wire[1].from] = a]
  PROVE  WireInv'
<1> DEFINE h == wire[1].from
<1>1. /\ 1 \in DOMAIN wire /\ h \in Calls
      /\ \A i \in DOMAIN wire' : /\ i \in Nat \ {0} /\ i + 1 \in DOMAIN wire
                                 /\ wire'[i] = wire[i + 1]
  BY Shifted DEF Fits
<1>2. \A p \in Calls \ {h} : reply'[p] = reply[p]
  BY DEF TypeOK
<1>3. /\ \A i \in Nat : QuietAfter(i + 1) => QuietAfter(i)'
      /\ \A i \in Nat : QuietBefore(i + 1) => QuietBefore(i)'
  BY <1>1 DEF QuietAfter, QuietBefore
<1>4. (h \in Queries /\ pc[h] # "end") => QuietAfter(1)
  BY <1>1 DEF WireInv, OneRequest
<1>5. Locked' BY DEF WireInv, Locked, Busy
<1>6. OneRequest'
  <2> SUFFICES ASSUME NEW i \in DOMAIN wire', wire'[i].from \in Queries,
                      pc[wire'[i].from] # "end"
               PROVE  /\ pc[wire'[i].from] = wire'[i].ask
                      /\ reply'[wire'[i].from] = "none" /\ QuietAfter(i)'
    BY DEF OneRequest
  <2>1. /\ i \in Nat \ {0} /\ i + 1 \in DOMAIN wire /\ wire'[i] = wire[i + 1]
        /\ wire[i + 1].from \in Queries /\ wire[i + 1].ask # "catalog"
    BY <1>1, CallsAssumption DEF Senders
  <2>2. /\ pc[wire[i + 1].from] = wire[i + 1].ask
        /\ reply[wire[i + 1].from] = "none" /\ QuietAfter(i + 1)
    BY <2>1 DEF WireInv, OneRequest
  <2>3. wire[i + 1].from # h
    BY <1>4, <2>1 DEF QuietAfter
  <2> QED BY <1>2, <1>3, <2>1, <2>2, <2>3
<1>7. Drained'
  <2>1. ASSUME NEW p \in Queries, Busy(p)', reply'[p] # "none" PROVE QuietAfter(0)'
    <3>1. Busy(p) BY <2>1 DEF Busy
    <3>2. CASE p = h
      <4>1. QuietAfter(0 + 1) BY <1>4, <3>1, <3>2 DEF Busy
      <4> QED BY <1>3, <4>1
    <3>3. CASE p # h
      <4>1. QuietAfter(0) BY <1>2, <2>1, <3>1, <3>3 DEF WireInv, Drained
      <4>2. QuietAfter(0 + 1) BY <4>1 DEF QuietAfter
      <4> QED BY <1>3, <4>2
    <3> QED BY <3>2, <3>3
  <2>2. ASSUME NEW i \in DOMAIN wire', wire'[i].ask \in {"begin", "run", "rollback"}
        PROVE  QuietBefore(i)'
    BY <1>1, <1>3, <2>2 DEF WireInv, Drained
  <2> QED BY <2>1, <2>2 DEF Drained
<1> QED BY <1>5, <1>6, <1>7 DEF WireInv

\* Every step keeps the wire and the lock in order.
LEMMA WireStep ==
  ASSUME TypeOK, Senders, WireInv, [Next]_vars
  PROVE  WireInv'
<1> USE DEF sessionVars
<1>1. ASSUME NEW q \in Queries, Step(q) PROVE WireInv'
  <2>0. ASSUME Busy(q)
        PROVE  \A p \in Queries \ {q} : ~Busy(p)
    BY <2>0 DEF WireInv, Locked
  <2>1. CASE Query(q)
    <3>1. /\ pc[q] = "idle" /\ pc'[q] = "lock"
          /\ \A p \in Calls \ {q} : pc'[p] = pc[p]
          /\ UNCHANGED <<wire, reply, lock>>
      BY <2>1 DEF Query, TypeOK
    <3>2. \A p \in Queries : Busy(p)' => Busy(p)
      BY <3>1 DEF Busy
    <3>3. \A i : (QuietAfter(i) => QuietAfter(i)') /\ (QuietBefore(i) => QuietBefore(i)')
      BY <3>1 DEF QuietAfter, QuietBefore
    <3>4. \A i \in DOMAIN wire : wire[i].from # q
      BY <3>1, Pending DEF WireInv, Busy
    <3>5. Locked' BY <3>1, <3>2, CallsAssumption DEF WireInv, Locked
    <3>6. OneRequest' BY <3>1, <3>3, <3>4 DEF WireInv, OneRequest
    <3>7. Drained' BY <3>1, <3>2, <3>3 DEF WireInv, Drained
    <3> QED BY <3>5, <3>6, <3>7 DEF WireInv
  <2>2. CASE Acquire(q)
    <3>1. \A p \in Queries : ~Busy(p)
      BY <2>2, CallsAssumption DEF Acquire, LockFree, WireInv, Locked
    <3>2. /\ Ask(q, "prepare") /\ "prepare" \in Asks \ {"catalog"}
          /\ lock' = q /\ pc[q] = "lock"
      BY <2>2 DEF Acquire, Asks
    <3> QED BY <3>1, <3>2, QueryAsks
  <2>3. ASSUME NEW r \in Asks \ {"catalog"}, Ask(q, r), lock' = lock,
               Busy(q), reply[q] # "none"
        PROVE  WireInv'
    <3>1. QuietAfter(0) /\ lock' = q
      BY <2>3 DEF WireInv, Drained, Locked
    <3> QED BY <2>0, <2>3, <3>1, QueryAsks
  <2>4. CASE Prepared(q)
    <3>1. Busy(q) /\ reply[q] # "none" BY <2>4 DEF Prepared, Answered, Busy
    <3>2. CASE Ask(q, IF readOnly THEN "begin" ELSE "run") /\ lock' = lock
      <4>1. (IF readOnly THEN "begin" ELSE "run") \in Asks \ {"catalog"} BY DEF Asks
      <4> QED BY <2>3, <3>1, <3>2, <4>1
    <3>3. CASE Finish(q, reply[q]) BY <3>3, Leaves
    <3> QED BY <2>4, <3>2, <3>3 DEF Prepared
  <2>5. CASE Begun(q)
    <3>1. /\ Busy(q) /\ reply[q] # "none" /\ Ask(q, "run") /\ lock' = lock
          /\ "run" \in Asks \ {"catalog"}
      BY <2>5 DEF Begun, Answered, Busy, Asks
    <3> QED BY <2>3, <3>1
  <2>6. CASE Ran(q)
    <3>1. Busy(q) /\ reply[q] # "none" /\ "rollback" \in Asks \ {"catalog"}
      BY <2>6 DEF Ran, Answered, Busy, Asks
    <3>2. CASE Ask(q, "rollback") /\ lock' = lock BY <2>3, <3>1, <3>2
    <3>3. CASE Finish(q, reply[q]) BY <3>3, Leaves
    <3> QED BY <2>6, <3>2, <3>3 DEF Ran
  <2>7. CASE RolledBack(q) BY <2>7, Leaves DEF RolledBack
  <2> QED BY <1>1, <2>1, <2>2, <2>4, <2>5, <2>6, <2>7 DEF Step
<1>2. ASSUME NEW k \in Catalogs, Catalog(k) PROVE WireInv'
  BY <1>2, CatalogAsks DEF Catalog
<1>3. ASSUME NEW k \in Catalogs, CatalogRead(k) PROVE WireInv'
  <2>1. CASE Ask(k, "catalog") /\ lock' = lock BY <2>1, CatalogAsks
  <2>2. CASE Finish(k, "error") \/ Finish(k, reply[k]) BY <2>2, Leaves
  <2> QED BY <1>3, <2>1, <2>2 DEF CatalogRead
<1>4. ASSUME NEW q \in Calls, Cancel(q) PROVE WireInv'
  BY <1>4, Leaves DEF Cancel
<1>5. CASE Serve
  <2>1. /\ wire # <<>> /\ wire' = Tail(wire) /\ UNCHANGED <<pc, lock>>
        /\ Head(wire) = wire[1]
    BY <1>5, Shifted DEF Serve
  <2>2. \E a \in Answers : reply' = [reply EXCEPT ![wire[1].from] = a]
    <3>1. Does(wire[1].from, wire[1].ask) BY <1>5, <2>1 DEF Serve, Does
    <3> QED BY <3>1, Replies
  <2> QED BY <2>1, <2>2, Answers1
<1>6. CASE UNCHANGED vars
  BY <1>6 DEF vars, WireInv, Locked, OneRequest, Drained, Busy, QuietAfter, QuietBefore
<1> QED BY <1>1, <1>2, <1>3, <1>4, <1>5, <1>6 DEF Next

-----------------------------------------------------------------------------
(* The session.                                                            *)

\* A query's request that is served leaves no run behind it, and no begin
\* answered but its own.
LEMMA ServedAlone ==
  ASSUME TypeOK, Senders, WireInv, wire # <<>>, wire' = Tail(wire), pc' = pc,
         NEW a \in Answers, reply' = [reply EXCEPT ![wire[1].from] = a],
         wire[1].ask # "catalog"
  PROVE  /\ \A i \in DOMAIN wire' : wire'[i].ask # "run"
         /\ \A q \in Queries : (pc'[q] = "begin" /\ reply'[q] # "none")
              => q = wire[1].from /\ wire[1].ask = "begin"
<1> DEFINE h == wire[1].from
<1>1. /\ 1 \in DOMAIN wire /\ h \in Calls
      /\ \A i \in DOMAIN wire' : /\ i \in Nat \ {0} /\ i + 1 \in DOMAIN wire
                                 /\ wire'[i] = wire[i + 1]
  BY Shifted DEF Fits
<1>2. h \in Queries BY <1>1 DEF Senders
<1>3. \A i \in DOMAIN wire' : wire'[i].ask # "run"
  BY <1>1 DEF WireInv, Drained, QuietBefore
<1>4. ASSUME NEW q \in Queries, pc'[q] = "begin", reply'[q] # "none"
      PROVE  q = h /\ wire[1].ask = "begin"
  <2>1. q = h
    <3> SUFFICES ASSUME q # h PROVE FALSE OBVIOUS
    <3>1. Busy(q) /\ reply[q] # "none" BY <1>4 DEF Busy, TypeOK
    <3>2. QuietAfter(0) BY <3>1 DEF WireInv, Drained
    <3> QED BY <1>1, <3>2 DEF QuietAfter
  <2> QED BY <1>1, <1>2, <1>4, <2>1 DEF WireInv, OneRequest
<1> QED BY <1>3, <1>4

\* Only Query sets a statement, and the guard passes no transaction's.
LEMMA PlainStep ==
  ASSUME TypeOK, Plain, [Next]_vars
  PROVE  Plain'
<1>1. ASSUME NEW q \in Queries, Query(q) PROVE Plain'
  <2>1. PICK t \in Statements : (readOnly => t \notin Control) /\ stmt' = [stmt EXCEPT ![q] = t]
    BY <1>1 DEF Query
  <2>2. readOnly' = readOnly BY <1>1 DEF Query
  <2>3. \A p \in Queries : stmt'[p] = t \/ stmt'[p] = stmt[p]
    BY <2>1 DEF TypeOK
  <2> QED BY <2>1, <2>2, <2>3 DEF Plain
<1>2. CASE UNCHANGED <<readOnly, stmt>>
  BY <1>2 DEF Plain
<1> QED BY <1>1, <1>2 DEF Next, Step, Acquire, Prepared, Begun, Ran, RolledBack, Catalog,
                          CatalogRead, Cancel, Serve, vars

\* What serving a request does to a session of read-only mode.
LEMMA ServedSession ==
  ASSUME TypeOK, Plain, readOnly, SessionInv, NEW q, NEW ask, Fits(q, ask), Does(q, ask),
         ask = "run" => Own(q), readOnly' = readOnly
  PROVE  /\ SettingsReverted'
         /\ written' = written /\ tx' # "rw" /\ (tx' # "none" => saved')
         /\ ask = "begin" => Own(q)'
         /\ ask = "catalog" => \A p \in Queries : Own(p) => Own(p)'
<1>0. /\ tx # "rw" /\ (tx # "none" => saved) /\ (tx = "none" => default)
      /\ default \in BOOLEAN /\ saved \in BOOLEAN
  BY DEF SessionInv, Owned, SettingsReverted, TypeOK
<1>1. ASSUME NEW p, Abort(p) \/ UNCHANGED sessionVars
      PROVE  /\ UNCHANGED <<owner, default, saved, written>>
             /\ tx' # "rw" /\ (tx' = "none" <=> tx = "none")
             /\ (tx' = tx /\ spoiler' = spoiler) \/ (tx' = "failed" /\ spoiler' = p)
  BY <1>0, <1>1 DEF Abort, sessionVars
<1>2. CASE ask = "prepare" /\ Prepare(q)
  <2>1. Abort(q) \/ UNCHANGED sessionVars BY <1>2 DEF Prepare
  <2> QED BY <1>0, <1>1, <1>2, <2>1 DEF SettingsReverted
<1>3. CASE ask = "begin" /\ BeginReadOnly(q)
  BY <1>0, <1>3 DEF BeginReadOnly, Revert, SettingsReverted, Own
<1>4. CASE ask = "run" /\ Run(q)
  <2>0. q \in Queries /\ stmt[q] \notin Control /\ tx \in {"ro", "failed"}
    BY <1>4 DEF Fits, Plain, Own
  <2>1. CASE Abort(q) \/ UNCHANGED sessionVars
    BY <1>0, <1>1, <1>4, <2>0, <2>1 DEF SettingsReverted
  <2>2. CASE ~Aborted(q) /\ ~Refused(q) /\ Effect(q)
    BY <1>0, <1>4, <2>0, <2>2 DEF Aborted, Refused, Effect, SettingsReverted
  <2> QED BY <1>4, <2>0, <2>1, <2>2 DEF Run
<1>5. CASE ask = "rollback" /\ Rollback(q)
  BY <1>0, <1>5 DEF Rollback, Leave, Revert, SettingsReverted
<1>6. CASE ask = "catalog" /\ ReadCatalog(q)
  <2>1. q \in Catalogs BY <1>6 DEF Fits
  <2>2. Abort(q) \/ UNCHANGED sessionVars BY <1>6 DEF ReadCatalog
  <2> QED BY <1>0, <1>1, <1>6, <2>1, <2>2 DEF SettingsReverted, Own
<1> QED BY <1>2, <1>3, <1>4, <1>5, <1>6 DEF Does

\* Every step keeps the session to what read-only mode promises.
LEMMA SessionStep ==
  ASSUME TypeOK, Senders, Plain, WireInv, SessionInv, [Next]_vars
  PROVE  SessionInv'
<1> SUFFICES ASSUME readOnly PROVE SessionInv'
  <2>1. readOnly' = readOnly
    BY DEF Next, Step, Query, Acquire, Prepared, Begun, Ran, RolledBack, Catalog,
           CatalogRead, Cancel, Serve, vars
  <2> QED BY <2>1 DEF SessionInv, Owned, SettingsReverted, NoWrite
<1>1. ASSUME NEW q \in Calls, NEW r \in Asks, Fits(q, r), Ask(q, r), UNCHANGED sessionVars,
             r = "run" => Own(q)
      PROVE  SessionInv'
  <2>1. /\ pc' = [pc EXCEPT ![q] = r] /\ reply' = [reply EXCEPT ![q] = "none"]
        /\ Len(wire) \in Nat
        /\ DOMAIN wire = 1..Len(wire) /\ DOMAIN wire' = 1..(Len(wire) + 1)
        /\ \A i \in DOMAIN wire : wire'[i] = wire[i]
        /\ wire'[Len(wire) + 1] = [from |-> q, ask |-> r]
    BY <1>1, Sent
  <2>2. \A i \in DOMAIN wire' : wire'[i].ask = "run" => Own(wire'[i].from)
    BY <1>1, <2>1 DEF SessionInv, Owned
  <2>3. \A p \in Queries : (pc'[p] = "begin" /\ reply'[p] # "none") => Own(p)
    BY <1>1, <2>1 DEF SessionInv, Owned, TypeOK
  <2> QED BY <1>1, <2>2, <2>3 DEF SessionInv, Owned, Own, SettingsReverted, NoWrite, sessionVars
<1>2. ASSUME UNCHANGED <<wire, reply, sessionVars>>,
             \A p \in Queries : pc'[p] = "begin" => pc[p] = "begin"
      PROVE  SessionInv'
  BY <1>2 DEF SessionInv, Owned, Own, SettingsReverted, NoWrite, sessionVars
<1>3. ASSUME NEW q \in Calls, NEW t, Finish(q, t), UNCHANGED sessionVars PROVE SessionInv'
  <2>1. \A p \in Queries : pc'[p] = "begin" => pc[p] = "begin"
    BY <1>3 DEF Finish, TypeOK
  <2> QED BY <1>2, <1>3, <2>1 DEF Finish
<1>4. ASSUME NEW q \in Queries, Step(q) PROVE SessionInv'
  <2>0. \A r \in Asks \ {"catalog"} : Fits(q, r)
    BY CallsAssumption DEF Fits
  <2>1. CASE Query(q)
    <3>1. \A p \in Queries : pc'[p] = "begin" => pc[p] = "begin"
      BY <2>1 DEF Query, TypeOK
    <3> QED BY <1>2, <2>1, <3>1 DEF Query
  <2>2. CASE Acquire(q)
    <3>1. Ask(q, "prepare") /\ UNCHANGED sessionVars /\ "prepare" \in Asks \ {"catalog"}
      BY <2>2 DEF Acquire, Asks
    <3> QED BY <1>1, <2>0, <3>1
  <2>3. CASE Prepared(q)
    <3>1. CASE Ask(q, "begin")
      <4>1. "begin" \in Asks \ {"catalog"} BY DEF Asks
      <4> QED BY <1>1, <2>0, <2>3, <3>1, <4>1 DEF Prepared
    <3>2. CASE Finish(q, reply[q]) BY <1>3, <2>3, <3>2 DEF Prepared
    <3> QED BY <2>3, <3>1, <3>2 DEF Prepared
  <2>4. CASE Begun(q)
    <3>1. Own(q) BY <2>4 DEF Begun, Answered, SessionInv, Owned
    <3>2. Ask(q, "run") /\ UNCHANGED sessionVars /\ "run" \in Asks \ {"catalog"}
      BY <2>4 DEF Begun, Asks
    <3> QED BY <1>1, <2>0, <3>1, <3>2
  <2>5. CASE Ran(q)
    <3>1. Ask(q, "rollback") /\ UNCHANGED sessionVars /\ "rollback" \in Asks \ {"catalog"}
      BY <2>5 DEF Ran, Asks
    <3> QED BY <1>1, <2>0, <3>1
  <2>6. CASE RolledBack(q) BY <1>3, <2>6 DEF RolledBack
  <2> QED BY <1>4, <2>1, <2>2, <2>3, <2>4, <2>5, <2>6 DEF Step
<1>5. ASSUME NEW k \in Catalogs, Catalog(k) \/ CatalogRead(k) PROVE SessionInv'
  <2>1. CASE Ask(k, "catalog") /\ UNCHANGED sessionVars
    <3>1. Fits(k, "catalog") /\ "catalog" \in Asks BY DEF Fits, Asks
    <3> QED BY <1>1, <2>1, <3>1
  <2>2. CASE (Finish(k, "error") \/ Finish(k, reply[k])) /\ UNCHANGED sessionVars
    BY <1>3, <2>2
  <2> QED BY <1>5, <2>1, <2>2 DEF Catalog, CatalogRead
<1>6. ASSUME NEW q \in Calls, Cancel(q) PROVE SessionInv'
  BY <1>3, <1>6 DEF Cancel
<1>7. CASE Serve
  <2>0. PICK h, ask : h = wire[1].from /\ ask = wire[1].ask
    OBVIOUS
  <2>1. /\ wire # <<>> /\ wire' = Tail(wire) /\ pc' = pc /\ readOnly' = readOnly
        /\ Head(wire) = wire[1] /\ Fits(h, ask) /\ 1 \in DOMAIN wire
        /\ \A i \in DOMAIN wire' : i + 1 \in DOMAIN wire /\ wire'[i] = wire[i + 1]
    BY <1>7, <2>0, Shifted DEF Serve
  <2>2. Does(h, ask) BY <1>7, <2>0, <2>1 DEF Serve, Does
  <2>3. \E a \in Answers : reply' = [reply EXCEPT ![h] = a]
    BY <2>2, Replies
  <2>4. ask = "run" => Own(h)
    BY <2>0, <2>1 DEF SessionInv, Owned
  <2>5. /\ SettingsReverted' /\ written' = written /\ tx' # "rw" /\ (tx' # "none" => saved')
        /\ ask = "begin" => Own(h)'
        /\ ask = "catalog" => \A p \in Queries : Own(p) => Own(p)'
    BY <2>1, <2>2, <2>4, ServedSession
  <2>6. CASE ask # "catalog"
    <3>1. /\ \A i \in DOMAIN wire' : wire'[i].ask # "run"
          /\ \A q \in Queries : (pc'[q] = "begin" /\ reply'[q] # "none")
               => q = h /\ ask = "begin"
      BY <2>0, <2>1, <2>3, <2>6, ServedAlone
    <3>2. (\A q \in Queries : (pc[q] = "begin" /\ reply[q] # "none") => Own(q))'
      BY <2>5, <3>1
    <3>3. Owned' BY <2>5, <3>1, <3>2 DEF Owned
    <3> QED BY <2>1, <2>5, <3>3 DEF SessionInv, NoWrite
  <2>7. CASE ask = "catalog"
    <3>1. h \notin Queries BY <2>1, <2>7, CallsAssumption DEF Fits
    <3>2. \A q \in Queries : reply'[q] = reply[q]
      BY <2>3, <3>1 DEF TypeOK
    <3>3. ASSUME NEW i \in DOMAIN wire', wire'[i].ask = "run"
          PROVE  wire'[i].from \in Queries /\ Own(wire'[i].from)
      <4>1. i + 1 \in DOMAIN wire /\ wire'[i] = wire[i + 1]
        BY <2>1, <3>3
      <4>2. wire \in Seq(Request) BY DEF TypeOK, Request, Asks
      <4>3. wire[i + 1] \in Request BY <4>1, <4>2
      <4> QED BY <3>3, <4>1, <4>3 DEF Senders, Request, SessionInv, Owned
    <3>4. (\A i \in DOMAIN wire : wire[i].ask = "run" => Own(wire[i].from))'
      BY <2>5, <2>7, <3>3 DEF Own
    <3>5. \A p \in Queries : Own(p) => Own(p)' BY <2>5, <2>7
    <3>6. (\A q \in Queries : (pc[q] = "begin" /\ reply[q] # "none") => Own(q))'
      BY <2>1, <3>2, <3>5 DEF SessionInv, Owned
    <3>7. Owned' BY <2>5, <3>4, <3>6 DEF Owned
    <3> QED BY <2>1, <2>5, <3>7 DEF SessionInv, NoWrite
  <2> QED BY <2>6, <2>7
<1>8. CASE UNCHANGED vars
  BY <1>2, <1>8 DEF vars, sessionVars
<1> QED BY <1>4, <1>5, <1>6, <1>7, <1>8 DEF Next

-----------------------------------------------------------------------------
(* The answers.                                                            *)

\* What was written stays written.
LEMMA Grows ==
  ASSUME NEW q, NEW ask, Does(q, ask)
  PROVE  written \subseteq written' /\ within \subseteq within'
<1>1. ASSUME Abort(q) \/ UNCHANGED sessionVars PROVE UNCHANGED <<written, within>>
  BY <1>1 DEF Abort, sessionVars
<1>2. CASE Run(q)
  BY <1>1, <1>2 DEF Run, Effect, BeginClient, EndClient
<1> QED BY <1>1, <1>2 DEF Does, Prepare, BeginReadOnly, Rollback, ReadCatalog

\* Every step keeps what an "ok" means.
LEMMA HonestStep ==
  ASSUME TypeOK, Senders, WireInv, SessionInv, HonestInv, [Next]_vars
  PROVE  HonestInv'
<1> DEFINE Honest(q) ==
      /\ (pc[q] = "run" /\ reply[q] = "ok") \/ kept[q] = "ok" \/ status[q] = "ok" => Ended(q)
      /\ pc[q] \in {"idle", "lock"} => kept[q] # "ok" /\ status[q] # "ok"
<1>0. \A p \in Queries : Honest(p) BY DEF HonestInv
<1>1. ASSUME NEW q \in Calls, NEW r \in Asks, Ask(q, r),
             UNCHANGED <<stmt, status, written, within, readOnly>>,
             \A p \in Queries : kept'[p] = kept[p] \/ (p = q /\ (kept'[p] = "ok" => Ended(p)))
      PROVE  HonestInv'
  <2> SUFFICES ASSUME NEW p \in Queries PROVE Honest(p)'
    BY DEF HonestInv
  <2>1. Ended(p)' <=> Ended(p) BY <1>1 DEF Ended
  <2>2. CASE p = q
    <3>1. pc'[p] = r /\ reply'[p] = "none" /\ r \notin {"idle", "lock"}
      BY <1>1, <2>2 DEF TypeOK, Ask, Asks
    <3>2. kept'[p] = "ok" => Ended(p) BY <1>0, <1>1
    <3>3. status'[p] = "ok" => Ended(p) BY <1>0, <1>1
    <3> QED BY <1>1, <2>1, <3>1, <3>2, <3>3
  <2>3. CASE p # q
    <3>1. pc'[p] = pc[p] /\ reply'[p] = reply[p] /\ kept'[p] = kept[p]
      BY <1>1, <2>3 DEF TypeOK, Ask
    <3> QED BY <1>0, <1>1, <2>1, <3>1
  <2> QED BY <2>2, <2>3
<1>2. ASSUME NEW q \in Calls, NEW t, Finish(q, t), UNCHANGED <<stmt, kept, written, within, readOnly>>,
             (q \in Queries /\ t = "ok") => Ended(q)
      PROVE  HonestInv'
  <2> SUFFICES ASSUME NEW p \in Queries PROVE Honest(p)'
    BY DEF HonestInv
  <2>1. Ended(p)' <=> Ended(p) BY <1>2 DEF Ended
  <2>2. CASE p = q
    <3>1. pc'[p] = "end" /\ status'[p] = t BY <1>2, <2>2 DEF Finish, TypeOK
    <3> QED BY <1>0, <1>2, <2>1, <2>2, <3>1
  <2>3. CASE p # q
    <3>1. pc'[p] = pc[p] /\ reply'[p] = reply[p] /\ status'[p] = status[p]
      BY <1>2, <2>3 DEF Finish, TypeOK
    <3> QED BY <1>0, <1>2, <2>1, <3>1
  <2> QED BY <2>2, <2>3
<1>3. ASSUME NEW q \in Queries, Step(q) PROVE HonestInv'
  <2> USE DEF sessionVars
  <2>1. CASE Query(q)
    <3> SUFFICES ASSUME NEW p \in Queries PROVE Honest(p)'
      BY DEF HonestInv
    <3>1. UNCHANGED <<kept, status, reply, written, within, readOnly>> BY <2>1 DEF Query
    <3>2. CASE p = q
      <4>1. pc[p] = "idle" /\ pc'[p] = "lock" BY <2>1, <3>2 DEF Query, TypeOK
      <4> QED BY <1>0, <3>1, <4>1
    <3>3. CASE p # q
      <4>1. pc'[p] = pc[p] /\ stmt'[p] = stmt[p] BY <2>1, <3>3 DEF Query, TypeOK
      <4> QED BY <1>0, <3>1, <4>1 DEF Ended
    <3> QED BY <3>2, <3>3
  <2>0. q \in Calls OBVIOUS
  <2>2. CASE Acquire(q)
    <3>1. "prepare" \in Asks /\ Ask(q, "prepare") /\ UNCHANGED <<stmt, status, written, within, readOnly, kept>>
      BY <2>2 DEF Acquire, Asks
    <3> QED BY <1>1, <2>0, <3>1
  <2>3. CASE Prepared(q)
    <3>1. CASE Ask(q, IF readOnly THEN "begin" ELSE "run") /\ UNCHANGED <<lock, status>>
      <4>1. (IF readOnly THEN "begin" ELSE "run") \in Asks BY DEF Asks
      <4>2. UNCHANGED <<stmt, status, written, within, readOnly, kept>> BY <2>3, <3>1 DEF Prepared
      <4> QED BY <1>1, <2>0, <3>1, <4>1, <4>2
    <3>2. CASE reply[q] # "ok" /\ Finish(q, reply[q])
      BY <1>2, <2>3, <3>2 DEF Prepared
    <3> QED BY <2>3, <3>1, <3>2 DEF Prepared
  <2>4. CASE Begun(q)
    <3>1. "run" \in Asks /\ Ask(q, "run") /\ UNCHANGED <<stmt, status, written, within, readOnly, kept>>
      BY <2>4 DEF Begun, Asks
    <3> QED BY <1>1, <2>0, <3>1
  <2>5. CASE Ran(q)
    <3>1. reply[q] = "ok" => Ended(q) BY <1>0, <2>5 DEF Ran, Answered
    <3>2. CASE readOnly
      <4>1. \A p \in Queries : kept'[p] = kept[p] \/ (p = q /\ (kept'[p] = "ok" => Ended(p)))
        BY <2>5, <3>1, <3>2 DEF Ran, TypeOK
      <4>2. /\ "rollback" \in Asks /\ Ask(q, "rollback")
            /\ UNCHANGED <<stmt, status, written, within, readOnly>>
        BY <2>5, <3>2 DEF Ran, Asks
      <4> QED BY <1>1, <2>0, <4>1, <4>2
    <3>3. CASE ~readOnly BY <1>2, <2>5, <3>1, <3>3 DEF Ran
    <3> QED BY <3>2, <3>3
  <2>6. CASE RolledBack(q) BY <1>0, <1>2, <2>6 DEF RolledBack
  <2> QED BY <1>3, <2>1, <2>2, <2>3, <2>4, <2>5, <2>6 DEF Step
<1>4. ASSUME NEW k \in Catalogs, Catalog(k) \/ CatalogRead(k) PROVE HonestInv'
  <2> USE DEF sessionVars
  <2>1. k \notin Queries BY CallsAssumption
  <2>2. CASE Ask(k, "catalog") /\ UNCHANGED status
    <3>1. k \in Calls /\ "catalog" \in Asks /\ UNCHANGED <<stmt, status, written, within, readOnly, kept>>
      BY <1>4, <2>2 DEF Catalog, CatalogRead, Asks
    <3> QED BY <1>1, <2>2, <3>1
  <2>3. CASE CatalogRead(k) /\ (Finish(k, "error") \/ Finish(k, reply[k]))
    BY <1>2, <2>1, <2>3 DEF CatalogRead
  <2> QED BY <1>4, <2>2, <2>3 DEF Catalog, CatalogRead
<1>5. ASSUME NEW q \in Calls, Cancel(q) PROVE HonestInv'
  BY <1>2, <1>5 DEF Cancel, sessionVars
<1>6. CASE Serve
  <2> DEFINE h == wire[1].from
             ask == wire[1].ask
  <2>1. /\ UNCHANGED <<readOnly, pc, stmt, kept, status>>
        /\ Head(wire) = wire[1] /\ Fits(h, ask) /\ 1 \in DOMAIN wire
    BY <1>6, Shifted DEF Serve
  <2>0. Does(h, ask) BY <1>6, <2>1 DEF Serve, Does
  <2>2. \E a \in Answers : reply' = [reply EXCEPT ![h] = a]
    BY <2>0, Replies
  <2>3. written \subseteq written' /\ within \subseteq within'
    BY <2>0, Grows
  <2>4. \A p \in Queries : Ended(p) => Ended(p)' BY <2>1, <2>3 DEF Ended
  <2> SUFFICES ASSUME NEW p \in Queries PROVE Honest(p)'
    BY DEF HonestInv
  <2>5. CASE p = h /\ pc[p] = "run"
    <3>1. ask = "run" BY <2>1, <2>5 DEF WireInv, OneRequest
    <3>2. Run(h) BY <1>6, <2>1, <3>1 DEF Serve
    <3>3. reply'[p] = "ok" => Ended(p)'
      <4>1. CASE reply'[p] = "ok"
        <5>1. stmt[h] \notin {"bad", "fail"} /\ (stmt[h] = "write" => Effect(h))
          BY <2>1, <2>5, <3>2, <4>1 DEF Run, Refused, TypeOK
        <5>2. readOnly => tx # "rw" BY DEF SessionInv, Owned
        <5> QED BY <2>1, <2>5, <5>1, <5>2 DEF Effect, Ended
      <4> QED BY <4>1
    <3> QED BY <1>0, <2>1, <2>4, <2>5, <3>3
  <2>6. CASE p = h /\ pc[p] # "run"
    BY <1>0, <2>1, <2>4, <2>6
  <2>7. CASE p # h
    <3>1. reply'[p] = reply[p] BY <2>2, <2>7 DEF TypeOK
    <3> QED BY <1>0, <2>1, <2>4, <3>1
  <2> QED BY <2>5, <2>6, <2>7
<1>7. CASE UNCHANGED vars
  BY <1>0, <1>7 DEF vars, HonestInv, Ended
<1> QED BY <1>3, <1>4, <1>5, <1>6, <1>7 DEF Next

-----------------------------------------------------------------------------
(* The theorems.                                                           *)

\* The inductive invariant holds in every state the adapter reaches.
LEMMA Invariance == Spec => []IInv
<1>1. Init => Plain /\ WireInv /\ SessionInv /\ HonestInv
  <2> SUFFICES ASSUME Init PROVE Plain /\ WireInv /\ SessionInv /\ HonestInv OBVIOUS
  <2>1. /\ wire = <<>> /\ DOMAIN wire = {} /\ \A q \in Calls : pc[q] = "idle"
        /\ \A q \in Queries : kept[q] = "none" /\ status[q] = "none"
        /\ default = readOnly /\ written = {} /\ tx = "none"
    BY DEF Init
  <2>2. WireInv
    BY <2>1 DEF WireInv, Locked, OneRequest, Drained, Busy, QuietBefore, QuietAfter
  <2>3. SessionInv BY <2>1 DEF SessionInv, Owned, SettingsReverted, NoWrite
  <2>4. HonestInv BY <2>1 DEF HonestInv
  <2>5. Plain BY DEF Init, Plain
  <2> QED BY <2>2, <2>3, <2>4, <2>5
<1>2. /\ TypeOK /\ Senders /\ Plain
      /\ WireInv /\ SessionInv /\ HonestInv
      /\ [Next]_vars
      => Plain' /\ WireInv' /\ SessionInv' /\ HonestInv'
  BY PlainStep, WireStep, SessionStep, HonestStep
<1> QED BY <1>1, <1>2, Typing, PTL DEF Spec, IInv

\* Outside of a transaction the session of read-only mode has its settings
\* back, whatever the statements changed and whoever was cancelled before
\* the ROLLBACK: query's batch_execute("ROLLBACK") and the leading ROLLBACK
\* of the next query.
THEOREM SessionOKHolds == Spec => []SessionOK
<1>1. IInv => SessionOK BY DEF IInv, SessionInv, SessionOK
<1> QED BY <1>1, Invariance, PTL

\* In read-only mode no write is committed, for any number of calls sharing
\* the client, also one behind a statement that turned the session's default
\* off: query's BEGIN READ ONLY.
THEOREM NoWriteHolds == Spec => []NoWrite
<1>1. IInv => NoWrite BY DEF IInv, SessionInv
<1> QED BY <1>1, Invariance, PTL

\* In read-only mode the session runs a statement in the transaction its own
\* call began, although calls are cancelled with their requests on the wire
\* and the next holder of the lock sends behind them. All that may have
\* happened to it is that a catalog read, sent without the lock, failed.
THEOREM OwnTransactionHolds == Spec => OwnTransaction
<1>1. IInv /\ [Next]_vars =>
        [(readOnly /\ wire # <<>> /\ wire' = Tail(wire) /\ Head(wire).ask = "run")
           => /\ owner = Head(wire).from
              /\ tx = "ro" \/ (tx = "failed" /\ spoiler \in Catalogs)]_vars
  <2> SUFFICES ASSUME IInv, readOnly, wire # <<>>, Head(wire).ask = "run"
               PROVE  Own(Head(wire).from)
    BY DEF Own
  <2>1. wire \in Seq(Request) BY DEF IInv, TypeOK, Request, Asks
  <2>2. 1 \in DOMAIN wire /\ Head(wire) = wire[1] BY <2>1
  <2> QED BY <2>2 DEF IInv, SessionInv, Owned
<1> QED BY <1>1, Invariance, PTL DEF Spec, OwnTransaction

\* A query that returns a success ran its statement without error, and what it
\* wrote is committed, or was in a client's transaction of write mode: query
\* keeps the result over the ROLLBACK.
THEOREM HonestResultHolds == Spec => []HonestResult
<1>1. IInv => HonestResult BY DEF IInv, HonestInv, HonestResult, Ended
<1> QED BY <1>1, Invariance, PTL
=============================================================================
