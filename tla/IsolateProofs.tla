--------------------------- MODULE IsolateProofs ---------------------------
(* What the proof system checks about Isolate, for every set of calls and  *)
(* every bound on forks and crashes.                                       *)
EXTENDS Isolate, TLAPS

USE DEF Children, NoChild, Calls

(* Facts about the helpers.                                                *)

\* The reply channel takes what Send is given.
LEMMA SendType ==
  ASSUME outbox \in [Children -> Seq(Reply)],
         NEW c \in Children, NEW id \in Nat, NEW o \in {"ok", "error", "uninit"},
         Send(c, id, o)
  PROVE  outbox' \in [Children -> Seq(Reply)]
<1> DEFINE r == [id |-> id, outcome |-> o]
<1>1. r \in Reply BY DEF Reply
<1>2. Append(outbox[c], r) \in Seq(Reply) BY <1>1
<1> QED BY <1>2 DEF Send

\* Settling some callers keeps the type of status.
LEMMA SettleType ==
  ASSUME TypeOK, NEW S, NEW s \in Settled
  PROVE  Settle(S, s) \in [Calls -> {"idle", "waiting", "sent"} \union Settled]
BY DEF Settle, TypeOK

\* call() keeps every type, whichever way it ends.
LEMMA CallType ==
  ASSUME TypeOK, NEW q \in Calls, Call(q)
  PROVE  /\ phase' \in {"new", "connecting", "serving", "stopped", "crashed"}
         /\ nextId' \in Nat
         /\ pending' \in [Children -> SUBSET Request]
         /\ armed' \in SUBSET [id : Nat, call : Queries, child : Children]
         /\ status' \in [Calls -> {"idle", "waiting", "sent"} \union Settled]
         /\ inbox' \in [Children -> Seq(Request)]
<1> DEFINE r == [id |-> nextId, call |-> q]
<1>1. r \in Request BY DEF Request, TypeOK
<1>2. CASE child = NoChild
  BY <1>2 DEF Call, TypeOK, Settled
<1>3. CASE child # NoChild /\ proc[child] # "gone"
  <2>1. child \in Children BY <1>3 DEF TypeOK
  <2>2. Append(inbox[child], r) \in Seq(Request) BY <1>1, <2>1 DEF TypeOK
  <2>3. inbox' = [inbox EXCEPT ![child] = Append(inbox[child], r)] BY <1>3 DEF Call
  <2>4. inbox' \in [Children -> Seq(Request)] BY <2>2, <2>3 DEF TypeOK
  <2>5. pending' = [pending EXCEPT ![child] = pending[child] \union {r}] BY <1>3 DEF Call
  <2>6. pending' \in [Children -> SUBSET Request] BY <1>1, <2>1, <2>5 DEF TypeOK
  <2>7. armed' \in SUBSET [id : Nat, call : Queries, child : Children]
    BY <1>3, <2>1 DEF Call, TypeOK
  <2>8. phase' = phase /\ nextId' = nextId + 1
        /\ status' = [status EXCEPT ![q] = "sent"]
    BY <1>3 DEF Call, NextId
  <2> QED BY <2>4, <2>6, <2>7, <2>8 DEF TypeOK
<1>4. CASE child # NoChild /\ proc[child] = "gone"
  BY <1>4 DEF Call, TypeOK
<1> QED BY <1>2, <1>3, <1>4

\* start() keeps every type it touches.
LEMMA StartType ==
  ASSUME TypeOK, Start
  PROVE  /\ forks' \in 0..MaxForks
         /\ proc' \in [Children -> {"none", "running", "killed", "gone", "exited"}]
         /\ child' \in Children
         /\ starting' \in Children
         /\ nextId' \in Nat
         /\ pending' \in [Children -> SUBSET Request]
         /\ inbox' \in [Children -> Seq(Request)]
<1> DEFINE r == [id |-> nextId, call |-> "init"]
           c == forks + 1
<1>1. r \in Request BY DEF Request, TypeOK
<1>2. c \in Children BY BoundsAssumption DEF Start, TypeOK
<1>3. <<r>> \in Seq(Request) BY <1>1
<1>4. inbox' = [inbox EXCEPT ![c] = <<r>>] /\ pending' = [pending EXCEPT ![c] = {r}]
  BY DEF Start
<1>5. inbox' \in [Children -> Seq(Request)] /\ pending' \in [Children -> SUBSET Request]
  BY <1>1, <1>2, <1>3, <1>4 DEF TypeOK
<1>6. forks' = c /\ child' = c /\ starting' = c /\ nextId' = nextId + 1
      /\ proc' = [proc EXCEPT ![c] = "running"]
  BY DEF Start, NextId
<1> QED BY SMTT(30), <1>2, <1>5, <1>6, BoundsAssumption DEF TypeOK

\* A failed start keeps every type it touches.
LEMMA StartFailedType ==
  ASSUME TypeOK, NEW c \in Children,
         NEW settled \in [Calls -> {"idle", "waiting", "sent"} \union Settled],
         StartFailed(settled)
  PROVE  /\ child' \in Children \union {NoChild}
         /\ starting' \in Children \union {NoChild}
         /\ waiters' \in Seq(Calls)
         /\ phase' \in {"new", "connecting", "serving", "stopped", "crashed"}
         /\ status' \in [Calls -> {"idle", "waiting", "sent"} \union Settled]
BY DEF StartFailed, TypeOK, Settled

\* The types of the variables hold in every reachable state.
LEMMA Typing == Spec => []TypeOK
<1>1. Init => TypeOK
  BY BoundsAssumption DEF Init, TypeOK, Request, Reply
<1>2. TypeOK /\ [Next]_vars => TypeOK'
  <2> SUFFICES ASSUME TypeOK, [Next]_vars PROVE TypeOK'
    OBVIOUS
  <2>1. CASE Connect
    BY <2>1, StartType DEF Connect, TypeOK, Start
  <2>2. ASSUME NEW q \in Calls, Begin(q) PROVE TypeOK'
    <3>1. CASE BeginSend(q)
      BY <3>1, CallType DEF BeginSend, TypeOK
    <3>2. CASE BeginWait(q)
      BY <3>2 DEF BeginWait, TypeOK, childVars
    <3>3. CASE BeginStart(q)
      <4>1. <<q>> \in Seq(Calls) BY <2>2
      <4> QED BY <3>3, <4>1, StartType DEF BeginStart, TypeOK, Start
    <3> QED BY <2>2, <3>1, <3>2, <3>3 DEF Begin
  <2>3. CASE Resume
    <3>1. waiters # <<>> BY <2>3 DEF Resume, LoopFree
    <3>2. Head(waiters) \in Calls /\ Tail(waiters) \in Seq(Calls)
      BY <3>1 DEF TypeOK
    <3> QED BY <2>3, <3>2, CallType DEF Resume, TypeOK
  <2>4. ASSUME NEW c \in Children, OnMessage(c) PROVE TypeOK'
    <3> DEFINE r == Head(outbox[c])
               hit == {p \in pending[c] : p.id = r.id}
               init == \E p \in hit : p.call = "init"
    <3>1. r \in Reply /\ Tail(outbox[c]) \in Seq(Reply)
      BY SMTT(30), <2>4 DEF OnMessage, TypeOK
    <3>2. outbox' \in [Children -> Seq(Reply)]
      BY <2>4, <3>1 DEF OnMessage, TypeOK
    <3>3. /\ pending' \in [Children -> SUBSET Request]
          /\ armed' \in SUBSET [id : Nat, call : Queries, child : Children]
      BY <2>4 DEF OnMessage, TypeOK, Forget, Disarmed
    <3>4. CASE ~init
      <4>1. r.outcome \in Settled BY <3>1 DEF Reply, Settled
      <4>2. status' \in [Calls -> {"idle", "waiting", "sent"} \union Settled]
        BY <2>4, <3>4, <4>1, SettleType DEF OnMessage
      <4> QED BY <2>4, <3>2, <3>3, <3>4, <4>2 DEF OnMessage, TypeOK
    <3>5. CASE init /\ r.outcome = "ok"
      BY <2>4, <3>2, <3>3, <3>5 DEF OnMessage, TypeOK
    <3>6. CASE init /\ r.outcome # "ok"
      <4>1. StartFailed(status) /\ proc' = Killed(c)
        BY <2>4, <3>6 DEF OnMessage
      <4>2. proc' \in [Children -> {"none", "running", "killed", "gone", "exited"}]
        BY <4>1 DEF Killed, TypeOK
      <4>3. status \in [Calls -> {"idle", "waiting", "sent"} \union Settled]
        BY DEF TypeOK
      <4> QED BY <2>4, <3>2, <3>3, <4>1, <4>2, <4>3, StartFailedType DEF OnMessage, TypeOK
    <3> QED BY <3>4, <3>5, <3>6
  <2>5. ASSUME NEW c \in Children, OnExit(c) PROVE TypeOK'
    <3>1. /\ pending' \in [Children -> SUBSET Request]
          /\ armed' \in SUBSET [id : Nat, call : Queries, child : Children]
          /\ proc' \in [Children -> {"none", "running", "killed", "gone", "exited"}]
      BY <2>5 DEF OnExit, TypeOK, Forget, Disarmed
    <3>2. Settle(Rejected(c), "exited") \in [Calls -> {"idle", "waiting", "sent"} \union Settled]
      BY SettleType DEF Settled
    <3>3. CASE \A p \in pending[c] : p.call # "init"
      <4>1. /\ status' = Settle(Rejected(c), "exited")
            /\ child' = IF child = c THEN NoChild ELSE child
            /\ UNCHANGED <<phase, starting, waiters>>
        BY <2>5, <3>3 DEF OnExit
      <4> QED BY <2>5, <3>1, <3>2, <4>1 DEF OnExit, TypeOK
    <3>4. CASE \E p \in pending[c] : p.call = "init"
      <4>1. StartFailed(Settle(Rejected(c), "exited"))
        BY <2>5, <3>4 DEF OnExit
      <4> QED BY <2>5, <3>1, <3>2, <4>1, StartFailedType DEF OnExit, TypeOK
    <3> QED BY <3>3, <3>4
  <2>6. ASSUME NEW t \in armed, OnTimer(t) PROVE TypeOK'
    <3>1. t.child \in Children /\ t.call \in Calls BY DEF TypeOK
    <3>2. pending' \in [Children -> SUBSET Request]
          /\ proc' \in [Children -> {"none", "running", "killed", "gone", "exited"}]
      BY <2>6, <3>1 DEF OnTimer, TypeOK, Forget, Killed
    <3> QED BY <2>6, <3>1, <3>2 DEF OnTimer, TypeOK, Settled
  <2>7. CASE Close
    <3>1. proc' \in [Children -> {"none", "running", "killed", "gone", "exited"}]
      BY <2>7 DEF Close, TypeOK, Killed
    <3> QED BY <2>7, <3>1 DEF Close, TypeOK
  <2>8. ASSUME NEW c \in Children, Receive(c) PROVE TypeOK'
    <3> DEFINE r == Head(inbox[c])
    <3>1. r \in Request /\ Tail(inbox[c]) \in Seq(Request)
      <4>1. inbox[c] \in Seq(Request) /\ inbox[c] # <<>>
        BY <2>8 DEF Receive, TypeOK
      <4> QED BY <4>1
    <3>2. inbox' \in [Children -> Seq(Request)]
      BY <2>8, <3>1 DEF Receive, TypeOK
    <3>3. r.id \in Nat BY <3>1 DEF Request
    <3>4. CASE r.call = "init"
      BY <2>8, <3>2, <3>3, <3>4 DEF Receive, TypeOK, parentVars
    <3>5. CASE r.call # "init" /\ adapter[c] = "open"
      <4>1. r \in [id : Nat, call : Calls] BY <3>1, <3>5 DEF Request
      <4>2. job' = [job EXCEPT ![c] = r] /\ UNCHANGED <<adapter, initId, outbox>>
        BY <2>8, <3>5 DEF Receive
      <4> QED BY <2>8, <3>2, <4>1, <4>2 DEF Receive, TypeOK, parentVars
    <3>6. CASE r.call # "init" /\ adapter[c] # "open"
      <4>1. Send(c, r.id, "uninit") BY <2>8, <3>6 DEF Receive
      <4>2. outbox' \in [Children -> Seq(Reply)]
        BY <4>1, <3>3, SendType DEF TypeOK
      <4> QED BY <2>8, <3>2, <3>6, <4>2 DEF Receive, TypeOK, parentVars
    <3> QED BY <3>4, <3>5, <3>6
  <2>9. ASSUME NEW c \in Children, Load(c) PROVE TypeOK'
    <3>1. PICK ok \in BOOLEAN :
            /\ adapter' = [adapter EXCEPT ![c] = IF ok THEN "open" ELSE "failed"]
            /\ Send(c, initId[c], IF ok THEN "ok" ELSE "error")
      BY <2>9 DEF Load
    <3>2. outbox' \in [Children -> Seq(Reply)]
      BY <3>1, SendType DEF TypeOK
    <3> QED BY <2>9, <3>1, <3>2 DEF Load, TypeOK, parentVars
  <2>10. ASSUME NEW c \in Children, Finish(c) PROVE TypeOK'
    <3>1. job[c] \in [id : Nat, call : Calls] BY <2>10 DEF Finish, TypeOK
    <3>2. PICK o \in {"ok", "error"} : Send(c, job[c].id, o)
      BY <2>10 DEF Finish
    <3>3. outbox' \in [Children -> Seq(Reply)]
      BY <3>1, <3>2, SendType DEF TypeOK
    <3>4. done' \subseteq Calls
      BY <2>10, <3>1 DEF Finish, TypeOK
    <3> QED BY <2>10, <3>3, <3>4 DEF Finish, TypeOK, parentVars
  <2>11. ASSUME NEW c \in Children, Die(c) \/ Crash(c) \/ Disconnect(c) PROVE TypeOK'
    <3>1. /\ proc' = [proc EXCEPT ![c] = "gone"]
          /\ crashes' = crashes \/ (crashes < MaxCrashes /\ crashes' = crashes + 1)
          /\ UNCHANGED <<parentVars, forks, inbox, outbox, adapter, initId, job, done>>
      BY <2>11 DEF Die, Crash, Disconnect
    <3>2. crashes \in 0..MaxCrashes /\ MaxCrashes \in Nat
      BY BoundsAssumption DEF TypeOK
    <3>3. crashes' \in 0..MaxCrashes
      BY <3>1, <3>2
    <3> QED BY <3>1, <3>3 DEF TypeOK, parentVars
  <2>12. CASE UNCHANGED vars
    BY <2>12 DEF vars, TypeOK
  <2> QED
    BY <2>1, <2>2, <2>3, <2>4, <2>5, <2>6, <2>7, <2>8, <2>9, <2>10, <2>11, <2>12
    DEF Next, ChildStep
<1> QED BY <1>1, <1>2, PTL DEF Spec
-----------------------------------------------------------------------------
(* A success is the caller's own. OwnReply alone is not inductive: a reply *)
(* in the pipe says "ok" long before its caller is told. What makes it one *)
(* is that ids are never used twice (FreshIds), so within one child what   *)
(* carries an id is about the call that is pending under it (SameCall).    *)

FreshIds ==
  \A c \in Children :
    /\ \A p \in pending[c] : p.id < nextId
    /\ \A i \in DOMAIN inbox[c] : inbox[c][i].id < nextId
    /\ \A i \in DOMAIN outbox[c] : outbox[c][i].id < nextId
    /\ job[c].id < nextId
    /\ adapter[c] = "loading" => initId[c] < nextId

SameCall ==
  \A c \in Children : \A p \in pending[c] :
    /\ \A i \in DOMAIN inbox[c] : inbox[c][i].id = p.id => inbox[c][i].call = p.call
    /\ job[c].id = p.id => job[c].call = p.call
    /\ adapter[c] = "loading" /\ initId[c] = p.id => p.call = "init"
    /\ \A i \in DOMAIN outbox[c] :
         (outbox[c][i].id = p.id /\ outbox[c][i].outcome = "ok")
           => p.call \in done \union {"init"}

OwnReplyInv == TypeOK /\ FreshIds /\ SameCall /\ OwnReply

\* call() sends under an id nothing carries yet.
LEMMA CallOwnReply ==
  ASSUME OwnReplyInv, NEW q \in Calls, Call(q),
         UNCHANGED <<outbox, adapter, initId, job, done>>
  PROVE  FreshIds' /\ SameCall' /\ OwnReply'
<1> USE DEF OwnReplyInv
<1>1. CASE child = NoChild \/ proc[child] = "gone"
  <2>1. UNCHANGED <<nextId, pending, inbox>> BY <1>1 DEF Call, TypeOK
  <2>2. \A x \in Calls : status'[x] = "ok" => status[x] = "ok"
    BY <1>1 DEF Call, TypeOK
  <2> QED BY <2>1, <2>2 DEF FreshIds, SameCall, OwnReply
<1>2. CASE child # NoChild /\ proc[child] # "gone"
  <2> DEFINE r == [id |-> nextId, call |-> q]
  <2>1. child \in Children BY <1>2 DEF TypeOK
  <2>2. /\ nextId' = nextId + 1
        /\ pending' = [pending EXCEPT ![child] = pending[child] \union {r}]
        /\ inbox' = [inbox EXCEPT ![child] = Append(inbox[child], r)]
        /\ status' = [status EXCEPT ![q] = "sent"]
    BY <1>2 DEF Call, NextId
  <2>3. ASSUME NEW c \in Children, NEW i \in DOMAIN inbox'[c]
        PROVE  \/ i \in DOMAIN inbox[c] /\ inbox'[c][i] = inbox[c][i]
               \/ c = child /\ inbox'[c][i] = r
    <3>1. inbox[c] \in Seq(Request) /\ r \in Request BY DEF TypeOK, Request
    <3>2. CASE c = child
      <4>1. inbox'[c] = Append(inbox[c], r) BY <2>1, <2>2, <3>2 DEF TypeOK
      <4> QED BY <3>1, <3>2, <4>1
    <3>3. CASE c # child
      BY <2>1, <2>2, <3>3 DEF TypeOK
    <3> QED BY <3>2, <3>3
  <2>4. ASSUME NEW c \in Children, NEW p \in pending'[c]
        PROVE  p \in pending[c] \/ (c = child /\ p = r)
    <3>1. CASE c = child
      <4>1. pending'[c] = pending[c] \union {r} BY <2>1, <2>2, <3>1 DEF TypeOK
      <4> QED BY <3>1, <4>1
    <3>2. CASE c # child
      <4>1. pending'[c] = pending[c] BY <2>1, <2>2, <3>2 DEF TypeOK
      <4> QED BY <4>1
    <3> QED BY <3>1, <3>2
  <2>5. nextId \in Nat /\ \A c \in Children : pending[c] \subseteq Request
        /\ inbox[c] \in Seq(Request) /\ outbox[c] \in Seq(Reply)
        /\ job[c].id < nextId /\ job[c].id \in Int /\ initId[c] \in Nat
    BY SMTT(30) DEF TypeOK, FreshIds, NoJob
  <2>6. FreshIds'
    <3> SUFFICES ASSUME NEW c \in Children
                 PROVE  /\ \A p \in pending'[c] : p.id < nextId'
                        /\ \A i \in DOMAIN inbox'[c] : inbox'[c][i].id < nextId'
                        /\ \A i \in DOMAIN outbox[c] : outbox[c][i].id < nextId'
                        /\ job[c].id < nextId'
                        /\ adapter[c] = "loading" => initId[c] < nextId'
      BY DEF FreshIds
    <3>1. \A p \in pending'[c] : p.id < nextId'
      BY <2>2, <2>4, <2>5 DEF FreshIds, Request
    <3>2. \A i \in DOMAIN inbox'[c] : inbox'[c][i].id < nextId'
      <4> TAKE i \in DOMAIN inbox'[c]
      <4>1. CASE i \in DOMAIN inbox[c] /\ inbox'[c][i] = inbox[c][i]
        <5>1. inbox[c][i] \in Request BY <2>5, <4>1
        <5> QED BY <4>1, <5>1, <2>2, <2>5 DEF FreshIds, Request
      <4>2. CASE inbox'[c][i] = r
        BY <4>2, <2>2, <2>5
      <4> QED BY <2>3, <4>1, <4>2
    <3>3. \A i \in DOMAIN outbox[c] : outbox[c][i].id < nextId'
      <4> TAKE i \in DOMAIN outbox[c]
      <4>1. outbox[c][i] \in Reply BY <2>5
      <4> QED BY <4>1, <2>2, <2>5 DEF FreshIds, Reply
    <3>4. job[c].id < nextId' /\ (adapter[c] = "loading" => initId[c] < nextId')
      BY <2>2, <2>5 DEF FreshIds
    <3> QED BY <3>1, <3>2, <3>3, <3>4
  <2>7. SameCall'
    <3> SUFFICES ASSUME NEW c \in Children, NEW p \in pending'[c]
                 PROVE  /\ \A i \in DOMAIN inbox'[c] :
                             inbox'[c][i].id = p.id => inbox'[c][i].call = p.call
                        /\ job[c].id = p.id => job[c].call = p.call
                        /\ adapter[c] = "loading" /\ initId[c] = p.id => p.call = "init"
                        /\ \A i \in DOMAIN outbox[c] :
                             (outbox[c][i].id = p.id /\ outbox[c][i].outcome = "ok")
                               => p.call \in done \union {"init"}
      BY DEF SameCall
    <3>1. CASE p = r
      <4>1. /\ \A i \in DOMAIN inbox[c] : inbox[c][i].id < p.id
            /\ \A i \in DOMAIN outbox[c] : outbox[c][i].id < p.id
            /\ job[c].id < p.id
            /\ adapter[c] = "loading" => initId[c] < p.id
        BY <3>1 DEF FreshIds
      <4>2. p.id \in Nat BY <3>1, <2>5
      <4>3. \A i \in DOMAIN outbox[c] : outbox[c][i].id # p.id
        <5> TAKE i \in DOMAIN outbox[c]
        <5>1. outbox[c][i] \in Reply BY <2>5
        <5> QED BY <4>1, <4>2, <5>1 DEF Reply
      <4>4. \A i \in DOMAIN inbox'[c] :
              inbox'[c][i].id = p.id => inbox'[c][i].call = p.call
        <5> TAKE i \in DOMAIN inbox'[c]
        <5>1. CASE i \in DOMAIN inbox[c] /\ inbox'[c][i] = inbox[c][i]
          <6>1. inbox[c][i] \in Request BY <2>5, <5>1
          <6> QED BY <4>1, <4>2, <5>1, <6>1 DEF Request
        <5>2. CASE inbox'[c][i] = r BY <5>2, <3>1
        <5> QED BY <2>3, <5>1, <5>2
      <4> QED BY <4>1, <4>2, <4>3, <4>4, <2>5
    <3>2. CASE p \in pending[c]
      <4>1. p.id < nextId /\ p.id \in Nat BY <2>5, <3>2 DEF FreshIds, Request
      <4>2. \A i \in DOMAIN inbox'[c] :
              inbox'[c][i].id = p.id => inbox'[c][i].call = p.call
        <5> TAKE i \in DOMAIN inbox'[c]
        <5>1. CASE i \in DOMAIN inbox[c] /\ inbox'[c][i] = inbox[c][i]
          BY <3>2, <5>1 DEF SameCall
        <5>2. CASE inbox'[c][i] = r BY <5>2, <4>1, <2>5
        <5> QED BY <2>3, <5>1, <5>2
      <4> QED BY <3>2, <4>2 DEF SameCall
    <3> QED BY <2>4, <3>1, <3>2
  <2>8. OwnReply' BY <2>2 DEF OwnReply, TypeOK
  <2> QED BY <2>6, <2>7, <2>8
<1> QED BY <1>1, <1>2

\* A step that only takes away, from the maps of pending calls and from the
\* front of reply pipes, keeps what ids say.
LEMMA TakeAway ==
  ASSUME OwnReplyInv,
         UNCHANGED <<nextId, inbox, adapter, initId, job, done>>,
         \A c \in Children : pending'[c] \subseteq pending[c],
         \A c \in Children : outbox'[c] = outbox[c]
                             \/ (outbox[c] # <<>> /\ outbox'[c] = Tail(outbox[c]))
  PROVE  FreshIds' /\ SameCall'
<1>1. ASSUME NEW c \in Children, NEW i \in DOMAIN outbox'[c]
      PROVE  \E j \in DOMAIN outbox[c] : outbox'[c][i] = outbox[c][j]
  <2>1. outbox[c] \in Seq(Reply) BY DEF OwnReplyInv, TypeOK
  <2>2. CASE outbox'[c] = outbox[c] BY <2>2
  <2>3. CASE outbox[c] # <<>> /\ outbox'[c] = Tail(outbox[c])
    <3>1. i + 1 \in DOMAIN outbox[c] /\ outbox'[c][i] = outbox[c][i + 1]
      BY <2>1, <2>3
    <3> QED BY <3>1
  <2> QED BY <2>2, <2>3
<1>2. FreshIds' BY <1>1 DEF OwnReplyInv, FreshIds
<1>3. SameCall'
  <2> SUFFICES ASSUME NEW c \in Children, NEW p \in pending'[c]
               PROVE  /\ \A i \in DOMAIN inbox[c] :
                           inbox[c][i].id = p.id => inbox[c][i].call = p.call
                      /\ job[c].id = p.id => job[c].call = p.call
                      /\ adapter[c] = "loading" /\ initId[c] = p.id => p.call = "init"
                      /\ \A i \in DOMAIN outbox'[c] :
                           (outbox'[c][i].id = p.id /\ outbox'[c][i].outcome = "ok")
                             => p.call \in done \union {"init"}
    BY DEF SameCall
  <2>1. p \in pending[c] OBVIOUS
  <2> QED BY <1>1, <2>1 DEF OwnReplyInv, SameCall
<1> QED BY <1>2, <1>3

\* A reply that answers one request of the child, under that request's id,
\* keeps what ids say.
LEMMA SendOwnReply ==
  ASSUME OwnReplyInv, NEW c \in Children, NEW id \in Nat,
         NEW o \in {"ok", "error", "uninit"}, Send(c, id, o),
         id < nextId,
         o = "ok" => \A p \in pending[c] : p.id = id => p.call \in done' \union {"init"},
         UNCHANGED <<nextId, pending>>,
         done \subseteq done'
  PROVE  /\ \A d \in Children : \A i \in DOMAIN outbox'[d] : outbox'[d][i].id < nextId'
         /\ \A d \in Children : \A p \in pending'[d] : \A i \in DOMAIN outbox'[d] :
              (outbox'[d][i].id = p.id /\ outbox'[d][i].outcome = "ok")
                => p.call \in done' \union {"init"}
<1> DEFINE r == [id |-> id, outcome |-> o]
<1>1. r \in Reply BY DEF Reply
<1>2. ASSUME NEW d \in Children, NEW i \in DOMAIN outbox'[d]
      PROVE  \/ i \in DOMAIN outbox[d] /\ outbox'[d][i] = outbox[d][i]
             \/ d = c /\ outbox'[d][i] = r
  <2>1. outbox[d] \in Seq(Reply) BY DEF OwnReplyInv, TypeOK
  <2>2. CASE d = c
    <3>1. outbox'[d] = Append(outbox[d], r) BY <2>2 DEF Send, OwnReplyInv, TypeOK
    <3> QED BY <1>1, <2>1, <2>2, <3>1
  <2>3. CASE d # c
    <3>1. outbox'[d] = outbox[d] BY <2>3 DEF Send, OwnReplyInv, TypeOK
    <3> QED BY <3>1
  <2> QED BY <2>2, <2>3
<1>3. ASSUME NEW d \in Children, NEW i \in DOMAIN outbox'[d] PROVE outbox'[d][i].id < nextId'
  BY <1>2, <1>3 DEF OwnReplyInv, FreshIds
<1>4. ASSUME NEW d \in Children, NEW p \in pending'[d], NEW i \in DOMAIN outbox'[d],
             outbox'[d][i].id = p.id, outbox'[d][i].outcome = "ok"
      PROVE  p.call \in done' \union {"init"}
  <2>1. p \in pending[d] OBVIOUS
  <2>2. CASE i \in DOMAIN outbox[d] /\ outbox'[d][i] = outbox[d][i]
    BY <1>4, <2>1, <2>2 DEF OwnReplyInv, SameCall
  <2>3. CASE d = c /\ outbox'[d][i] = r
    BY <1>4, <2>1, <2>3
  <2> QED BY <1>2, <2>2, <2>3
<1> QED BY <1>3, <1>4

\* start() sends init under a fresh id, alone in its pipe and its map.
LEMMA StartOwnReply ==
  ASSUME OwnReplyInv, Start
  PROVE  FreshIds' /\ SameCall'
<1> USE DEF OwnReplyInv
<1> DEFINE r == [id |-> nextId, call |-> "init"]
           c == forks + 1
<1>1. c \in Children BY BoundsAssumption DEF Start, TypeOK
<1>2. /\ nextId' = nextId + 1
      /\ pending' = [pending EXCEPT ![c] = {r}]
      /\ inbox' = [inbox EXCEPT ![c] = <<r>>]
      /\ UNCHANGED <<outbox, adapter, initId, job, done>>
  BY DEF Start, NextId
<1>3. /\ pending'[c] = {r} /\ inbox'[c] = <<r>>
      /\ \A d \in Children \ {c} : pending'[d] = pending[d] /\ inbox'[d] = inbox[d]
  BY <1>1, <1>2 DEF TypeOK
<1>4. nextId \in Nat /\ \A d \in Children : pending[d] \subseteq Request
      /\ inbox[d] \in Seq(Request) /\ outbox[d] \in Seq(Reply)
      /\ job[d].id < nextId /\ job[d].id \in Int /\ initId[d] \in Nat
  BY DEF TypeOK, FreshIds, NoJob
<1>5. /\ \A d \in Children : \A i \in DOMAIN outbox[d] :
           outbox[d][i].id < nextId /\ outbox[d][i].id \in Nat
      /\ \A d \in Children : \A i \in DOMAIN inbox[d] :
           inbox[d][i].id < nextId /\ inbox[d][i].id \in Nat
      /\ \A d \in Children : \A p \in pending[d] : p.id < nextId /\ p.id \in Nat
  <2>1. \A d \in Children : \A i \in DOMAIN outbox[d] : outbox[d][i] \in Reply BY <1>4
  <2>2. \A d \in Children : \A i \in DOMAIN inbox[d] : inbox[d][i] \in Request BY <1>4
  <2> QED BY <1>4, <2>1, <2>2 DEF FreshIds, Reply, Request
<1>6. FreshIds'
  <2> SUFFICES ASSUME NEW d \in Children
               PROVE  /\ \A p \in pending'[d] : p.id < nextId'
                      /\ \A i \in DOMAIN inbox'[d] : inbox'[d][i].id < nextId'
                      /\ \A i \in DOMAIN outbox[d] : outbox[d][i].id < nextId'
                      /\ job[d].id < nextId'
                      /\ adapter[d] = "loading" => initId[d] < nextId'
    BY <1>2 DEF FreshIds
  <2>1. CASE d = c BY <1>2, <1>3, <1>4, <1>5, <2>1 DEF FreshIds
  <2>2. CASE d # c BY <1>2, <1>3, <1>4, <1>5, <2>2 DEF FreshIds
  <2> QED BY <2>1, <2>2
<1>7. SameCall'
  <2> SUFFICES ASSUME NEW d \in Children, NEW p \in pending'[d]
               PROVE  /\ \A i \in DOMAIN inbox'[d] :
                           inbox'[d][i].id = p.id => inbox'[d][i].call = p.call
                      /\ job[d].id = p.id => job[d].call = p.call
                      /\ adapter[d] = "loading" /\ initId[d] = p.id => p.call = "init"
                      /\ \A i \in DOMAIN outbox[d] :
                           (outbox[d][i].id = p.id /\ outbox[d][i].outcome = "ok")
                             => p.call \in done \union {"init"}
    BY <1>2 DEF SameCall
  <2>1. CASE d = c
    <3>1. p = r BY <1>3, <2>1
    <3>2. \A i \in DOMAIN outbox[d] : outbox[d][i].id # p.id BY <1>4, <1>5, <3>1
    <3>3. \A i \in DOMAIN inbox'[d] : inbox'[d][i] = r BY <1>3, <2>1
    <3> QED BY <1>4, <3>1, <3>2, <3>3
  <2>2. CASE d # c BY <1>3, <2>2 DEF SameCall
  <2> QED BY <2>1, <2>2
<1> QED BY <1>6, <1>7

\* The inductive invariant of OwnReply.
LEMMA OwnReplyInvariance == Spec => []OwnReplyInv
<1>1. Init => OwnReplyInv
  BY Typing, BoundsAssumption
     DEF Init, OwnReplyInv, TypeOK, FreshIds, SameCall, OwnReply, NoJob, Request, Reply
<1>2. OwnReplyInv /\ TypeOK' /\ [Next]_vars => OwnReplyInv'
  <2> SUFFICES ASSUME OwnReplyInv, TypeOK', [Next]_vars
               PROVE  FreshIds' /\ SameCall' /\ OwnReply'
    BY DEF OwnReplyInv
  <2> USE DEF OwnReplyInv
  <2>1. CASE Connect
    BY <2>1, StartOwnReply DEF Connect, OwnReply, Start
  <2>2. ASSUME NEW q \in Calls, Begin(q) PROVE FreshIds' /\ SameCall' /\ OwnReply'
    <3>1. CASE BeginSend(q)
      BY <3>1, CallOwnReply DEF BeginSend
    <3>2. CASE BeginWait(q)
      <4>1. FreshIds' /\ SameCall' BY <3>2, TakeAway DEF BeginWait, childVars
      <4> QED BY <3>2, <4>1 DEF BeginWait, childVars, OwnReply, TypeOK
    <3>3. CASE BeginStart(q)
      BY <3>3, StartOwnReply DEF BeginStart, Start, OwnReply, TypeOK
    <3> QED BY <2>2, <3>1, <3>2, <3>3 DEF Begin
  <2>3. CASE Resume
    <3>1. Head(waiters) \in Calls
      BY <2>3 DEF Resume, LoopFree, TypeOK
    <3> QED BY <2>3, <3>1, CallOwnReply DEF Resume
  <2>4. ASSUME NEW c \in Children, OnMessage(c) PROVE FreshIds' /\ SameCall' /\ OwnReply'
    <3> DEFINE r == Head(outbox[c])
               hit == {p \in pending[c] : p.id = r.id}
               init == \E p \in hit : p.call = "init"
    <3>1. FreshIds' /\ SameCall'
      <4>1. \A d \in Children : pending'[d] \subseteq pending[d]
        BY <2>4 DEF OnMessage, Forget, TypeOK
      <4>2. \A d \in Children : outbox'[d] = outbox[d]
                                \/ (outbox[d] # <<>> /\ outbox'[d] = Tail(outbox[d]))
        BY <2>4 DEF OnMessage, TypeOK
      <4> QED BY <2>4, <4>1, <4>2, TakeAway DEF OnMessage
    <3>2. CASE ~init
      <4>1. 1 \in DOMAIN outbox[c] /\ r = outbox[c][1]
        BY <2>4 DEF OnMessage, TypeOK
      <4>2. r.outcome = "ok" => CallsOf(hit) \subseteq done
        BY <4>1 DEF SameCall, CallsOf
      <4>3. status' = Settle(CallsOf(hit), r.outcome) /\ done' = done
        BY <2>4, <3>2 DEF OnMessage
      <4>4. OwnReply' BY <4>2, <4>3 DEF OwnReply, Settle
      <4> QED BY <3>1, <4>4
    <3>3. CASE init
      <4>1. \A q \in Calls : status'[q] = "ok" => status[q] = "ok"
        BY <2>4, <3>3 DEF OnMessage, StartFailed
      <4> QED BY <2>4, <3>1, <4>1 DEF OnMessage, OwnReply
    <3> QED BY <3>2, <3>3
  <2>5. ASSUME NEW c \in Children, OnExit(c) PROVE FreshIds' /\ SameCall' /\ OwnReply'
    <3>1. \A d \in Children : pending'[d] \subseteq pending[d]
      BY <2>5 DEF OnExit, Forget, TypeOK
    <3>2. \A q \in Calls : status'[q] = "ok" => status[q] = "ok"
      BY <2>5 DEF OnExit, StartFailed, Settle
    <3>3. FreshIds' /\ SameCall' BY <2>5, <3>1, TakeAway DEF OnExit
    <3> QED BY <2>5, <3>2, <3>3 DEF OnExit, OwnReply
  <2>6. ASSUME NEW t \in armed, OnTimer(t) PROVE FreshIds' /\ SameCall' /\ OwnReply'
    <3>1. t.child \in Children /\ t.call \in Calls BY DEF TypeOK
    <3>2. \A d \in Children : pending'[d] \subseteq pending[d]
      BY <2>6, <3>1 DEF OnTimer, Forget, TypeOK
    <3>3. FreshIds' /\ SameCall' BY <2>6, <3>2, TakeAway DEF OnTimer
    <3> QED BY <2>6, <3>1, <3>3 DEF OnTimer, OwnReply, TypeOK
  <2>7. CASE Close
    <3>1. FreshIds' /\ SameCall' BY <2>7, TakeAway DEF Close
    <3> QED BY <2>7, <3>1 DEF Close, OwnReply
  <2>8. ASSUME NEW c \in Children, Receive(c) PROVE FreshIds' /\ SameCall' /\ OwnReply'
    <3> DEFINE r == Head(inbox[c])
    <3>1. /\ inbox[c] \in Seq(Request) /\ inbox[c] # <<>>
          /\ inbox' = [inbox EXCEPT ![c] = Tail(inbox[c])]
          /\ UNCHANGED <<nextId, pending, status, done>>
      BY <2>8 DEF Receive, TypeOK, parentVars
    <3>2. /\ 1 \in DOMAIN inbox[c] /\ r = inbox[c][1] /\ r.id \in Nat /\ r.id < nextId
      <4>1. 1 \in DOMAIN inbox[c] /\ r = inbox[c][1] BY <3>1
      <4>2. r \in Request BY <3>1, <4>1
      <4> QED BY <4>1, <4>2 DEF FreshIds, Request
    <3>3. ASSUME NEW d \in Children, NEW i \in DOMAIN inbox'[d]
          PROVE  \E j \in DOMAIN inbox[d] : inbox'[d][i] = inbox[d][j]
      <4>1. CASE d = c
        <5>1. inbox'[d] = Tail(inbox[d]) /\ inbox[d] \in Seq(Request) /\ inbox[d] # <<>>
          BY <3>1, <4>1 DEF TypeOK
        <5>2. i + 1 \in DOMAIN inbox[d] /\ inbox'[d][i] = inbox[d][i + 1]
          BY <5>1
        <5> QED BY <5>2
      <4>2. CASE d # c
        <5>1. inbox'[d] = inbox[d] BY <3>1, <4>2 DEF TypeOK
        <5> QED BY <5>1
      <4> QED BY <4>1, <4>2
    <3>4. \A d \in Children :
            /\ job'[d].id < nextId
            /\ adapter'[d] = "loading" => initId'[d] < nextId
            /\ \A p \in pending[d] :
                 /\ job'[d].id = p.id => job'[d].call = p.call
                 /\ adapter'[d] = "loading" /\ initId'[d] = p.id => p.call = "init"
      <4> TAKE d \in Children
      <4>1. nextId \in Nat /\ pending[d] \subseteq Request BY DEF TypeOK
      <4>2. CASE d # c \/ (r.call # "init" /\ adapter[c] # "open")
        <5>1. job'[d] = job[d] /\ adapter'[d] = adapter[d] /\ initId'[d] = initId[d]
          BY <2>8, <4>2 DEF Receive, TypeOK
        <5> QED BY <5>1 DEF FreshIds, SameCall
      <4>3. CASE d = c /\ r.call = "init"
        <5>1. job'[d] = job[d] /\ initId'[d] = r.id
          BY <2>8, <4>3 DEF Receive, TypeOK
        <5> QED BY <3>2, <4>3, <5>1 DEF FreshIds, SameCall
      <4>4. CASE d = c /\ r.call # "init" /\ adapter[c] = "open"
        <5>1. job'[d] = r /\ adapter'[d] = "open"
          BY <2>8, <4>4 DEF Receive, TypeOK
        <5> QED BY <3>2, <4>4, <5>1 DEF SameCall
      <4> QED BY <4>2, <4>3, <4>4
    <3>5. /\ \A d \in Children : \A i \in DOMAIN outbox'[d] : outbox'[d][i].id < nextId'
          /\ \A d \in Children : \A p \in pending'[d] : \A i \in DOMAIN outbox'[d] :
               (outbox'[d][i].id = p.id /\ outbox'[d][i].outcome = "ok")
                 => p.call \in done' \union {"init"}
      <4>1. CASE r.call # "init" /\ adapter[c] # "open"
        <5>1. Send(c, r.id, "uninit") BY <2>8, <4>1 DEF Receive
        <5> HIDE DEF r
        <5> QED BY <3>1, <3>2, <5>1, SendOwnReply
      <4>2. CASE ~(r.call # "init" /\ adapter[c] # "open")
        <5>1. outbox' = outbox BY <2>8, <4>2 DEF Receive
        <5> QED BY <3>1, <5>1 DEF FreshIds, SameCall
      <4> QED BY <4>1, <4>2
    <3>6. FreshIds'
      BY <3>1, <3>3, <3>4, <3>5 DEF FreshIds
    <3>7. \A d \in Children : \A p \in pending'[d] :
            \A i \in DOMAIN inbox'[d] : inbox'[d][i].id = p.id => inbox'[d][i].call = p.call
      <4> HIDE DEF r
      <4> TAKE d \in Children
      <4> TAKE p \in pending'[d]
      <4> TAKE i \in DOMAIN inbox'[d]
      <4>1. PICK j \in DOMAIN inbox[d] : inbox'[d][i] = inbox[d][j] BY <3>3
      <4>2. p \in pending[d] BY <3>1
      <4> QED BY <4>1, <4>2 DEF SameCall
    <3>8. SameCall'
      <4> HIDE DEF r
      <4>1. pending' = pending BY <3>1
      <4> QED BY <3>4, <3>5, <3>7, <4>1 DEF SameCall
    <3> QED BY <3>1, <3>6, <3>8 DEF OwnReply
  <2>9. ASSUME NEW c \in Children, Load(c) PROVE FreshIds' /\ SameCall' /\ OwnReply'
    <3>1. PICK o \in {"ok", "error"} : Send(c, initId[c], o)
      BY <2>9 DEF Load
    <3>2. /\ UNCHANGED <<nextId, pending, status, done, inbox, job, initId>>
          /\ adapter[c] = "loading"
          /\ \A d \in Children : adapter'[d] = "loading" => adapter[d] = "loading"
      BY <2>9 DEF Load, parentVars, TypeOK
    <3>3. initId[c] \in Nat /\ initId[c] < nextId
          /\ \A p \in pending[c] : p.id = initId[c] => p.call = "init"
      BY <3>2 DEF FreshIds, SameCall, TypeOK
    <3>4. /\ \A d \in Children : \A i \in DOMAIN outbox'[d] : outbox'[d][i].id < nextId'
          /\ \A d \in Children : \A p \in pending'[d] : \A i \in DOMAIN outbox'[d] :
               (outbox'[d][i].id = p.id /\ outbox'[d][i].outcome = "ok")
                 => p.call \in done' \union {"init"}
      BY <3>1, <3>2, <3>3, SendOwnReply
    <3> QED BY <3>2, <3>4 DEF FreshIds, SameCall, OwnReply
  <2>10. ASSUME NEW c \in Children, Finish(c) PROVE FreshIds' /\ SameCall' /\ OwnReply'
    <3>1. job[c] \in [id : Nat, call : Calls] BY <2>10 DEF Finish, TypeOK
    <3>2. PICK o \in {"ok", "error"} :
            /\ Send(c, job[c].id, o)
            /\ done' = IF o = "ok" THEN done \union {job[c].call} ELSE done
      BY <2>10 DEF Finish
    <3>3. /\ UNCHANGED <<nextId, pending, status, inbox, adapter, initId>>
          /\ job' = [job EXCEPT ![c] = NoJob]
      BY <2>10 DEF Finish, parentVars
    <3>4. /\ job[c].id < nextId
          /\ \A p \in pending[c] : p.id = job[c].id => p.call = job[c].call
      BY DEF FreshIds, SameCall
    <3>5. /\ \A d \in Children : \A i \in DOMAIN outbox'[d] : outbox'[d][i].id < nextId'
          /\ \A d \in Children : \A p \in pending'[d] : \A i \in DOMAIN outbox'[d] :
               (outbox'[d][i].id = p.id /\ outbox'[d][i].outcome = "ok")
                 => p.call \in done' \union {"init"}
      <4>1. o = "ok" => \A p \in pending[c] : p.id = job[c].id => p.call \in done' \union {"init"}
        BY <3>2, <3>4
      <4>2. done \subseteq done' BY <3>2
      <4> QED BY <3>1, <3>2, <3>3, <3>4, <4>1, <4>2, SendOwnReply
    <3>6. \A d \in Children : /\ job'[d].id < nextId'
                              /\ \A p \in pending'[d] : job'[d].id = p.id => job'[d].call = p.call
      <4> TAKE d \in Children
      <4>0. pending[d] \subseteq Request /\ nextId \in Nat BY DEF TypeOK
      <4>1. \A p \in pending[d] : p.id \in Nat BY <4>0 DEF Request
      <4>2. CASE d = c
        <5>1. job'[d] = NoJob BY <3>3, <4>2 DEF TypeOK
        <5> QED BY <3>3, <4>0, <4>1, <5>1 DEF NoJob
      <4>3. CASE d # c
        <5>1. job'[d] = job[d] BY <3>3, <4>3 DEF TypeOK
        <5> QED BY <3>3, <5>1 DEF FreshIds, SameCall
      <4> QED BY <4>2, <4>3
    <3>7. FreshIds' BY <3>3, <3>5, <3>6 DEF FreshIds
    <3>8. SameCall' BY <3>3, <3>5, <3>6 DEF SameCall
    <3>9. OwnReply' BY <3>2, <3>3 DEF OwnReply
    <3> QED BY <3>7, <3>8, <3>9
  <2>11. ASSUME NEW c \in Children, Die(c) \/ Crash(c) \/ Disconnect(c)
         PROVE  FreshIds' /\ SameCall' /\ OwnReply'
    BY <2>11 DEF Die, Crash, Disconnect, parentVars, FreshIds, SameCall, OwnReply
  <2>12. CASE UNCHANGED vars
    BY <2>12 DEF vars, FreshIds, SameCall, OwnReply
  <2> QED
    BY <2>1, <2>2, <2>3, <2>4, <2>5, <2>6, <2>7, <2>8, <2>9, <2>10, <2>11, <2>12
    DEF Next, ChildStep
<1> QED BY <1>1, <1>2, Typing, PTL DEF Spec

\* OwnReply: a call reported as successful is one whose own statement was
\* completed, for any number of calls, children and crashes (the ids and the
\* per-child maps of isolate.ts).
THEOREM OwnReplyHolds == Spec => []OwnReply
<1>1. OwnReplyInv => OwnReply BY DEF OwnReplyInv
<1> QED BY <1>1, OwnReplyInvariance, PTL

-----------------------------------------------------------------------------
(* The bookkeeping, and that Isolate implements CallService.               *)

HIDE DEF Children, NoChild, Calls

\* A child that was not forked yet has nothing.
Blank ==
  /\ child <= forks
  /\ \A c \in Children : c > forks =>
       /\ pending[c] = {} /\ inbox[c] = <<>> /\ outbox[c] = <<>>
       /\ job[c] = NoJob /\ adapter[c] = "absent" /\ proc[c] = "none"

\* No call is made before the server serves.
Quiet ==
  /\ phase \in {"new", "connecting"} => waiters = <<>> /\ \A q \in Calls : status[q] = "idle"
  /\ phase = "new" => starting = NoChild

\* Who awaits the start waits for nothing else.
Waiting ==
  /\ \A i \in DOMAIN waiters : status[waiters[i]] = "waiting"
  /\ \A i, j \in DOMAIN waiters : waiters[i] = waiters[j] => i = j

\* An id, and a call, has one entry.
Entries ==
  /\ \A c \in Children : \A p, r \in pending[c] : p.id = r.id \/ p.call = r.call => p = r
  /\ \A c, d \in Children : \A p \in pending[c], r \in pending[d] :
       p.call = r.call /\ p.call # "init" => c = d

\* An id is in one place of a child: what was answered is not there any more.
ApartIn(c) ==
  /\ \A i, j \in DOMAIN inbox[c] : inbox[c][i].id = inbox[c][j].id => i = j
  /\ \A i \in DOMAIN inbox[c] :
       /\ inbox[c][i].id # job[c].id
       /\ adapter[c] = "loading" => inbox[c][i].id # initId[c]
       /\ \A j \in DOMAIN outbox[c] : outbox[c][j].id # inbox[c][i].id
  /\ \A j \in DOMAIN outbox[c] :
       /\ outbox[c][j].id # job[c].id
       /\ adapter[c] = "loading" => outbox[c][j].id # initId[c]
  /\ adapter[c] = "loading" => initId[c] # job[c].id
Apart == \A c \in Children : ApartIn(c)

\* What a process that was not killed works on, or has to read, is pending.
WorksIn(c) ==
  proc[c] = "running" =>
    /\ \A i \in DOMAIN inbox[c] : inbox[c][i].call # "init" => inbox[c][i] \in pending[c]
    /\ job[c] # NoJob => job[c] \in pending[c]
Works == \A c \in Children : WorksIn(c)

\* A call is sent once, so its statement is performed once.
Fresh(q) == status[q] \in {"idle", "waiting"}
Once ==
  /\ \A c, d \in Children : \A i \in DOMAIN inbox[c], j \in DOMAIN inbox[d] :
       inbox[c][i].call = inbox[d][j].call /\ inbox[c][i].call # "init" => c = d /\ i = j
  /\ \A c, d \in Children : \A i \in DOMAIN inbox[c] : inbox[c][i].call # job[d].call
  /\ \A c, d \in Children : job[c].call = job[d].call /\ job[c] # NoJob => c = d
  /\ \A c \in Children : \A i \in DOMAIN inbox[c] :
       inbox[c][i].call # "init" => ~Fresh(inbox[c][i].call) /\ inbox[c][i].call \notin done
  /\ \A c \in Children : job[c] # NoJob => ~Fresh(job[c].call) /\ job[c].call \notin done
  /\ \A q \in done : ~Fresh(q)

ServiceInv ==
  /\ OwnReplyInv
  /\ Blank /\ Quiet /\ Waiting
  /\ Entries /\ PendingIsSent /\ OneStart
  /\ Apart /\ Works /\ Once

-----------------------------------------------------------------------------
(* What the operations of the parent change, child by child.               *)

Rest(c) == \A d \in Children \ {c} : pending'[d] = pending[d]

\* start() changes one child, which it makes.
LEMMA StartStep ==
  ASSUME TypeOK, Start, NEW c, c = forks + 1
  PROVE  /\ c \in Children /\ forks' = c /\ child' = c /\ starting' = c /\ nextId' = nextId + 1
         /\ pending'[c] = {[id |-> nextId, call |-> "init"]}
         /\ inbox'[c] = <<[id |-> nextId, call |-> "init"]>>
         /\ proc'[c] = "running"
         /\ Rest(c)
         /\ \A d \in Children \ {c} : inbox'[d] = inbox[d] /\ proc'[d] = proc[d]
<1>1. c \in Children BY BoundsAssumption DEF Start, TypeOK, Children
<1>2. /\ forks' = c /\ child' = c /\ starting' = c /\ nextId' = nextId + 1
      /\ proc' = [proc EXCEPT ![c] = "running"]
      /\ pending' = [pending EXCEPT ![c] = {[id |-> nextId, call |-> "init"]}]
      /\ inbox' = [inbox EXCEPT ![c] = <<[id |-> nextId, call |-> "init"]>>]
  BY DEF Start, NextId
<1>3. pending'[c] = {[id |-> nextId, call |-> "init"]} /\ Rest(c)
  BY <1>1, <1>2 DEF TypeOK, Rest
<1>4. /\ inbox'[c] = <<[id |-> nextId, call |-> "init"]>>
      /\ \A d \in Children \ {c} : inbox'[d] = inbox[d]
  BY <1>1, <1>2 DEF TypeOK
<1>5. proc'[c] = "running" /\ \A d \in Children \ {c} : proc'[d] = proc[d]
  BY <1>1, <1>2 DEF TypeOK
<1> QED BY <1>1, <1>2, <1>3, <1>4, <1>5

\* call() sends, or refuses, or its message breaks the server.
Sends(q, c) ==
  /\ c \in Children /\ phase' = phase /\ status'[q] = "sent" /\ nextId' = nextId + 1
  /\ pending'[c] = pending[c] \union {[id |-> nextId, call |-> q]} /\ Rest(c)
  /\ inbox'[c] = Append(inbox[c], [id |-> nextId, call |-> q])
  /\ \A d \in Children \ {c} : inbox'[d] = inbox[d]
  /\ armed' \subseteq armed \union {[id |-> nextId, call |-> q, child |-> c]}
Refuses(q) ==
  /\ child = NoChild /\ status'[q] = "notRunning"
  /\ UNCHANGED <<phase, nextId, pending, armed, inbox>>
Breaks == phase' = "crashed" /\ UNCHANGED <<status, nextId, pending, armed, inbox>>

LEMMA CallStep ==
  ASSUME TypeOK, NEW q \in Calls, Call(q)
  PROVE  /\ \A p \in Calls \ {q} : status'[p] = status[p]
         /\ Sends(q, child) \/ Refuses(q) \/ Breaks
<1>1. CASE child = NoChild BY <1>1 DEF Call, Refuses, TypeOK
<1>2. CASE child # NoChild /\ proc[child] # "gone"
  <2>1. child \in Children BY <1>2 DEF TypeOK
  <2>2. /\ status' = [status EXCEPT ![q] = "sent"] /\ nextId' = nextId + 1 /\ phase' = phase
        /\ pending' = [pending EXCEPT ![child] = pending[child] \union {[id |-> nextId, call |-> q]}]
        /\ inbox' = [inbox EXCEPT ![child] = Append(inbox[child], [id |-> nextId, call |-> q])]
        /\ armed' \subseteq armed \union {[id |-> nextId, call |-> q, child |-> child]}
    BY <1>2 DEF Call, NextId
  <2>3. status'[q] = "sent" /\ \A p \in Calls \ {q} : status'[p] = status[p]
    BY <2>2 DEF TypeOK
  <2>4. pending'[child] = pending[child] \union {[id |-> nextId, call |-> q]} /\ Rest(child)
    BY <2>1, <2>2 DEF TypeOK, Rest
  <2>5. /\ inbox'[child] = Append(inbox[child], [id |-> nextId, call |-> q])
        /\ \A d \in Children \ {child} : inbox'[d] = inbox[d]
    BY <2>1, <2>2 DEF TypeOK
  <2> QED BY <2>1, <2>2, <2>3, <2>4, <2>5 DEF Sends
<1>3. CASE child # NoChild /\ proc[child] = "gone" BY <1>3 DEF Call, Breaks
<1> QED BY <1>1, <1>2, <1>3

\* A message settles nothing, or the one call whose entry has its id, or the
\* start.
Ignores == UNCHANGED <<phase, child, starting, waiters, proc, pending, armed, status>>
Answers(c, p, s) ==
  /\ p \in pending[c] /\ p.call \in Calls
  /\ pending'[c] = pending[c] \ {p} /\ Rest(c)
  /\ armed' = {t \in armed : t.call # p.call}
  /\ status'[p.call] = s /\ \A q \in Calls \ {p.call} : status'[q] = status[q]
  /\ UNCHANGED <<phase, child, starting, waiters, proc>>
Starts(c, p) ==
  /\ p \in pending[c] /\ p.call = "init" /\ starting = c
  /\ pending'[c] = pending[c] \ {p} /\ Rest(c)
  /\ starting' = NoChild /\ armed' = armed
  /\ \/ phase' = "serving" /\ UNCHANGED <<child, waiters, status, proc>>
     \/ proc' = Killed(c) /\ StartFailed(status)

LEMMA MessageStep ==
  ASSUME TypeOK, Entries, OneStart, NEW c \in Children, OnMessage(c),
         NEW r, r = Head(outbox[c])
  PROVE  /\ r \in Reply /\ 1 \in DOMAIN outbox[c] /\ r = outbox[c][1]
         /\ \/ Ignores
            \/ \E p \in pending[c] : p.id = r.id /\ (Answers(c, p, r.outcome) \/ Starts(c, p))
<1> DEFINE hit == {p \in pending[c] : p.id = r.id}
           init == \E p \in hit : p.call = "init"
<1>1. r \in Reply /\ 1 \in DOMAIN outbox[c] /\ r = outbox[c][1]
  BY DEF OnMessage, TypeOK
<1>2. /\ pending' = [pending EXCEPT ![c] = pending[c] \ hit]
      /\ armed' = {t \in armed : t.call \notin CallsOf(hit)}
  BY DEF OnMessage, Forget, Disarmed
<1>3. pending'[c] = pending[c] \ hit /\ Rest(c)
  BY <1>2 DEF TypeOK, Rest
<1>4. CASE hit = {}
  <2>1. CallsOf(hit) = {} BY <1>4 DEF CallsOf
  <2>2. armed' = armed BY <1>2, <2>1
  <2>3. pending' = pending BY <1>2, <1>4 DEF TypeOK
  <2>4. status' = Settle({}, r.outcome) /\ UNCHANGED <<phase, child, starting, waiters, proc>>
    BY <1>4, <2>1 DEF OnMessage
  <2>5. status' = status BY <2>4 DEF Settle, TypeOK
  <2> QED BY <1>1, <2>2, <2>3, <2>4, <2>5 DEF Ignores
<1>5. ASSUME NEW p \in hit PROVE p.id = r.id /\ (Answers(c, p, r.outcome) \/ Starts(c, p))
  <2>1. hit = {p} BY <1>5 DEF Entries
  <2>2. p \in Request BY <1>5 DEF TypeOK
  <2>3. CASE p.call # "init"
    <3>1. p.call \in Calls BY <2>2, <2>3 DEF Request
    <3>2. CallsOf(hit) = {p.call} BY <2>1, <2>3 DEF CallsOf
    <3>3. ~init BY <2>1, <2>3
    <3>4. /\ status' = Settle({p.call}, r.outcome)
          /\ UNCHANGED <<phase, child, starting, waiters, proc>>
      BY <3>2, <3>3 DEF OnMessage
    <3>5. status'[p.call] = r.outcome /\ \A q \in Calls \ {p.call} : status'[q] = status[q]
      BY <3>1, <3>4 DEF Settle
    <3> QED BY <1>2, <1>3, <1>5, <2>1, <3>1, <3>2, <3>4, <3>5 DEF Answers
  <2>4. CASE p.call = "init"
    <3>1. CallsOf(hit) = {} BY <2>1, <2>4 DEF CallsOf
    <3>2. starting = c BY <1>5, <2>4 DEF OneStart
    <3>3. init BY <2>1, <2>4
    <3>4. \/ phase' = "serving" /\ starting' = NoChild /\ UNCHANGED <<child, waiters, status, proc>>
          \/ proc' = Killed(c) /\ StartFailed(status)
      BY <3>3 DEF OnMessage
    <3>5. starting' = NoChild BY <3>4 DEF StartFailed
    <3> QED BY <1>2, <1>3, <1>5, <2>1, <2>4, <3>1, <3>2, <3>4, <3>5 DEF Starts
  <2> QED BY <1>5, <2>3, <2>4
<1> QED BY <1>1, <1>4, <1>5

\* A failed start fails who awaits it, and changes no other caller.
LEMMA FailedStep ==
  ASSUME NEW settled, StartFailed(settled), NEW q \in Calls
  PROVE  status'[q] = "startFailed" \/ status'[q] = settled[q]
BY DEF StartFailed

\* An exit of c forgets its entries, and rejects their callers.
Exits(c) ==
  /\ pending'[c] = {} /\ Rest(c)
  /\ proc[c] = "gone" /\ proc'[c] = "exited"
  /\ \A d \in Children \ {c} : proc'[d] = proc[d]
  /\ armed' = {t \in armed : t.call \notin CallsOf(pending[c])}
  /\ \/ /\ starting # c
        /\ \A q \in Calls : status'[q] = IF q \in CallsOf(pending[c]) THEN "exited" ELSE status[q]
        /\ child' \in {child, NoChild}
        /\ UNCHANGED <<phase, starting, waiters>>
     \/ /\ starting = c
        /\ StartFailed(Settle(CallsOf(pending[c]), "exited"))

LEMMA ExitStep ==
  ASSUME TypeOK, OneStart, NEW c \in Children, OnExit(c)
  PROVE  Exits(c)
<1>1. /\ proc[c] = "gone" /\ proc' = [proc EXCEPT ![c] = "exited"]
      /\ pending' = [pending EXCEPT ![c] = pending[c] \ pending[c]]
      /\ armed' = {t \in armed : t.call \notin CallsOf(pending[c])}
  BY DEF OnExit, Forget, Disarmed, Rejected
<1>2. pending'[c] = {} /\ Rest(c) BY <1>1 DEF TypeOK, Rest
<1>3. proc'[c] = "exited" /\ \A d \in Children \ {c} : proc'[d] = proc[d] BY <1>1 DEF TypeOK
<1>4. CASE /\ \A p \in pending[c] : p.call # "init"
           /\ child' = IF child = c THEN NoChild ELSE child
           /\ status' = Settle(CallsOf(pending[c]), "exited")
           /\ UNCHANGED <<phase, starting, waiters>>
  <2>1. starting # c BY <1>4 DEF OneStart
  <2>2. \A q \in Calls : status'[q] = IF q \in CallsOf(pending[c]) THEN "exited" ELSE status[q]
    BY <1>4 DEF Settle
  <2> QED BY <1>1, <1>2, <1>3, <1>4, <2>1, <2>2 DEF Exits
<1>5. CASE /\ \E p \in pending[c] : p.call = "init"
           /\ StartFailed(Settle(CallsOf(pending[c]), "exited"))
  <2>1. starting = c BY <1>5 DEF OneStart
  <2> QED BY <1>1, <1>2, <1>3, <1>5, <2>1 DEF Exits
<1> QED BY <1>4, <1>5 DEF OnExit, Rejected

\* A timer's step ends the call it was armed for, and kills its child.
Expires(t) ==
  /\ t \in armed /\ t.child \in Children /\ t.call \in Queries /\ armed' = armed \ {t}
  /\ pending'[t.child] = pending[t.child] \ {[id |-> t.id, call |-> t.call]} /\ Rest(t.child)
  /\ proc'[t.child] # "running" /\ \A d \in Children \ {t.child} : proc'[d] = proc[d]
  /\ proc'[t.child] \in {"killed", proc[t.child]}
  /\ status'[t.call] = "timeout" /\ \A q \in Calls \ {t.call} : status'[q] = status[q]

LEMMA TimerStep ==
  ASSUME TypeOK, NEW t \in armed, OnTimer(t)
  PROVE  Expires(t)
<1>1. t.child \in Children /\ t.call \in Queries BY DEF TypeOK
<1>2. /\ pending' = [pending EXCEPT ![t.child] = pending[t.child] \ {[id |-> t.id, call |-> t.call]}]
      /\ armed' = armed \ {t} /\ status' = [status EXCEPT ![t.call] = "timeout"]
      /\ proc' = [proc EXCEPT ![t.child] = IF proc[t.child] = "running" THEN "killed" ELSE proc[t.child]]
  BY DEF OnTimer, Forget, Killed
<1>3. pending'[t.child] = pending[t.child] \ {[id |-> t.id, call |-> t.call]} /\ Rest(t.child)
  BY <1>1, <1>2 DEF TypeOK, Rest
<1>4. status'[t.call] = "timeout" /\ \A q \in Calls \ {t.call} : status'[q] = status[q]
  BY <1>1, <1>2 DEF TypeOK, Calls
<1>5. /\ proc'[t.child] # "running" /\ \A d \in Children \ {t.child} : proc'[d] = proc[d]
      /\ proc'[t.child] \in {"killed", proc[t.child]}
  BY <1>1, <1>2 DEF TypeOK
<1> QED BY <1>1, <1>2, <1>3, <1>4, <1>5 DEF Expires

-----------------------------------------------------------------------------
(* Children that were not forked, and calls that were not made.            *)

\* What lives was forked.
LEMMA BlankStep ==
  ASSUME OwnReplyInv, Blank, Quiet, Waiting, Entries, PendingIsSent, OneStart, [Next]_vars
  PROVE  Blank'
<1>0. TypeOK /\ forks \in Nat /\ child \in Nat /\ Children \subseteq Nat
  BY BoundsAssumption DEF OwnReplyInv, TypeOK, Children, NoChild
<1>1. ASSUME Start, UNCHANGED <<outbox, adapter, job>> PROVE Blank'
  <2>1. PICK c : c = forks + 1 OBVIOUS
  <2> QED BY <1>0, <1>1, <2>1, StartStep DEF Blank, Rest
<1>2. ASSUME NEW q \in Calls, Call(q), UNCHANGED <<child, forks, outbox, job, adapter, proc>>
      PROVE  Blank'
  <2>1. Sends(q, child) \/ UNCHANGED <<pending, inbox>>
    BY <1>0, <1>2, CallStep DEF Refuses, Breaks
  <2> QED BY <1>0, <1>2, <2>1 DEF Blank, Sends, Rest
<1>3. CASE Connect BY <1>1, <1>3 DEF Connect, Start
<1>4. ASSUME NEW q \in Calls, Begin(q) PROVE Blank'
  <2>1. CASE BeginSend(q) BY <1>2, <2>1 DEF BeginSend
  <2>2. CASE BeginWait(q) BY <2>2 DEF BeginWait, childVars, Blank
  <2>3. CASE BeginStart(q) BY <1>1, <2>3 DEF BeginStart, Start
  <2> QED BY <1>4, <2>1, <2>2, <2>3 DEF Begin
<1>5. CASE Resume
  <2>1. Head(waiters) \in Calls BY <1>0, <1>5 DEF Resume, LoopFree, TypeOK
  <2> QED BY <1>2, <1>5, <2>1 DEF Resume
<1>6. ASSUME NEW c \in Children, OnMessage(c) \/ OnExit(c) PROVE Blank'
  <2>1. ~(c > forks) BY <1>6 DEF Blank, OnMessage, OnExit
  <2>2. \A d \in Children \ {c} : /\ pending'[d] = pending[d] /\ outbox'[d] = outbox[d]
                                  /\ proc'[d] = proc[d]
    BY <1>0, <1>6 DEF OnMessage, OnExit, Forget, Killed, TypeOK
  <2>3. child' \in {child, NoChild} /\ UNCHANGED <<forks, inbox, job, adapter>>
    BY <1>6 DEF OnMessage, OnExit, StartFailed
  <2> QED BY <1>0, <2>1, <2>2, <2>3 DEF Blank, NoChild
<1>7. ASSUME NEW t \in armed, OnTimer(t) PROVE Blank'
  <2>1. Expires(t) BY <1>0, <1>7, TimerStep
  <2>2. ~(t.child > forks) BY <2>1 DEF Blank, PendingIsSent, Expires
  <2>3. child' = NoChild /\ UNCHANGED <<forks, inbox, outbox, job, adapter>>
    BY <1>7 DEF OnTimer
  <2> QED BY <1>0, <2>1, <2>2, <2>3 DEF Blank, NoChild, Expires, Rest
<1>8. CASE Close
  <2>1. child' = NoChild /\ UNCHANGED <<forks, pending, inbox, outbox, job, adapter>>
    BY <1>8 DEF Close
  <2>2. \A d \in Children : proc[d] = "none" => proc'[d] = "none"
    BY <1>0, <1>8 DEF Close, Killed, TypeOK
  <2> QED BY <1>0, <2>1, <2>2 DEF Blank, NoChild
<1>9. ASSUME NEW c \in Children, ChildStep(c) PROVE Blank'
  <2>1. ~(c > forks)
    BY <1>9 DEF Blank, ChildStep, Receive, Load, Finish, Die, Crash, Disconnect, Alive
  <2>2. UNCHANGED <<child, forks, pending>>
    BY <1>9 DEF ChildStep, Receive, Load, Finish, Die, Crash, Disconnect, parentVars
  <2>3. \A d \in Children \ {c} : /\ inbox'[d] = inbox[d] /\ outbox'[d] = outbox[d]
                                  /\ job'[d] = job[d] /\ adapter'[d] = adapter[d]
    BY <1>0, <1>9 DEF ChildStep, Receive, Load, Finish, Die, Crash, Disconnect, Send, TypeOK
  <2>4. \A d \in Children \ {c} : proc'[d] = proc[d]
    BY <1>0, <1>9 DEF ChildStep, Receive, Load, Finish, Die, Crash, Disconnect, TypeOK
  <2> QED BY <2>1, <2>2, <2>3, <2>4 DEF Blank
<1>10. CASE UNCHANGED vars BY <1>10 DEF vars, Blank
<1> QED BY <1>3, <1>4, <1>5, <1>6, <1>7, <1>8, <1>9, <1>10 DEF Next

\* A step that settles sent calls only leaves the waiters and the server's
\* phase alone.
LEMMA Settling ==
  ASSUME Quiet, Waiting, \A q \in Calls : status[q] # "sent" => status'[q] = status[q],
         waiters \in Seq(Calls), UNCHANGED <<phase, waiters>>,
         starting' = starting \/ starting' = NoChild
  PROVE  Quiet' /\ Waiting'
<1>1. \A i \in DOMAIN waiters : waiters[i] \in Calls OBVIOUS
<1>2. Waiting' BY <1>1 DEF Waiting
<1>3. Quiet' BY DEF Quiet
<1> QED BY <1>2, <1>3

\* Callers wait in the order they came, once, and only while the server serves.
LEMMA QuietStep ==
  ASSUME OwnReplyInv, Quiet, Waiting, Entries, PendingIsSent, OneStart, [Next]_vars
  PROVE  Quiet' /\ Waiting'
<1>0. TypeOK /\ waiters \in Seq(Calls) BY DEF OwnReplyInv, TypeOK
<1>1. ASSUME NEW settled, StartFailed(settled), Up PROVE Quiet' /\ Waiting'
  <2>1. waiters' = <<>> /\ phase' \notin {"new", "connecting"}
    BY <1>1 DEF StartFailed, Up
  <2> QED BY <2>1 DEF Quiet, Waiting
<1>2. CASE Connect BY <1>2 DEF Connect, Quiet, Waiting
<1>3. ASSUME NEW q \in Calls, Begin(q) PROVE Quiet' /\ Waiting'
  <2>0. phase = "serving" /\ status[q] = "idle" BY <1>3 DEF Begin
  <2>1. CASE BeginSend(q)
    <3>1. /\ \A p \in Calls \ {q} : status'[p] = status[p]
          /\ phase' \in {"serving", "crashed"} /\ waiters' = waiters
      BY <1>0, <2>0, <2>1, CallStep DEF BeginSend, Sends, Refuses, Breaks
    <3>2. \A i \in DOMAIN waiters : waiters[i] \in Calls \ {q}
      BY <1>0, <2>0 DEF Waiting
    <3> QED BY <3>1, <3>2 DEF Quiet, Waiting
  <2>2. CASE BeginWait(q)
    <3>1. waiters' = Append(waiters, q) /\ status' = [status EXCEPT ![q] = "waiting"]
      BY <2>2 DEF BeginWait
    <3>2. status'[q] = "waiting" /\ \A p \in Calls \ {q} : status'[p] = status[p]
      BY <1>0, <3>1 DEF TypeOK
    <3>3. \A i \in DOMAIN waiters : waiters[i] \in Calls \ {q}
      BY <1>0, <2>0 DEF Waiting
    <3>4. Waiting' BY <1>0, <3>1, <3>2, <3>3 DEF Waiting
    <3> QED BY <2>0, <2>2, <3>4 DEF Quiet, BeginWait
  <2>3. CASE BeginStart(q)
    <3>1. waiters' = <<q>> /\ status' = [status EXCEPT ![q] = "waiting"] /\ phase' = phase
      BY <2>3 DEF BeginStart
    <3>2. status'[q] = "waiting" BY <1>0, <3>1 DEF TypeOK
    <3> QED BY <2>0, <3>1, <3>2 DEF Quiet, Waiting
  <2> QED BY <1>3, <2>1, <2>2, <2>3 DEF Begin
<1>4. CASE Resume
  <2>1. waiters # <<>> /\ waiters' = Tail(waiters) /\ Call(Head(waiters)) /\ Up
    BY <1>4 DEF Resume, LoopFree
  <2>2. PICK q \in Calls : q = Head(waiters) BY <1>0, <2>1
  <2>3. phase = "serving" BY <2>1 DEF Up, Quiet
  <2>4. /\ \A p \in Calls \ {q} : status'[p] = status[p]
        /\ phase' \in {"serving", "crashed"}
    BY <1>0, <2>1, <2>2, <2>3, CallStep DEF Sends, Refuses, Breaks
  <2>5. \A i \in DOMAIN waiters' : /\ i + 1 \in DOMAIN waiters /\ i + 1 # 1
                                   /\ waiters'[i] = waiters[i + 1]
    BY <1>0, <2>1
  <2>6. 1 \in DOMAIN waiters /\ q = waiters[1] BY <1>0, <2>1, <2>2
  <2>7. \A i \in DOMAIN waiters' : waiters'[i] \in Calls \ {q}
    BY <1>0, <2>5, <2>6 DEF Waiting
  <2>8. \A i, j \in DOMAIN waiters' : i + 1 = j + 1 => i = j
    BY <1>0, <2>1
  <2>9. Waiting' BY <2>4, <2>5, <2>7, <2>8 DEF Waiting
  <2> QED BY <2>4, <2>9 DEF Quiet
<1>5. ASSUME NEW c \in Children, OnMessage(c) PROVE Quiet' /\ Waiting'
  <2>1. PICK r : r = Head(outbox[c]) OBVIOUS
  <2>2. Up BY <1>5 DEF OnMessage
  <2>3. CASE Ignores BY <1>0, <2>3, Settling DEF Ignores
  <2>4. ASSUME NEW p \in pending[c], NEW s, Answers(c, p, s) PROVE Quiet' /\ Waiting'
    <3>1. status[p.call] = "sent" BY <2>4, CallsAssumption DEF PendingIsSent, Answers
    <3> QED BY <1>0, <2>4, <3>1, Settling DEF Answers
  <2>5. ASSUME NEW p \in pending[c], Starts(c, p) PROVE Quiet' /\ Waiting'
    <3>1. CASE phase' = "serving" /\ UNCHANGED <<child, waiters, status, proc>>
      BY <3>1 DEF Quiet, Waiting
    <3> QED BY <1>1, <2>2, <2>5, <3>1 DEF Starts
  <2> QED BY <1>0, <1>5, <2>1, <2>3, <2>4, <2>5, MessageStep
<1>6. ASSUME NEW c \in Children, OnExit(c) PROVE Quiet' /\ Waiting'
  <2>1. Exits(c) /\ Up BY <1>0, <1>6, ExitStep DEF OnExit
  <2>2. \A q \in Calls : q \in CallsOf(pending[c]) => status[q] = "sent"
    BY DEF PendingIsSent, CallsOf
  <2>3. CASE /\ \A q \in Calls : status'[q] = IF q \in CallsOf(pending[c]) THEN "exited" ELSE status[q]
             /\ UNCHANGED <<phase, starting, waiters>>
    BY <1>0, <2>2, <2>3, Settling
  <2> QED BY <1>1, <2>1, <2>3 DEF Exits
<1>7. ASSUME NEW t \in armed, OnTimer(t) PROVE Quiet' /\ Waiting'
  <2>1. Expires(t) /\ UNCHANGED <<phase, starting, waiters>> BY <1>0, <1>7, TimerStep DEF OnTimer
  <2>2. status[t.call] = "sent"
    BY <2>1, CallsAssumption DEF PendingIsSent, Expires, Calls
  <2> QED BY <1>0, <2>1, <2>2, Settling DEF Expires
<1>8. CASE Close
  BY <1>8 DEF Close, Quiet, Waiting
<1>9. ASSUME NEW c \in Children, ChildStep(c) PROVE Quiet' /\ Waiting'
  <2>1. UNCHANGED <<phase, starting, waiters, status>>
    BY <1>9 DEF ChildStep, Receive, Load, Finish, Die, Crash, Disconnect, parentVars
  <2> QED BY <2>1 DEF Quiet, Waiting
<1>10. CASE UNCHANGED vars BY <1>10 DEF vars, Quiet, Waiting
<1> QED BY <1>2, <1>3, <1>4, <1>5, <1>6, <1>7, <1>8, <1>9, <1>10 DEF Next

-----------------------------------------------------------------------------
(* The maps of pending calls and the timers.                               *)

Maps == Entries /\ PendingIsSent /\ OneStart

\* call() makes the one entry of a call that was not sent before.
LEMMA CallMaps ==
  ASSUME OwnReplyInv, Maps, NEW q \in Calls, status[q] # "sent", Call(q), starting' = starting
  PROVE  Maps'
<1>0. TypeOK /\ FreshIds /\ Entries /\ PendingIsSent /\ OneStart BY DEF OwnReplyInv, Maps
<1>1. \A p \in Calls \ {q} : status'[p] = status[p] BY <1>0, CallStep
<1>2. q # "init" BY CallsAssumption
<1>3. \A d \in Children : \A p \in pending[d] : p.call # q BY <1>0, <1>2 DEF PendingIsSent
<1>4. \A d \in Children : \A p \in pending[d] : p.call # "init" => p.call \in Calls
  BY <1>0 DEF TypeOK, Request
<1>5. \A t \in armed : t.child \in Children
  BY <1>0 DEF TypeOK
<1>6. CASE Sends(q, child)
  <2>1. PICK r : r = [id |-> nextId, call |-> q] OBVIOUS
  <2>2. PICK c \in Children : c = child BY <1>6 DEF Sends
  <2>3. /\ pending'[c] = pending[c] \union {r} /\ \A d \in Children \ {c} : pending'[d] = pending[d]
        /\ status'[q] = "sent" /\ r.call = q /\ r.id = nextId
        /\ armed' \subseteq armed \union {[id |-> nextId, call |-> q, child |-> c]}
    BY <1>6, <2>1, <2>2 DEF Sends, Rest
  <2>4. \A p \in pending[c] : p.id # r.id
    <3>1. \A p \in pending[c] : p.id \in Nat /\ p.id < nextId
      BY <1>0, <2>2 DEF FreshIds, TypeOK, Request
    <3>2. nextId \in Nat BY <1>0 DEF TypeOK
    <3> QED BY <2>3, <3>1, <3>2
  <2>5. Entries' BY <1>0, <1>2, <1>3, <2>3, <2>4 DEF Entries
  <2>6. OneStart' BY <1>0, <1>2, <2>3 DEF OneStart
  <2>7. \A d \in Children : \A p \in pending'[d] : p.call # "init" => status'[p.call] = "sent"
    BY <1>0, <1>1, <1>3, <1>4, <2>3 DEF PendingIsSent
  <2>8. ASSUME NEW p \in Calls, status'[p] = "sent"
        PROVE  \E d \in Children : p \in CallsOf(pending[d])'
    <3>1. CASE p = q BY <1>2, <2>3, <3>1 DEF CallsOf
    <3>2. CASE p # q
      <4>1. PICK d \in Children : p \in CallsOf(pending[d])
        BY <1>0, <1>1, <2>8, <3>2 DEF PendingIsSent
      <4>2. pending[d] \subseteq pending'[d] BY <2>3
      <4> QED BY <4>1, <4>2 DEF CallsOf
    <3> QED BY <3>1, <3>2
  <2>9. ASSUME NEW t \in armed' PROVE [id |-> t.id, call |-> t.call] \in pending'[t.child]
    <3>1. CASE t \in armed
      <4>1. pending[t.child] \subseteq pending'[t.child] BY <1>5, <2>3, <3>1
      <4> QED BY <1>0, <3>1, <4>1 DEF PendingIsSent
    <3>2. CASE t = [id |-> nextId, call |-> q, child |-> c] BY <2>1, <2>3, <3>2
    <3> QED BY <2>3, <3>1, <3>2
  <2>10. PendingIsSent' BY <2>7, <2>8, <2>9 DEF PendingIsSent
  <2> QED BY <2>5, <2>6, <2>10 DEF Maps
<1>7. CASE (Refuses(q) \/ Breaks)
  <2>1. pending' = pending /\ armed' = armed /\ (status'[q] = "sent" => status[q] = "sent")
    BY <1>7 DEF Refuses, Breaks
  <2>2. Entries' /\ OneStart' BY <1>0, <2>1 DEF Entries, OneStart
  <2>3. PendingIsSent' BY <1>0, <1>1, <1>3, <1>4, <2>1 DEF PendingIsSent, CallsOf
  <2> QED BY <2>2, <2>3 DEF Maps
<1> QED BY <1>0, <1>6, <1>7, CallStep

\* start() makes the one entry of an init.
LEMMA StartMaps ==
  ASSUME OwnReplyInv, Blank, Maps, starting = NoChild, Start,
         \A q \in Calls : (status'[q] = "sent") <=> (status[q] = "sent")
  PROVE  Maps'
<1>0. TypeOK /\ Entries /\ PendingIsSent /\ OneStart BY DEF OwnReplyInv, Maps
<1>1. PICK c : c = forks + 1 OBVIOUS
<1>2. /\ c \in Children /\ starting' = c /\ Rest(c)
      /\ pending'[c] = {[id |-> nextId, call |-> "init"]}
  BY <1>0, <1>1, StartStep
<1>3. pending[c] = {}
  BY <1>0, <1>1, <1>2, BoundsAssumption DEF Blank, TypeOK
<1>4. \A d \in Children : d # NoChild BY DEF Children, NoChild
<1>5. \A d \in Children : \A p \in pending[d] : p.call # "init"
  BY <1>0, <1>4 DEF OneStart
<1>6. armed' = armed BY DEF Start
<1>7. Entries' BY <1>0, <1>2 DEF Entries, Rest
<1>8. OneStart'
  <2>1. \E p \in pending'[c] : p.call = "init" BY <1>2
  <2>2. \A d \in Children \ {c} : \A p \in pending'[d] : p.call # "init" BY <1>2, <1>5 DEF Rest
  <2> QED BY <1>2, <2>1, <2>2 DEF OneStart
<1>9. \A d \in Children : pending'[d] \subseteq pending[d] \union {[id |-> nextId, call |-> "init"]}
  BY <1>2 DEF Rest
<1>10. \A d \in Children : \A p \in pending'[d] : p.call # "init" => p \in pending[d] /\ p.call \in Calls
  <2>1. \A d \in Children : \A p \in pending[d] : p.call # "init" => p.call \in Calls
    BY <1>0 DEF TypeOK, Request
  <2> QED BY <1>9, <2>1
<1>11. \A d \in Children : pending[d] \subseteq pending'[d] BY <1>2, <1>3 DEF Rest
<1>12. \A t \in armed : t.child \in Children BY <1>0 DEF TypeOK
<1>13. PendingIsSent'
  <2>1. \A d \in Children : \A p \in pending'[d] : p.call # "init" => status'[p.call] = "sent"
    BY <1>0, <1>10 DEF PendingIsSent
  <2>2. \A q \in Calls : status'[q] = "sent" => \E d \in Children : q \in CallsOf(pending[d])'
    BY <1>0, <1>11 DEF PendingIsSent, CallsOf
  <2>3. \A t \in armed' : [id |-> t.id, call |-> t.call] \in pending'[t.child]
    BY <1>0, <1>6, <1>11, <1>12 DEF PendingIsSent
  <2> QED BY <2>1, <2>2, <2>3 DEF PendingIsSent
<1> QED BY <1>7, <1>8, <1>13 DEF Maps

\* An entry leaves its map with the timer and the promise of its call, the
\* entry of an init with the start.
LEMMA ForgetMaps ==
  ASSUME OwnReplyInv, Maps, NEW c \in Children, NEW gone \in SUBSET pending[c],
         pending'[c] = pending[c] \ gone, Rest(c),
         armed' \subseteq armed, \A t \in armed' : t.call \notin CallsOf(gone),
         \A q \in Calls : (status'[q] = "sent") <=> (status[q] = "sent" /\ q \notin CallsOf(gone)),
         \/ starting' = NoChild /\ \E p \in gone : p.call = "init"
         \/ starting' = starting /\ \A p \in gone : p.call # "init"
  PROVE  Maps'
<1>0. TypeOK /\ Entries /\ PendingIsSent /\ OneStart BY DEF OwnReplyInv, Maps
<1>1. \A d \in Children : pending'[d] \subseteq pending[d] BY DEF Rest
<1>2. Entries' BY <1>0, <1>1 DEF Entries
<1>3. OneStart'
  <2>1. \A d \in Children : d # NoChild BY DEF Children, NoChild
  <2>2. CASE starting' = NoChild /\ \E p \in gone : p.call = "init"
    <3>1. starting = c BY <1>0, <2>2 DEF OneStart
    <3>2. \A p \in pending'[c] : p.call # "init" BY <1>0, <2>2 DEF Entries
    <3>3. \A d \in Children \ {c} : \A p \in pending'[d] : p.call # "init"
      BY <1>0, <3>1 DEF OneStart, Rest
    <3> QED BY <2>1, <2>2, <3>2, <3>3 DEF OneStart
  <2>3. CASE starting' = starting /\ \A p \in gone : p.call # "init"
    <3>1. \A d \in Children : (\E p \in pending'[d] : p.call = "init")
                                <=> (\E p \in pending[d] : p.call = "init")
      BY <2>3 DEF Rest
    <3> QED BY <1>0, <2>3, <3>1 DEF OneStart
  <2> QED BY <2>2, <2>3
<1>4. \A d \in Children : \A p \in pending[d] : p.call # "init" => p.call \in Calls
  BY <1>0 DEF TypeOK, Request
<1>5. ASSUME NEW d \in Children, NEW p \in pending[d], p.call # "init"
      PROVE  p \in pending'[d] <=> p.call \notin CallsOf(gone)
  <2>1. p.call \in CallsOf(gone) <=> \E g \in gone : g.call = p.call
    BY <1>5 DEF CallsOf
  <2>2. \A g \in gone : g.call = p.call => d = c /\ g = p
    BY <1>0, <1>5 DEF Entries
  <2> QED BY <2>1, <2>2 DEF Rest
<1>6. PendingIsSent'
  <2>1. \A d \in Children : \A p \in pending'[d] : p.call # "init" => status'[p.call] = "sent"
    BY <1>0, <1>1, <1>4, <1>5 DEF PendingIsSent
  <2>2. ASSUME NEW q \in Calls, status'[q] = "sent"
        PROVE  \E d \in Children : q \in CallsOf(pending[d])'
    <3>1. PICK d \in Children : q \in CallsOf(pending[d]) BY <1>0, <2>2 DEF PendingIsSent
    <3>2. PICK p \in pending[d] : p.call = q /\ q # "init" BY <3>1 DEF CallsOf
    <3>3. p \in pending'[d] BY <1>5, <2>2, <3>2
    <3> QED BY <3>2, <3>3 DEF CallsOf
  <2>3. ASSUME NEW t \in armed' PROVE [id |-> t.id, call |-> t.call] \in pending'[t.child]
    <3>1. t.child \in Children /\ t.call \in Calls BY <1>0 DEF TypeOK, Calls
    <3>2. t.call # "init" BY <3>1, CallsAssumption
    <3>3. [id |-> t.id, call |-> t.call] \in pending[t.child] BY <1>0 DEF PendingIsSent
    <3>4. [id |-> t.id, call |-> t.call].call = t.call OBVIOUS
    <3> QED BY <1>5, <3>1, <3>2, <3>3, <3>4
  <2> QED BY <2>1, <2>2, <2>3 DEF PendingIsSent
<1> QED BY <1>2, <1>3, <1>6 DEF Maps

\* Every step keeps the maps, the timers and the start in agreement.
LEMMA MapsStep ==
  ASSUME OwnReplyInv, Blank, Quiet, Waiting, Maps, [Next]_vars
  PROVE  Maps'
<1>0. TypeOK /\ Entries /\ PendingIsSent /\ OneStart BY DEF OwnReplyInv, Maps
<1>1. ASSUME UNCHANGED <<pending, armed, starting>>,
             \A q \in Calls : (status'[q] = "sent") <=> (status[q] = "sent")
      PROVE  Maps'
  <2>1. \A d \in Children : \A p \in pending[d] : p.call # "init" => p.call \in Calls
    BY <1>0 DEF TypeOK, Request
  <2>2. Entries' /\ OneStart' BY <1>0, <1>1 DEF Entries, OneStart
  <2>3. PendingIsSent' BY <1>0, <1>1, <2>1 DEF PendingIsSent, CallsOf
  <2> QED BY <2>2, <2>3 DEF Maps
<1>2. CASE Connect
  BY <1>2, StartMaps DEF Connect, Quiet
<1>3. ASSUME NEW q \in Calls, Begin(q) PROVE Maps'
  <2>0. status[q] = "idle" /\ LoopFree BY <1>3 DEF Begin
  <2>1. CASE BeginSend(q) BY <2>0, <2>1, CallMaps DEF BeginSend
  <2>2. CASE BeginWait(q)
    <3>1. status' = [status EXCEPT ![q] = "waiting"] BY <2>2 DEF BeginWait
    <3>2. \A p \in Calls : (status'[p] = "sent") <=> (status[p] = "sent")
      BY <1>0, <2>0, <3>1 DEF TypeOK
    <3> QED BY <1>1, <2>2, <3>2 DEF BeginWait
  <2>3. CASE BeginStart(q)
    <3>1. status' = [status EXCEPT ![q] = "waiting"] BY <2>3 DEF BeginStart
    <3>2. \A p \in Calls : (status'[p] = "sent") <=> (status[p] = "sent")
      BY <1>0, <2>0, <3>1 DEF TypeOK
    <3> QED BY <2>3, <3>2, StartMaps DEF BeginStart
  <2> QED BY <1>3, <2>1, <2>2, <2>3 DEF Begin
<1>4. CASE Resume
  <2>1. waiters # <<>> /\ Call(Head(waiters)) /\ starting' = starting
    BY <1>4 DEF Resume, LoopFree
  <2>2. Head(waiters) \in Calls /\ 1 \in DOMAIN waiters /\ Head(waiters) = waiters[1]
    BY <1>0, <2>1 DEF TypeOK
  <2>3. status[Head(waiters)] # "sent" BY <2>2 DEF Waiting
  <2> QED BY <2>1, <2>2, <2>3, CallMaps
<1>5. ASSUME NEW settled, StartFailed(settled), NEW q \in Calls
      PROVE  status'[q] = "sent" <=> settled[q] = "sent" /\ ~\E i \in DOMAIN waiters : waiters[i] = q
  BY <1>5 DEF StartFailed
<1>6. \A i \in DOMAIN waiters : status[waiters[i]] # "sent" BY DEF Waiting
<1>7. ASSUME NEW c \in Children, OnMessage(c) PROVE Maps'
  <2>1. PICK r : r = Head(outbox[c]) OBVIOUS
  <2>2. CASE Ignores BY <1>1, <2>2 DEF Ignores
  <2>3. ASSUME NEW p \in pending[c], NEW s \in {"ok", "error", "uninit"}, Answers(c, p, s) PROVE Maps'
    <3>1. p.call # "init" BY <2>3, CallsAssumption DEF Answers
    <3>2. CallsOf({p}) = {p.call} BY <3>1 DEF CallsOf
    <3>3. \A q \in Calls : (status'[q] = "sent") <=> (status[q] = "sent" /\ q \notin CallsOf({p}))
      BY <2>3, <3>2 DEF Answers
    <3> QED BY <2>3, <3>1, <3>2, <3>3, ForgetMaps DEF Answers
  <2>4. ASSUME NEW p \in pending[c], Starts(c, p) PROVE Maps'
    <3>1. CallsOf({p}) = {} BY <2>4 DEF CallsOf, Starts
    <3>2. \A q \in Calls : (status'[q] = "sent") <=> (status[q] = "sent")
      BY <1>5, <1>6, <2>4 DEF Starts
    <3> QED BY <2>4, <3>1, <3>2, ForgetMaps DEF Starts
  <2>5. r.outcome \in {"ok", "error", "uninit"} BY <1>0, <1>7, <2>1, MessageStep DEF Reply
  <2> QED BY <1>0, <1>7, <2>1, <2>2, <2>3, <2>4, <2>5, MessageStep
<1>8. ASSUME NEW c \in Children, OnExit(c) PROVE Maps'
  <2> DEFINE gone == pending[c]
             rejected == Settle(CallsOf(gone), "exited")
  <2>1. Exits(c) BY <1>0, <1>8, ExitStep
  <2>2. pending'[c] = pending[c] \ gone /\ Rest(c) /\ armed' \subseteq armed
        /\ \A t \in armed' : t.call \notin CallsOf(gone)
    BY <2>1 DEF Exits
  <2>3. \A q \in Calls : rejected[q] = IF q \in CallsOf(gone) THEN "exited" ELSE status[q]
    BY DEF Settle
  <2>4. CASE /\ starting # c /\ starting' = starting
             /\ \A q \in Calls : status'[q] = IF q \in CallsOf(gone) THEN "exited" ELSE status[q]
    <3>1. \A p \in gone : p.call # "init" BY <1>0, <2>4 DEF OneStart
    <3>2. \A q \in Calls : (status'[q] = "sent") <=> (status[q] = "sent" /\ q \notin CallsOf(gone))
      BY <2>4
    <3> QED BY <2>2, <2>4, <3>1, <3>2, ForgetMaps
  <2>5. CASE starting = c /\ StartFailed(rejected)
    <3>1. \E p \in gone : p.call = "init" BY <1>0, <2>5 DEF OneStart
    <3>2. \A q \in Calls : (status'[q] = "sent") <=> (status[q] = "sent" /\ q \notin CallsOf(gone))
      <4> HIDE DEF rejected, gone
      <4> QED BY <1>5, <1>6, <2>3, <2>5
    <3>3. starting' = NoChild BY <2>5 DEF StartFailed
    <3> QED BY <2>2, <3>1, <3>2, <3>3, ForgetMaps
  <2> QED BY <2>1, <2>4, <2>5 DEF Exits
<1>9. ASSUME NEW t \in armed, OnTimer(t) PROVE Maps'
  <2>1. Expires(t) /\ starting' = starting BY <1>0, <1>9, TimerStep DEF OnTimer
  <2>2. PICK e : e = [id |-> t.id, call |-> t.call] OBVIOUS
  <2>3. /\ t.child \in Children /\ t.call \in Calls /\ t.call # "init"
        /\ e \in pending[t.child] /\ e.call = t.call
        /\ t \in [id : Nat, call : Queries, child : Children]
    BY <1>0, <2>1, <2>2, CallsAssumption DEF PendingIsSent, TypeOK, Expires, Calls
  <2>4. CallsOf({e}) = {t.call} BY <2>3 DEF CallsOf
  <2>5. ASSUME NEW u \in armed, u.call = t.call PROVE u = t
    <3>1. u \in [id : Nat, call : Queries, child : Children] BY <1>0 DEF TypeOK
    <3>2. [id |-> u.id, call |-> u.call] \in pending[u.child] BY <1>0 DEF PendingIsSent
    <3>3. u.child = t.child BY <1>0, <2>2, <2>3, <2>5, <3>1, <3>2 DEF Entries
    <3>4. [id |-> u.id, call |-> u.call] = e
      BY <1>0, <2>2, <2>3, <2>5, <3>1, <3>2, <3>3 DEF Entries
    <3>5. u.id = t.id BY <2>2, <3>4
    <3> QED BY <2>3, <2>5, <3>1, <3>3, <3>5
  <2>6. \A u \in armed' : u.call \notin CallsOf({e}) BY <2>1, <2>4, <2>5 DEF Expires
  <2>7. \A q \in Calls : (status'[q] = "sent") <=> (status[q] = "sent" /\ q \notin CallsOf({e}))
    BY <2>1, <2>4 DEF Expires
  <2>8. /\ pending'[t.child] = pending[t.child] \ {e} /\ Rest(t.child) /\ armed' \subseteq armed
        /\ \A p \in {e} : p.call # "init"
    BY <2>1, <2>2, <2>3 DEF Expires
  <2> QED BY <2>1, <2>3, <2>6, <2>7, <2>8, ForgetMaps
<1>10. CASE Close BY <1>1, <1>10 DEF Close
<1>11. ASSUME NEW c \in Children, ChildStep(c) PROVE Maps'
  <2>1. UNCHANGED <<pending, armed, starting, status>>
    BY <1>11 DEF ChildStep, Receive, Load, Finish, Die, Crash, Disconnect, parentVars
  <2> QED BY <1>1, <2>1
<1>12. CASE UNCHANGED vars BY <1>1, <1>12 DEF vars
<1> QED BY <1>2, <1>3, <1>4, <1>7, <1>8, <1>9, <1>10, <1>11, <1>12 DEF Next

-----------------------------------------------------------------------------
(* What the children do with their requests.                               *)

Others(c) ==
  \A d \in Children \ {c} :
    /\ inbox'[d] = inbox[d] /\ outbox'[d] = outbox[d] /\ job'[d] = job[d]
    /\ adapter'[d] = adapter[d] /\ initId'[d] = initId[d]

\* A reply goes behind those on their way.
LEMMA SendStep ==
  ASSUME TypeOK, NEW c \in Children, NEW id, NEW o, Send(c, id, o)
  PROVE  /\ \A d \in Children \ {c} : outbox'[d] = outbox[d]
         /\ \A j \in DOMAIN outbox'[c] :
              outbox'[c][j].id = id \/ \E k \in DOMAIN outbox[c] : outbox'[c][j] = outbox[c][k]
<1>1. outbox'[c] = Append(outbox[c], [id |-> id, outcome |-> o])
      /\ \A d \in Children \ {c} : outbox'[d] = outbox[d]
  BY DEF Send, TypeOK
<1>2. outbox[c] \in Seq(Reply) BY DEF TypeOK
<1>3. ASSUME NEW j \in DOMAIN outbox'[c]
      PROVE outbox'[c][j].id = id \/ \E k \in DOMAIN outbox[c] : outbox'[c][j] = outbox[c][k]
  <2>1. j \in DOMAIN outbox[c] \/ j = Len(outbox[c]) + 1 BY <1>1, <1>2
  <2>2. CASE j \in DOMAIN outbox[c] BY <1>1, <1>2, <2>2
  <2>3. CASE j = Len(outbox[c]) + 1 BY <1>1, <1>2, <2>3
  <2> QED BY <2>1, <2>2, <2>3
<1> QED BY <1>1, <1>3

\* The head of the inbox is taken: it opens the adapter, runs, or is refused.
LEMMA ReceiveStep ==
  ASSUME TypeOK, NEW c \in Children, Receive(c), NEW r, r = Head(inbox[c])
  PROVE  /\ r \in Request /\ 1 \in DOMAIN inbox[c] /\ r = inbox[c][1] /\ job[c] = NoJob
         /\ Alive(c)
         /\ \A i \in DOMAIN inbox'[c] : /\ i + 1 \in DOMAIN inbox[c] /\ i + 1 # 1
                                        /\ inbox'[c][i] = inbox[c][i + 1]
         /\ \A i, j \in DOMAIN inbox'[c] : i + 1 = j + 1 => i = j
         /\ Others(c)
         /\ UNCHANGED <<nextId, pending, status, proc, done>>
         /\ \/ /\ r.call = "init" /\ adapter'[c] = "loading" /\ initId'[c] = r.id
               /\ job'[c] = NoJob /\ outbox' = outbox
            \/ /\ r.call \in Calls /\ adapter'[c] = "open" /\ job'[c] = r /\ outbox' = outbox
            \/ /\ r.call \in Calls /\ Send(c, r.id, "uninit") /\ job'[c] = NoJob
               /\ adapter'[c] = adapter[c] /\ initId'[c] = initId[c]
<1>1. /\ inbox[c] \in Seq(Request) /\ inbox[c] # <<>> /\ job[c] = NoJob /\ Alive(c)
      /\ inbox' = [inbox EXCEPT ![c] = Tail(inbox[c])]
      /\ UNCHANGED <<nextId, pending, status, proc, done>>
  BY DEF Receive, TypeOK, parentVars
<1>2. inbox'[c] = Tail(inbox[c]) /\ \A d \in Children \ {c} : inbox'[d] = inbox[d]
  BY <1>1 DEF TypeOK
<1>3. r \in Request /\ 1 \in DOMAIN inbox[c] /\ r = inbox[c][1]
  BY <1>1
<1>4. /\ \A i \in DOMAIN inbox'[c] : /\ i + 1 \in DOMAIN inbox[c] /\ i + 1 # 1
                                     /\ inbox'[c][i] = inbox[c][i + 1]
      /\ \A i, j \in DOMAIN inbox'[c] : i + 1 = j + 1 => i = j
  <2>1. Tail(inbox[c]) \in Seq(Request) /\ Len(Tail(inbox[c])) = Len(inbox[c]) - 1 BY <1>1
  <2>2. DOMAIN inbox'[c] = 1 .. Len(inbox[c]) - 1 BY <1>2, <2>1
  <2>3. Len(inbox[c]) \in Nat /\ DOMAIN inbox[c] = 1 .. Len(inbox[c]) BY <1>1
  <2>4. \A i \in 1 .. Len(inbox[c]) - 1 : i + 1 \in DOMAIN inbox[c] /\ i + 1 # 1 BY <2>3
  <2>5. \A i \in DOMAIN inbox'[c] : inbox'[c][i] = inbox[c][i + 1]
    BY <1>1, <1>2, <2>1, <2>2, <2>3
  <2>6. \A i, j \in DOMAIN inbox'[c] : i + 1 = j + 1 => i = j BY <2>2, <2>3
  <2> QED BY <2>2, <2>4, <2>5, <2>6
<1>5. r.call \in Calls \union {"init"} BY <1>3 DEF Request
<1>6. \A d \in Children \ {c} : /\ job'[d] = job[d] /\ adapter'[d] = adapter[d]
                                /\ initId'[d] = initId[d]
  BY DEF Receive, TypeOK
<1>7. \A d \in Children \ {c} : outbox'[d] = outbox[d]
  BY DEF Receive, Send, TypeOK
<1>8. Others(c) BY <1>2, <1>6, <1>7 DEF Others
<1>9. CASE /\ r.call = "init" /\ adapter' = [adapter EXCEPT ![c] = "loading"]
           /\ initId' = [initId EXCEPT ![c] = r.id] /\ UNCHANGED <<job, outbox>>
  <2>1. adapter'[c] = "loading" /\ initId'[c] = r.id BY <1>9 DEF TypeOK
  <2> QED BY <1>1, <1>3, <1>4, <1>8, <1>9, <2>1
<1>10. CASE /\ r.call # "init" /\ adapter[c] = "open" /\ job' = [job EXCEPT ![c] = r]
            /\ UNCHANGED <<adapter, initId, outbox>>
  <2>1. job'[c] = r BY <1>10 DEF TypeOK
  <2> QED BY <1>1, <1>3, <1>4, <1>5, <1>8, <1>10, <2>1
<1>11. CASE /\ r.call # "init" /\ Send(c, r.id, "uninit") /\ UNCHANGED <<adapter, initId, job>>
  BY <1>1, <1>3, <1>4, <1>5, <1>8, <1>11
<1> QED BY <1>9, <1>10, <1>11 DEF Receive

\* The statement of a child's job ends.
LEMMA FinishStep ==
  ASSUME TypeOK, NEW c \in Children, Finish(c)
  PROVE  /\ job[c] # NoJob /\ job[c].id \in Nat /\ job[c].call \in Calls /\ job'[c] = NoJob
         /\ Others(c)
         /\ UNCHANGED <<nextId, pending, status, proc, inbox, adapter, initId>>
         /\ \E o : Send(c, job[c].id, o)
         /\ done' = done \union {job[c].call} \/ done' = done
<1>1. job[c] # NoJob /\ job[c].id \in Nat /\ job[c].call \in Calls BY DEF Finish, TypeOK
<1>2. job'[c] = NoJob /\ \A d \in Children \ {c} : job'[d] = job[d] BY DEF Finish, TypeOK
<1>3. UNCHANGED <<nextId, pending, status, proc, inbox, adapter, initId>> BY DEF Finish, parentVars
<1>4. PICK o : Send(c, job[c].id, o) BY DEF Finish
<1>5. \A d \in Children \ {c} : outbox'[d] = outbox[d] BY <1>4, SendStep
<1> QED BY <1>1, <1>2, <1>3, <1>4, <1>5 DEF Others, Finish

-----------------------------------------------------------------------------
(* The places of an id in a child.                                         *)

\* A request that is sent is a new one, and an id moves on in the child: from
\* the inbox to the job or to the init, and from there to the outbox.
LEMMA ApartStep ==
  ASSUME OwnReplyInv, Blank, Quiet, Waiting, Entries, PendingIsSent, OneStart, Apart, [Next]_vars
  PROVE  Apart'
<1>0. TypeOK /\ FreshIds BY DEF OwnReplyInv
<1>1. ASSUME NEW d \in Children,
             /\ inbox'[d] = inbox[d] /\ job'[d] = job[d]
             /\ adapter'[d] = adapter[d] /\ initId'[d] = initId[d],
             \A j \in DOMAIN outbox'[d] : \E k \in DOMAIN outbox[d] : outbox'[d][j] = outbox[d][k]
      PROVE  ApartIn(d)'
  BY <1>1 DEF Apart, ApartIn
<1>2. ASSUME UNCHANGED <<inbox, job, adapter, initId, outbox>> PROVE Apart'
  BY <1>2 DEF Apart, ApartIn
<1>3. \A c \in Children : /\ \A i \in DOMAIN inbox[c] : inbox[c][i].id # nextId
                          /\ \A i \in DOMAIN outbox[c] : outbox[c][i].id # nextId
                          /\ job[c].id # nextId
                          /\ adapter[c] = "loading" => initId[c] # nextId
  <2>1. nextId \in Nat BY <1>0 DEF TypeOK
  <2>2. \A c \in Children : /\ \A i \in DOMAIN inbox[c] : inbox[c][i].id \in Nat
                            /\ \A i \in DOMAIN outbox[c] : outbox[c][i].id \in Nat
                            /\ job[c].id \in Int /\ initId[c] \in Nat
    <3> TAKE c \in Children
    <3>1. inbox[c] \in Seq(Request) /\ outbox[c] \in Seq(Reply) BY <1>0 DEF TypeOK
    <3>2. \A i \in DOMAIN inbox[c] : inbox[c][i] \in Request BY <3>1
    <3>3. \A i \in DOMAIN outbox[c] : outbox[c][i] \in Reply BY <3>1
    <3>4. job[c].id \in Int /\ initId[c] \in Nat BY <1>0 DEF TypeOK, NoJob
    <3> QED BY <3>2, <3>3, <3>4 DEF Request, Reply
  <2> QED BY <1>0, <2>1, <2>2 DEF FreshIds
<1>4. ASSUME Start, UNCHANGED <<outbox, adapter, initId, job>> PROVE Apart'
  <2>1. PICK c : c = forks + 1 OBVIOUS
  <2>2. /\ c \in Children /\ inbox'[c] = <<[id |-> nextId, call |-> "init"]>>
        /\ \A d \in Children \ {c} : inbox'[d] = inbox[d]
    BY <1>0, <1>4, <2>1, StartStep
  <2>3. job[c] = NoJob /\ adapter[c] = "absent" /\ outbox[c] = <<>>
    BY <1>0, <2>1, <2>2, BoundsAssumption DEF Blank, TypeOK
  <2>4. ApartIn(c)' BY <1>3, <1>4, <2>2, <2>3 DEF ApartIn
  <2>5. ASSUME NEW d \in Children \ {c} PROVE ApartIn(d)' BY <1>1, <1>4, <2>2
  <2> QED BY <2>4, <2>5 DEF Apart
<1>5. ASSUME NEW q \in Calls, Call(q), UNCHANGED <<outbox, adapter, initId, job>> PROVE Apart'
  <2>1. CASE UNCHANGED inbox BY <1>2, <1>5, <2>1
  <2>2. CASE Sends(q, child)
    <3>1. PICK c \in Children : c = child BY <2>2 DEF Sends
    <3>2. PICK r : r = [id |-> nextId, call |-> q] OBVIOUS
    <3>3. /\ inbox'[c] = Append(inbox[c], r) /\ r.id = nextId
          /\ \A d \in Children \ {c} : inbox'[d] = inbox[d]
      BY <2>2, <3>1, <3>2 DEF Sends
    <3>4. inbox[c] \in Seq(Request) BY <1>0 DEF TypeOK
    <3>5. PICK n \in Nat : n = Len(inbox[c]) BY <3>4
    <3>6. \A i \in DOMAIN inbox'[c] : \/ i \in DOMAIN inbox[c] /\ inbox'[c][i] = inbox[c][i]
                                      \/ i = n + 1 /\ inbox'[c][i] = r
      BY <3>3, <3>4, <3>5
    <3>7. ApartIn(c)' BY <1>3, <1>5, <3>3, <3>6 DEF Apart, ApartIn
    <3>8. ASSUME NEW d \in Children \ {c} PROVE ApartIn(d)' BY <1>1, <1>5, <3>3
    <3> QED BY <3>7, <3>8 DEF Apart
  <2> QED BY <1>0, <1>5, <2>1, <2>2, CallStep DEF Refuses, Breaks
<1>6. CASE Connect BY <1>4, <1>6 DEF Connect, Start
<1>7. ASSUME NEW q \in Calls, Begin(q) PROVE Apart'
  <2>1. CASE BeginSend(q) BY <1>5, <2>1 DEF BeginSend
  <2>2. CASE BeginWait(q) BY <1>2, <2>2 DEF BeginWait, childVars
  <2>3. CASE BeginStart(q) BY <1>4, <2>3 DEF BeginStart, Start
  <2> QED BY <1>7, <2>1, <2>2, <2>3 DEF Begin
<1>8. CASE Resume
  <2>1. Head(waiters) \in Calls BY <1>0, <1>8 DEF Resume, LoopFree, TypeOK
  <2> QED BY <1>5, <1>8, <2>1 DEF Resume
<1>9. ASSUME NEW c \in Children, OnMessage(c) PROVE Apart'
  <2>1. /\ outbox' = [outbox EXCEPT ![c] = Tail(outbox[c])] /\ outbox[c] # <<>>
        /\ UNCHANGED <<inbox, adapter, initId, job>>
    BY <1>9 DEF OnMessage
  <2>2. ASSUME NEW d \in Children, NEW j \in DOMAIN outbox'[d]
        PROVE \E k \in DOMAIN outbox[d] : outbox'[d][j] = outbox[d][k]
    <3>1. CASE d = c
      <4>1. outbox'[d] = Tail(outbox[d]) /\ outbox[d] \in Seq(Reply) /\ outbox[d] # <<>>
        BY <1>0, <2>1, <3>1 DEF TypeOK
      <4>2. j + 1 \in DOMAIN outbox[d] /\ outbox'[d][j] = outbox[d][j + 1] BY <4>1
      <4> QED BY <4>2
    <3>2. CASE d # c
      <4>1. outbox'[d] = outbox[d] BY <1>0, <2>1, <3>2 DEF TypeOK
      <4> QED BY <4>1
    <3> QED BY <3>1, <3>2
  <2> QED BY <1>1, <2>1, <2>2 DEF Apart
<1>10. ASSUME NEW c \in Children, Receive(c) PROVE Apart'
  <2>1. PICK r : r = Head(inbox[c]) OBVIOUS
  <2>2. /\ 1 \in DOMAIN inbox[c] /\ r = inbox[c][1] /\ job[c] = NoJob /\ Others(c)
        /\ \A i \in DOMAIN inbox'[c] : /\ i + 1 \in DOMAIN inbox[c] /\ i + 1 # 1
                                       /\ inbox'[c][i] = inbox[c][i + 1]
        /\ \A i, j \in DOMAIN inbox'[c] : i + 1 = j + 1 => i = j
    BY <1>0, <1>10, <2>1, ReceiveStep
  <2>3. /\ \A i \in DOMAIN inbox'[c] :
             /\ inbox'[c][i].id # r.id
             /\ inbox'[c][i].id # job[c].id
             /\ adapter[c] = "loading" => inbox'[c][i].id # initId[c]
             /\ \A j \in DOMAIN outbox[c] : outbox[c][j].id # inbox'[c][i].id
        /\ \A i, j \in DOMAIN inbox'[c] : inbox'[c][i].id = inbox'[c][j].id => i = j
    BY <2>2 DEF Apart, ApartIn
  <2>4. /\ r.id # job[c].id /\ (adapter[c] = "loading" => r.id # initId[c])
        /\ \A j \in DOMAIN outbox[c] : outbox[c][j].id # r.id
    BY <2>2 DEF Apart, ApartIn
  <2>5. /\ \A j \in DOMAIN outbox[c] : /\ outbox[c][j].id # job[c].id
                                       /\ adapter[c] = "loading" => outbox[c][j].id # initId[c]
        /\ adapter[c] = "loading" => initId[c] # job[c].id
    BY DEF Apart, ApartIn
  <2>6. ApartIn(c)'
    <3>1. CASE /\ adapter'[c] = "loading" /\ initId'[c] = r.id /\ job'[c] = NoJob
               /\ outbox' = outbox
      BY <2>2, <2>3, <2>4, <2>5, <3>1 DEF ApartIn
    <3>2. CASE adapter'[c] = "open" /\ job'[c] = r /\ outbox' = outbox
      BY <2>2, <2>3, <2>4, <2>5, <3>2 DEF ApartIn
    <3>3. CASE /\ Send(c, r.id, "uninit") /\ job'[c] = NoJob
               /\ adapter'[c] = adapter[c] /\ initId'[c] = initId[c]
      <4>1. \A j \in DOMAIN outbox'[c] :
              outbox'[c][j].id = r.id \/ \E k \in DOMAIN outbox[c] : outbox'[c][j] = outbox[c][k]
        BY <1>0, <3>3, SendStep
      <4>2. \A j \in DOMAIN outbox'[c] :
              /\ outbox'[c][j].id # job[c].id
              /\ adapter[c] = "loading" => outbox'[c][j].id # initId[c]
              /\ \A i \in DOMAIN inbox'[c] : outbox'[c][j].id # inbox'[c][i].id
        <5> TAKE j \in DOMAIN outbox'[c]
        <5>1. CASE outbox'[c][j].id = r.id BY <2>3, <2>4, <5>1
        <5>2. ASSUME NEW k \in DOMAIN outbox[c], outbox'[c][j] = outbox[c][k]
              PROVE  /\ outbox'[c][j].id # job[c].id
                     /\ adapter[c] = "loading" => outbox'[c][j].id # initId[c]
                     /\ \A i \in DOMAIN inbox'[c] : outbox'[c][j].id # inbox'[c][i].id
          BY <2>3, <2>5, <5>2
        <5> QED BY <4>1, <5>1, <5>2
      <4>3. job'[c] = job[c] BY <2>2, <3>3
      <4> QED BY <2>3, <2>5, <3>3, <4>2, <4>3 DEF ApartIn
    <3> QED BY <1>0, <1>10, <2>1, <3>1, <3>2, <3>3, ReceiveStep
  <2>7. ASSUME NEW d \in Children \ {c} PROVE ApartIn(d)' BY <1>1, <2>2 DEF Others
  <2> QED BY <2>6, <2>7 DEF Apart
<1>11. ASSUME NEW c \in Children, Load(c) PROVE Apart'
  <2>1. PICK o : Send(c, initId[c], o) BY <1>11 DEF Load
  <2>2. /\ \A d \in Children \ {c} : outbox'[d] = outbox[d]
        /\ \A j \in DOMAIN outbox'[c] : \/ outbox'[c][j].id = initId[c]
                                        \/ \E k \in DOMAIN outbox[c] : outbox'[c][j] = outbox[c][k]
    BY <1>0, <2>1, SendStep
  <2>3. /\ UNCHANGED <<inbox, initId, job>> /\ adapter[c] = "loading" /\ adapter'[c] # "loading"
        /\ \A d \in Children \ {c} : adapter'[d] = adapter[d]
    BY <1>0, <1>11 DEF Load, TypeOK
  <2>4. ApartIn(c)' BY <2>2, <2>3 DEF Apart, ApartIn
  <2>5. ASSUME NEW d \in Children \ {c} PROVE ApartIn(d)' BY <1>1, <2>2, <2>3
  <2> QED BY <2>4, <2>5 DEF Apart
<1>12. ASSUME NEW c \in Children, Finish(c) PROVE Apart'
  <2>1. /\ job[c] # NoJob /\ job[c].id \in Nat /\ job'[c] = NoJob /\ Others(c)
        /\ UNCHANGED <<inbox, adapter, initId>>
    BY <1>0, <1>12, FinishStep
  <2>2. PICK o : Send(c, job[c].id, o) BY <1>0, <1>12, FinishStep
  <2>3. \A j \in DOMAIN outbox'[c] : \/ outbox'[c][j].id = job[c].id
                                     \/ \E k \in DOMAIN outbox[c] : outbox'[c][j] = outbox[c][k]
    BY <1>0, <2>2, SendStep
  <2>4. /\ \A i \in DOMAIN inbox[c] : inbox[c][i].id \in Nat
        /\ \A k \in DOMAIN outbox[c] : outbox[c][k].id \in Nat
        /\ initId[c] \in Nat
    <3>1. inbox[c] \in Seq(Request) /\ outbox[c] \in Seq(Reply) /\ initId[c] \in Nat
      BY <1>0 DEF TypeOK
    <3>2. \A i \in DOMAIN inbox[c] : inbox[c][i] \in Request BY <3>1
    <3>3. \A i \in DOMAIN outbox[c] : outbox[c][i] \in Reply BY <3>1
    <3> QED BY <3>1, <3>2, <3>3 DEF Request, Reply
  <2>5. job'[c].id = -1 BY <2>1 DEF NoJob
  <2>6. ApartIn(c)' BY <2>1, <2>3, <2>4, <2>5 DEF Apart, ApartIn
  <2>7. ASSUME NEW d \in Children \ {c} PROVE ApartIn(d)' BY <1>1, <2>1 DEF Others
  <2> QED BY <2>6, <2>7 DEF Apart
<1>13. CASE \/ \E c \in Children : OnExit(c) \/ Die(c) \/ Crash(c) \/ Disconnect(c)
            \/ \E t \in armed : OnTimer(t)
            \/ Close
            \/ UNCHANGED vars
  BY <1>2, <1>13 DEF OnExit, Die, Crash, Disconnect, OnTimer, Close, vars
<1> QED BY <1>6, <1>7, <1>8, <1>9, <1>10, <1>11, <1>12, <1>13 DEF Next, ChildStep

-----------------------------------------------------------------------------
(* What a running process works on is pending.                             *)

\* A kill starts nothing.
LEMMA KilledStep ==
  ASSUME TypeOK, NEW c
  PROVE  \A d \in Children : Killed(c)[d] = "running" => proc[d] = "running"
BY DEF Killed, TypeOK

\* Entries leave the maps when they are answered, and are then nowhere in the
\* child, or when their child is not running any more.
LEMMA WorksStep ==
  ASSUME OwnReplyInv, Blank, Quiet, Waiting, Entries, PendingIsSent, OneStart, Apart, Works,
         [Next]_vars
  PROVE  Works'
<1>0. TypeOK BY DEF OwnReplyInv
<1>1. ASSUME UNCHANGED <<inbox, job>>,
             \A d \in Children : proc'[d] = "running" =>
               /\ proc[d] = "running"
               /\ \A p \in pending[d] :
                    p \in pending'[d] \/ \E k \in DOMAIN outbox[d] : p.id = outbox[d][k].id
      PROVE  Works'
  <2> SUFFICES ASSUME NEW d \in Children, proc'[d] = "running"
               PROVE  /\ \A i \in DOMAIN inbox[d] :
                           inbox[d][i].call # "init" => inbox[d][i] \in pending'[d]
                      /\ job[d] # NoJob => job[d] \in pending'[d]
    BY <1>1 DEF Works, WorksIn
  <2>1. WorksIn(d) /\ ApartIn(d) BY DEF Works, Apart
  <2>2. ASSUME NEW i \in DOMAIN inbox[d], inbox[d][i].call # "init" PROVE inbox[d][i] \in pending'[d]
    <3>1. inbox[d][i] \in pending[d] BY <1>1, <2>1, <2>2 DEF WorksIn
    <3>2. \A k \in DOMAIN outbox[d] : inbox[d][i].id # outbox[d][k].id BY <2>1 DEF ApartIn
    <3> QED BY <1>1, <3>1, <3>2
  <2>3. ASSUME job[d] # NoJob PROVE job[d] \in pending'[d]
    <3>1. job[d] \in pending[d] BY <1>1, <2>1, <2>3 DEF WorksIn
    <3>2. \A k \in DOMAIN outbox[d] : job[d].id # outbox[d][k].id BY <2>1 DEF ApartIn
    <3> QED BY <1>1, <3>1, <3>2
  <2> QED BY <2>2, <2>3
<1>2. ASSUME Start, UNCHANGED <<job>> PROVE Works'
  <2>1. PICK c : c = forks + 1 OBVIOUS
  <2>2. /\ c \in Children /\ inbox'[c] = <<[id |-> nextId, call |-> "init"]>> /\ Rest(c)
        /\ \A d \in Children \ {c} : inbox'[d] = inbox[d] /\ proc'[d] = proc[d]
    BY <1>0, <1>2, <2>1, StartStep
  <2>3. job[c] = NoJob
    BY <1>0, <2>1, <2>2, BoundsAssumption DEF Blank, TypeOK
  <2>4. WorksIn(c)' BY <1>2, <2>2, <2>3 DEF WorksIn
  <2>5. ASSUME NEW d \in Children \ {c} PROVE WorksIn(d)'
    BY <1>2, <2>2 DEF Works, WorksIn, Rest
  <2> QED BY <2>4, <2>5 DEF Works
<1>3. ASSUME NEW q \in Calls, Call(q), UNCHANGED <<job, proc>> PROVE Works'
  <2>1. CASE UNCHANGED <<inbox, pending>> BY <1>3, <2>1 DEF Works, WorksIn
  <2>2. CASE Sends(q, child)
    <3>1. PICK c \in Children : c = child BY <2>2 DEF Sends
    <3>2. PICK r : r = [id |-> nextId, call |-> q] OBVIOUS
    <3>3. /\ inbox'[c] = Append(inbox[c], r) /\ pending'[c] = pending[c] \union {r} /\ Rest(c)
          /\ \A d \in Children \ {c} : inbox'[d] = inbox[d]
      BY <2>2, <3>1, <3>2 DEF Sends
    <3>4. inbox[c] \in Seq(Request) BY <1>0 DEF TypeOK
    <3>5. \A i \in DOMAIN inbox'[c] : \/ i \in DOMAIN inbox[c] /\ inbox'[c][i] = inbox[c][i]
                                      \/ inbox'[c][i] = r
      BY <3>3, <3>4
    <3>6. WorksIn(c)' BY <1>3, <3>3, <3>5 DEF Works, WorksIn
    <3>7. ASSUME NEW d \in Children \ {c} PROVE WorksIn(d)'
      BY <1>3, <3>3 DEF Works, WorksIn, Rest
    <3> QED BY <3>6, <3>7 DEF Works
  <2> QED BY <1>0, <1>3, <2>1, <2>2, CallStep DEF Refuses, Breaks
<1>4. CASE Connect BY <1>2, <1>4 DEF Connect, Start
<1>5. ASSUME NEW q \in Calls, Begin(q) PROVE Works'
  <2>1. CASE BeginSend(q) BY <1>3, <2>1 DEF BeginSend
  <2>2. CASE BeginWait(q) BY <1>1, <2>2 DEF BeginWait, childVars
  <2>3. CASE BeginStart(q) BY <1>2, <2>3 DEF BeginStart, Start
  <2> QED BY <1>5, <2>1, <2>2, <2>3 DEF Begin
<1>6. CASE Resume
  <2>1. Head(waiters) \in Calls BY <1>0, <1>6 DEF Resume, LoopFree, TypeOK
  <2> QED BY <1>3, <1>6, <2>1 DEF Resume
<1>7. ASSUME NEW c \in Children, OnMessage(c) PROVE Works'
  <2>1. PICK r : r = Head(outbox[c]) OBVIOUS
  <2>2. 1 \in DOMAIN outbox[c] /\ r = outbox[c][1] /\ UNCHANGED <<inbox, job>>
    BY <1>0, <1>7, <2>1, MessageStep DEF OnMessage
  <2>3. CASE Ignores BY <1>1, <2>2, <2>3 DEF Ignores
  <2>4. ASSUME NEW p \in pending[c], p.id = r.id, pending'[c] = pending[c] \ {p}, Rest(c),
               \A d \in Children : proc'[d] = "running" => proc[d] = "running"
        PROVE  Works'
    <3>1. \A d \in Children : \A e \in pending[d] : e \in pending'[d] \/ (d = c /\ e = p)
      BY <2>4 DEF Rest
    <3> QED BY <1>1, <2>2, <2>4, <3>1
  <2>5. ASSUME NEW p \in pending[c], p.id = r.id, NEW s, Answers(c, p, s) PROVE Works'
    BY <2>4, <2>5 DEF Answers
  <2>6. ASSUME NEW p \in pending[c], p.id = r.id, Starts(c, p) PROVE Works'
    <3>1. \A d \in Children : proc'[d] = "running" => proc[d] = "running"
      BY <1>0, <2>6, KilledStep DEF Starts
    <3> QED BY <2>4, <2>6, <3>1 DEF Starts
  <2> QED BY <1>0, <1>7, <2>1, <2>3, <2>5, <2>6, MessageStep
<1>8. ASSUME NEW c \in Children, OnExit(c) PROVE Works'
  <2>1. Exits(c) /\ UNCHANGED <<inbox, job>> BY <1>0, <1>8, ExitStep DEF OnExit
  <2>2. ASSUME NEW d \in Children, proc'[d] = "running"
        PROVE  proc[d] = "running" /\ pending'[d] = pending[d]
    BY <2>1, <2>2 DEF Exits, Rest
  <2> QED BY <1>1, <2>1, <2>2
<1>9. ASSUME NEW t \in armed, OnTimer(t) PROVE Works'
  <2>1. Expires(t) /\ UNCHANGED <<inbox, job>> BY <1>0, <1>9, TimerStep DEF OnTimer
  <2>2. ASSUME NEW d \in Children, proc'[d] = "running"
        PROVE  proc[d] = "running" /\ pending'[d] = pending[d]
    BY <2>1, <2>2 DEF Expires, Rest
  <2> QED BY <1>1, <2>1, <2>2
<1>10. CASE Close
  <2>1. \A d \in Children : proc'[d] = "running" => proc[d] = "running"
    BY <1>0, <1>10, KilledStep DEF Close
  <2> QED BY <1>1, <1>10, <2>1 DEF Close
<1>11. ASSUME NEW c \in Children, Receive(c) PROVE Works'
  <2>1. PICK r : r = Head(inbox[c]) OBVIOUS
  <2>2. /\ r = inbox[c][1] /\ 1 \in DOMAIN inbox[c] /\ Others(c) /\ UNCHANGED <<proc, pending>>
        /\ \A i \in DOMAIN inbox'[c] : i + 1 \in DOMAIN inbox[c] /\ inbox'[c][i] = inbox[c][i + 1]
        /\ job'[c] = NoJob \/ (job'[c] = r /\ r.call \in Calls)
    BY <1>0, <1>11, <2>1, ReceiveStep
  <2>3. r.call \in Calls => r.call # "init" BY CallsAssumption
  <2>4. WorksIn(c)' BY <2>2, <2>3 DEF Works, WorksIn
  <2>5. ASSUME NEW d \in Children \ {c} PROVE WorksIn(d)'
    BY <2>2 DEF Works, WorksIn, Others
  <2> QED BY <2>4, <2>5 DEF Works
<1>12. ASSUME NEW c \in Children, Finish(c) PROVE Works'
  <2>1. job'[c] = NoJob /\ Others(c) /\ UNCHANGED <<proc, pending, inbox>>
    BY <1>0, <1>12, FinishStep
  <2>2. WorksIn(c)' BY <2>1 DEF Works, WorksIn
  <2>3. ASSUME NEW d \in Children \ {c} PROVE WorksIn(d)'
    BY <2>1 DEF Works, WorksIn, Others
  <2> QED BY <2>2, <2>3 DEF Works
<1>13. ASSUME NEW c \in Children, Load(c) PROVE Works'
  BY <1>1, <1>13 DEF Load, parentVars
<1>14. ASSUME NEW c \in Children, Die(c) \/ Crash(c) \/ Disconnect(c) PROVE Works'
  <2>1. proc' = [proc EXCEPT ![c] = "gone"] /\ UNCHANGED <<inbox, job, pending>>
    BY <1>14 DEF Die, Crash, Disconnect, parentVars
  <2>2. \A d \in Children : proc'[d] = "running" => proc[d] = "running"
    BY <1>0, <2>1 DEF TypeOK
  <2> QED BY <1>1, <2>1, <2>2
<1>15. CASE UNCHANGED vars BY <1>1, <1>15 DEF vars
<1> QED
  BY <1>4, <1>5, <1>6, <1>7, <1>8, <1>9, <1>10, <1>11, <1>12, <1>13, <1>14, <1>15
  DEF Next, ChildStep

-----------------------------------------------------------------------------
(* A call is sent once, and its statement performed once.                  *)

\* A call that was sent, or answered, is not fresh again.
LEMMA NotFreshAgain ==
  ASSUME OwnReplyInv, Waiting, Entries, PendingIsSent, OneStart, [Next]_vars
  PROVE  \A q \in Calls : ~Fresh(q) => ~Fresh(q)'
<1>0. TypeOK BY DEF OwnReplyInv
<1>1. CASE UNCHANGED status BY <1>1 DEF Fresh
<1>2. ASSUME NEW settled, StartFailed(settled),
             \A q \in Calls : settled[q] \in {status[q], "exited"}
      PROVE  \A q \in Calls : ~Fresh(q) => ~Fresh(q)'
  BY <1>2, FailedStep DEF Fresh
<1>3. ASSUME NEW q \in Calls, Begin(q) PROVE \A p \in Calls : ~Fresh(p) => ~Fresh(p)'
  <2>0. Fresh(q) BY <1>3 DEF Begin, Fresh
  <2>1. \A p \in Calls \ {q} : status'[p] = status[p]
    BY <1>0, <1>3, CallStep DEF Begin, BeginSend, BeginWait, BeginStart, TypeOK
  <2> QED BY <2>0, <2>1 DEF Fresh
<1>4. CASE Resume
  <2>1. waiters # <<>> /\ Call(Head(waiters)) BY <1>4 DEF Resume, LoopFree
  <2>2. PICK q \in Calls : q = Head(waiters) /\ q = waiters[1] /\ 1 \in DOMAIN waiters
    BY <1>0, <2>1 DEF TypeOK
  <2>3. Fresh(q) BY <2>2 DEF Waiting, Fresh
  <2>4. \A p \in Calls \ {q} : status'[p] = status[p] BY <1>0, <2>1, <2>2, CallStep
  <2> QED BY <2>3, <2>4 DEF Fresh
<1>5. ASSUME NEW c \in Children, OnMessage(c) PROVE \A q \in Calls : ~Fresh(q) => ~Fresh(q)'
  <2>1. PICK r : r = Head(outbox[c]) OBVIOUS
  <2>2. CASE Ignores BY <1>1, <2>2 DEF Ignores
  <2>3. ASSUME NEW p \in pending[c], NEW s \in {"ok", "error", "uninit"}, Answers(c, p, s)
        PROVE  \A q \in Calls : ~Fresh(q) => ~Fresh(q)'
    BY <2>3 DEF Answers, Fresh
  <2>4. ASSUME NEW p \in pending[c], Starts(c, p)
        PROVE  \A q \in Calls : ~Fresh(q) => ~Fresh(q)'
    BY <1>1, <1>2, <2>4 DEF Starts
  <2>5. r.outcome \in {"ok", "error", "uninit"} BY <1>0, <1>5, <2>1, MessageStep DEF Reply
  <2> QED BY <1>0, <1>5, <2>1, <2>2, <2>3, <2>4, <2>5, MessageStep
<1>6. ASSUME NEW c \in Children, OnExit(c) PROVE \A q \in Calls : ~Fresh(q) => ~Fresh(q)'
  <2>1. Exits(c) BY <1>0, <1>6, ExitStep
  <2>2. CASE \A q \in Calls : status'[q] = IF q \in CallsOf(pending[c]) THEN "exited" ELSE status[q]
    BY <2>2 DEF Fresh
  <2>3. CASE StartFailed(Settle(CallsOf(pending[c]), "exited"))
    BY <1>2, <2>3 DEF Settle
  <2> QED BY <2>1, <2>2, <2>3 DEF Exits
<1>7. ASSUME NEW t \in armed, OnTimer(t) PROVE \A q \in Calls : ~Fresh(q) => ~Fresh(q)'
  BY <1>0, <1>7, TimerStep DEF Expires, Fresh
<1>8. ASSUME Connect \/ Close \/ (\E c \in Children : ChildStep(c)) \/ UNCHANGED vars
      PROVE  UNCHANGED status
  BY <1>8 DEF Connect, Close, ChildStep, Receive, Load, Finish, Die, Crash, Disconnect,
              parentVars, vars
<1> QED BY <1>1, <1>3, <1>4, <1>5, <1>6, <1>7, <1>8 DEF Next

LEMMA OnceStep ==
  ASSUME OwnReplyInv, Blank, Quiet, Waiting, Entries, PendingIsSent, OneStart, Once, [Next]_vars
  PROVE  Once'
<1>0. TypeOK BY DEF OwnReplyInv
<1>f. \A q \in Calls : ~Fresh(q) => ~Fresh(q)' BY NotFreshAgain
<1>t. \A c \in Children :
        /\ \A i \in DOMAIN inbox[c] : inbox[c][i].call \in Calls \union {"init"}
        /\ job[c] # NoJob => job[c].call \in Calls
  <2>1. \A c \in Children : inbox[c] \in Seq(Request) BY <1>0 DEF TypeOK
  <2>2. \A c \in Children : \A i \in DOMAIN inbox[c] : inbox[c][i] \in Request BY <2>1
  <2> QED BY <1>0, <2>2 DEF TypeOK, Request
<1>n. "none" \notin Calls /\ "init" \notin Calls /\ NoJob.call = "none"
  BY CallsAssumption DEF NoJob
<1>d. done \subseteq Calls BY <1>0 DEF TypeOK
<1>1. ASSUME UNCHANGED <<inbox, job, done>> PROVE Once'
  BY <1>1, <1>f, <1>t, <1>d DEF Once
<1>2. ASSUME Start, UNCHANGED <<job, done>> PROVE Once'
  <2>1. PICK c : c = forks + 1 OBVIOUS
  <2>2. PICK r : r = [id |-> nextId, call |-> "init"] OBVIOUS
  <2>3. /\ c \in Children /\ inbox'[c] = <<r>> /\ r.call = "init"
        /\ \A d \in Children \ {c} : inbox'[d] = inbox[d]
    BY <1>0, <1>2, <2>1, <2>2, StartStep
  <2>4. \A d \in Children : \A i \in DOMAIN inbox'[d] :
          \/ inbox'[d][i].call = "init"
          \/ d # c /\ i \in DOMAIN inbox[d] /\ inbox'[d][i] = inbox[d][i]
    BY <2>3
  <2>5. \A d \in Children : job[d].call # "init" BY <1>t, <1>n
  <2> QED BY <1>2, <1>f, <1>t, <1>d, <2>4, <2>5 DEF Once
<1>3. ASSUME NEW q \in Calls, Call(q), Fresh(q), UNCHANGED <<job, done>> PROVE Once'
  <2>1. CASE UNCHANGED inbox BY <1>1, <1>3, <2>1
  <2>2. CASE Sends(q, child)
    <3>1. PICK c \in Children : c = child BY <2>2 DEF Sends
    <3>2. PICK r : r = [id |-> nextId, call |-> q] OBVIOUS
    <3>3. /\ inbox'[c] = Append(inbox[c], r) /\ r.call = q /\ ~Fresh(q)'
          /\ \A d \in Children \ {c} : inbox'[d] = inbox[d]
      BY <2>2, <3>1, <3>2 DEF Sends, Fresh
    <3>4. inbox[c] \in Seq(Request) BY <1>0 DEF TypeOK
    <3>5. PICK n \in Nat : n = Len(inbox[c]) BY <3>4
    <3>6. \A d \in Children : \A i \in DOMAIN inbox'[d] :
            \/ i \in DOMAIN inbox[d] /\ inbox'[d][i] = inbox[d][i]
            \/ d = c /\ i = n + 1 /\ inbox'[d][i] = r
      <4>1. PICK s \in Seq(Request) : s = inbox[c] BY <3>4
      <4>2. PICK t : t = Append(s, r) OBVIOUS
      <4>3. \A i \in DOMAIN t : (i \in DOMAIN s /\ t[i] = s[i]) \/ (i = Len(s) + 1 /\ t[i] = r)
        BY <4>1, <4>2
      <4>4. inbox'[c] = t /\ n = Len(s) BY <3>3, <3>5, <4>1, <4>2
      <4> QED BY <3>3, <4>1, <4>3, <4>4
    <3>7. /\ \A d \in Children : \A i \in DOMAIN inbox[d] : inbox[d][i].call # q
          /\ \A d \in Children : job[d].call # q
          /\ q \notin done
      BY <1>3, <1>n DEF Once
    <3>8. \A d \in Children : \A i \in DOMAIN inbox'[d] :
            inbox'[d][i].call # "init" =>
              status'[inbox'[d][i].call] \notin {"idle", "waiting"} /\ inbox'[d][i].call \notin done'
      BY <1>3, <1>f, <1>t, <3>3, <3>6, <3>7 DEF Once, Fresh
    <3>9. \A d, e \in Children : \A i \in DOMAIN inbox'[d], j \in DOMAIN inbox'[e] :
            inbox'[d][i].call = inbox'[e][j].call /\ inbox'[d][i].call # "init" => d = e /\ i = j
      BY <3>3, <3>6, <3>7 DEF Once
    <3>10. \A d, e \in Children : \A i \in DOMAIN inbox'[d] : inbox'[d][i].call # job'[e].call
      BY <1>3, <3>3, <3>6, <3>7 DEF Once
    <3> QED BY <1>3, <1>f, <1>t, <1>d, <3>7, <3>3, <3>8, <3>9, <3>10 DEF Once, Fresh
  <2> QED BY <1>0, <1>3, <2>1, <2>2, CallStep DEF Refuses, Breaks
<1>4. CASE Connect BY <1>2, <1>4 DEF Connect, Start
<1>5. ASSUME NEW q \in Calls, Begin(q) PROVE Once'
  <2>0. Fresh(q) BY <1>5 DEF Begin, Fresh
  <2>1. CASE BeginSend(q) BY <1>3, <2>0, <2>1 DEF BeginSend
  <2>2. CASE BeginWait(q) BY <1>1, <2>2 DEF BeginWait, childVars
  <2>3. CASE BeginStart(q) BY <1>2, <2>3 DEF BeginStart, Start
  <2> QED BY <1>5, <2>1, <2>2, <2>3 DEF Begin
<1>6. CASE Resume
  <2>1. waiters # <<>> /\ Call(Head(waiters)) /\ UNCHANGED <<job, done>>
    BY <1>6 DEF Resume, LoopFree
  <2>2. PICK q \in Calls : q = Head(waiters) /\ q = waiters[1] /\ 1 \in DOMAIN waiters
    BY <1>0, <2>1 DEF TypeOK
  <2>3. Fresh(q) BY <2>2 DEF Waiting, Fresh
  <2> QED BY <1>3, <2>1, <2>2, <2>3
<1>7. ASSUME NEW c \in Children, Receive(c) PROVE Once'
  <2>1. PICK r : r = Head(inbox[c]) OBVIOUS
  <2>2. /\ r = inbox[c][1] /\ 1 \in DOMAIN inbox[c] /\ Others(c) /\ UNCHANGED done
        /\ job[c] = NoJob
        /\ \A i \in DOMAIN inbox'[c] : /\ i + 1 \in DOMAIN inbox[c] /\ i + 1 # 1
                                       /\ inbox'[c][i] = inbox[c][i + 1]
        /\ \A i, j \in DOMAIN inbox'[c] : i + 1 = j + 1 => i = j
        /\ job'[c] = NoJob \/ (job'[c] = r /\ r.call \in Calls)
    BY <1>0, <1>7, <2>1, ReceiveStep
  <2>3. \A d \in Children : \A i \in DOMAIN inbox'[d] :
          \E k \in DOMAIN inbox[d] : /\ inbox'[d][i] = inbox[d][k]
                                     /\ d = c => k = i + 1 /\ k # 1
                                     /\ d # c => k = i
    BY <2>2 DEF Others
  <2>4. \A d \in Children : job'[d] = job[d] \/ (d = c /\ job'[d] = r /\ r.call \in Calls)
    BY <2>2 DEF Others
  <2>5. \A d, e \in Children : \A i \in DOMAIN inbox'[d], j \in DOMAIN inbox'[e] :
          inbox'[d][i].call = inbox'[e][j].call /\ inbox'[d][i].call # "init" => d = e /\ i = j
    BY <2>2, <2>3 DEF Once
  <2>6. \A d \in Children : \A i \in DOMAIN inbox'[d] :
          r.call \in Calls => inbox'[d][i].call # r.call
    BY <1>n, <2>2, <2>3 DEF Once
  <2>7. \A d, e \in Children : \A i \in DOMAIN inbox'[d] : inbox'[d][i].call # job'[e].call
    BY <2>3, <2>4, <2>6 DEF Once
  <2>8. \A d, e \in Children : job'[d].call = job'[e].call /\ job'[d] # NoJob => d = e
    BY <1>n, <1>t, <2>2, <2>4 DEF Once
  <2>9. \A d \in Children : \A i \in DOMAIN inbox'[d] : inbox'[d][i].call # "init" =>
          status'[inbox'[d][i].call] \notin {"idle", "waiting"} /\ inbox'[d][i].call \notin done'
    BY <1>f, <1>t, <2>2, <2>3 DEF Once, Fresh
  <2>10. \A d \in Children : job'[d] # NoJob => status'[job'[d].call] \notin {"idle", "waiting"} /\ job'[d].call \notin done'
    BY <1>f, <1>t, <1>n, <2>2, <2>4 DEF Once, Fresh
  <2> QED BY <1>f, <1>d, <2>2, <2>5, <2>7, <2>8, <2>9, <2>10 DEF Once, Fresh
<1>8. ASSUME NEW c \in Children, Finish(c) PROVE Once'
  <2>1. /\ job[c] # NoJob /\ job[c].call \in Calls /\ job'[c] = NoJob /\ Others(c)
        /\ UNCHANGED inbox
        /\ done' = done \union {job[c].call} \/ done' = done
    BY <1>0, <1>8, FinishStep
  <2>2. \A d \in Children : \/ d # c /\ job'[d] = job[d]
                            \/ d = c /\ job'[d] = NoJob
    BY <2>1 DEF Others
  <2>3. \A d, e \in Children : \A i \in DOMAIN inbox'[d] : inbox'[d][i].call # job'[e].call
    BY <1>t, <1>n, <2>1, <2>2 DEF Once
  <2>4. \A d, e \in Children : job'[d].call = job'[e].call /\ job'[d] # NoJob => d = e
    BY <1>t, <1>n, <2>2 DEF Once
  <2>5. \A d \in Children : \A i \in DOMAIN inbox'[d] : inbox'[d][i].call # "init" =>
          status'[inbox'[d][i].call] \notin {"idle", "waiting"} /\ inbox'[d][i].call \notin done'
    BY <1>f, <1>t, <2>1 DEF Once, Fresh
  <2>6. \A d \in Children : job'[d] # NoJob => status'[job'[d].call] \notin {"idle", "waiting"} /\ job'[d].call \notin done'
    BY <1>f, <1>t, <2>1, <2>2 DEF Once, Fresh
  <2>7. \A q \in done' : ~Fresh(q)' BY <1>f, <1>d, <2>1 DEF Once
  <2>8. \A d, e \in Children : \A i \in DOMAIN inbox'[d], j \in DOMAIN inbox'[e] :
          inbox'[d][i].call = inbox'[e][j].call /\ inbox'[d][i].call # "init" => d = e /\ i = j
    BY <2>1 DEF Once
  <2> QED BY <2>3, <2>4, <2>5, <2>6, <2>7, <2>8 DEF Once, Fresh
<1>9. CASE \/ \E c \in Children : \/ OnMessage(c) \/ OnExit(c)
                                  \/ Load(c) \/ Die(c) \/ Crash(c) \/ Disconnect(c)
           \/ \E t \in armed : OnTimer(t)
           \/ Close
           \/ UNCHANGED vars
  BY <1>1, <1>9 DEF OnMessage, OnExit, Load, Die, Crash, Disconnect, OnTimer, Close, vars
<1> QED BY <1>4, <1>5, <1>6, <1>7, <1>8, <1>9 DEF Next, ChildStep

-----------------------------------------------------------------------------
(* The invariant, and the properties that follow from it.                  *)

LEMMA ServiceInvariance == Spec => []ServiceInv
<1>1. Init /\ OwnReplyInv => ServiceInv
  <2> SUFFICES ASSUME Init, OwnReplyInv PROVE ServiceInv OBVIOUS
  <2>1. Blank BY BoundsAssumption DEF Init, Blank, Children, NoChild
  <2>7. Quiet /\ Waiting BY DEF Init, Quiet, Waiting
  <2>2. Entries /\ PendingIsSent /\ OneStart
    BY DEF Init, Entries, PendingIsSent, OneStart, Children, NoChild
  <2>3. Apart BY DEF Init, Apart, ApartIn
  <2>4. Works BY DEF Init, Works, WorksIn
  <2>5. Once BY CallsAssumption DEF Init, Once, NoJob
  <2> QED BY <2>1, <2>2, <2>3, <2>4, <2>5, <2>7 DEF ServiceInv
<1>2. ServiceInv /\ [Next]_vars /\ OwnReplyInv' => ServiceInv'
  <2> SUFFICES ASSUME ServiceInv, [Next]_vars, OwnReplyInv' PROVE ServiceInv' OBVIOUS
  <2> USE DEF ServiceInv
  <2>1. Blank' BY BlankStep
  <2>2. Quiet' /\ Waiting' BY QuietStep
  <2>3. Entries' /\ PendingIsSent' /\ OneStart' BY MapsStep DEF Maps
  <2>4. Apart' BY ApartStep
  <2>5. Works' BY WorksStep
  <2>6. Once' BY OnceStep
  <2> QED BY <2>1, <2>2, <2>3, <2>4, <2>5, <2>6
<1> QED BY <1>1, <1>2, OwnReplyInvariance, PTL DEF Spec

\* Bookkeeping: the maps, the timers and the processes of all children agree
\* on who waits for what, however starts, replies, timeouts and exits
\* interleave (ready, start and call in isolate.ts).
THEOREM BookkeepingHolds == Spec => []Bookkeeping
<1>1. ServiceInv => Bookkeeping
  <2> SUFFICES ASSUME ServiceInv PROVE Bookkeeping OBVIOUS
  <2>1. PendingIsSent /\ OneStart /\ Works BY DEF ServiceInv
  <2>2. \A c \in Children : \A p \in pending[c] : p.call \in Calls => status[p.call] = "sent"
    BY <2>1, CallsAssumption DEF PendingIsSent
  <2>3. NoRunaway
    <3> SUFFICES ASSUME NEW c \in Children, proc[c] = "running",
                        NEW r \in {job[c]} \union {inbox[c][i] : i \in DOMAIN inbox[c]},
                        r.call \in Calls
                 PROVE  status[r.call] = "sent"
      BY DEF NoRunaway
    <3>1. r # NoJob /\ r.call # "init" BY CallsAssumption DEF NoJob
    <3>2. r \in pending[c] BY <2>1, <3>1 DEF Works, WorksIn
    <3> QED BY <2>2, <3>2
  <2> QED BY <2>1, <2>3 DEF Bookkeeping
<1> QED BY <1>1, ServiceInvariance, PTL

\* ExitIsolated: an exit event rejects a call only if the call was sent to the
\* child that exited (the closure over child in the "exit" handler).
THEOREM ExitIsolatedHolds == Spec => ExitIsolated
<1> DEFINE Isolated ==
      \A q \in Calls : (status[q] # "exited" /\ status'[q] = "exited") =>
        \E c \in Children : /\ q \in CallsOf(pending[c])
                            /\ proc[c] = "gone"
                            /\ proc'[c] = "exited"
<1>1. ServiceInv /\ [Next]_vars => Isolated
  <2> SUFFICES ASSUME ServiceInv, [Next]_vars, NEW q \in Calls,
                      status[q] # "exited", status'[q] = "exited"
               PROVE  \E c \in Children : /\ q \in CallsOf(pending[c])
                                          /\ proc[c] = "gone"
                                          /\ proc'[c] = "exited"
    OBVIOUS
  <2>0. TypeOK /\ OneStart /\ Entries /\ Waiting BY DEF ServiceInv, OwnReplyInv
  <2>1. ASSUME NEW p \in Calls, Call(p) PROVE FALSE
    BY <2>0, <2>1 DEF Call, TypeOK
  <2>2. ~Connect BY DEF Connect
  <2>3. ASSUME NEW p \in Calls, Begin(p) PROVE FALSE
    BY <2>0, <2>1, <2>3 DEF Begin, BeginSend, BeginWait, BeginStart, TypeOK
  <2>4. CASE Resume
    <3>1. Head(waiters) \in Calls BY <2>0, <2>4 DEF Resume, LoopFree, TypeOK
    <3> QED BY <2>1, <2>4, <3>1 DEF Resume
  <2>5. ASSUME NEW c \in Children, OnMessage(c) PROVE FALSE
    <3>1. PICK r : r = Head(outbox[c]) OBVIOUS
    <3>2. r \in Reply BY <2>0, <2>5, <3>1, MessageStep
    <3>3. r.outcome # "exited" BY <3>2 DEF Reply
    <3>4. CASE Ignores BY <3>4 DEF Ignores
    <3>5. ASSUME NEW p \in pending[c], Answers(c, p, r.outcome) PROVE FALSE
      BY <3>3, <3>5 DEF Answers
    <3>6. ASSUME NEW p \in pending[c], Starts(c, p) PROVE FALSE
      BY <3>6, FailedStep DEF Starts
    <3> QED BY <2>0, <2>5, <3>1, <3>4, <3>5, <3>6, MessageStep
  <2>6. ASSUME NEW c \in Children, OnExit(c)
        PROVE  \E d \in Children : /\ q \in CallsOf(pending[d])
                                   /\ proc[d] = "gone"
                                   /\ proc'[d] = "exited"
    <3>1. Exits(c) BY <2>0, <2>6, ExitStep
    <3>2. q \in CallsOf(pending[c]) BY <3>1, FailedStep DEF Exits, Settle
    <3> QED BY <3>1, <3>2 DEF Exits
  <2>7. ASSUME NEW t \in armed, OnTimer(t) PROVE FALSE
    <3>1. Expires(t) BY <2>0, <2>7, TimerStep
    <3> QED BY <3>1 DEF Expires
  <2>8. ~Close BY DEF Close
  <2>9. ASSUME NEW c \in Children, ChildStep(c) PROVE FALSE
    BY <2>9 DEF ChildStep, Receive, Load, Finish, Die, Crash, Disconnect, parentVars
  <2>10. ~UNCHANGED vars BY DEF vars
  <2> QED BY <2>2, <2>3, <2>4, <2>5, <2>6, <2>7, <2>8, <2>9, <2>10 DEF Next
<1>2. ServiceInv /\ [Next]_vars => [Isolated]_vars BY <1>1
<1> QED BY <1>2, ServiceInvariance, PTL DEF Spec, ExitIsolated

-----------------------------------------------------------------------------
(* IsolatedAdapter implements CallService.                                 *)

Promises == [q \in Calls |-> OutcomeOf(status[q])]

\* What the promises' states are to the caller.
LEMMA Outcomes ==
  /\ OutcomeOf("idle") = "idle" /\ OutcomeOf("ok") = "ok"
  /\ OutcomeOf("waiting") = "open" /\ OutcomeOf("sent") = "open"
  /\ \A s \in Settled \ {"ok"} : OutcomeOf(s) = "failed"
BY DEF OutcomeOf, Settled

\* Nobody is answered, nothing is performed, and the server is as it was.
LEMMA MapsToStutter ==
  ASSUME \A q \in Calls : OutcomeOf(status'[q]) = OutcomeOf(status[q]),
         Down' <=> Down, done' = done
  PROVE  UNCHANGED Service!vars
<1>1. Promises' = Promises BY DEF Promises
<1>2. (~Down)' = ~Down OBVIOUS
<1> QED BY <1>1, <1>2 DEF Service!vars, Promises

\* Some callers who wait are failed.
LEMMA MapsToRefuse ==
  ASSUME \A q \in Calls : \/ OutcomeOf(status'[q]) = OutcomeOf(status[q])
                          \/ /\ status[q] \in {"waiting", "sent"}
                             /\ status'[q] \in Settled \ {"ok"},
         ~Down, ~Down', done' = done
  PROVE  Service!Refuse
<1> DEFINE S == {q \in Calls : OutcomeOf(status'[q]) # OutcomeOf(status[q])}
<1>1. \A q \in S : OutcomeOf(status[q]) = "open" /\ OutcomeOf(status'[q]) = "failed"
  BY Outcomes
<1>2. S \in SUBSET {q \in Calls : Promises[q] = "open"} BY <1>1 DEF Promises
<1>3. Promises' = [q \in Calls |-> IF q \in S THEN "failed" ELSE Promises[q]]
  BY <1>1 DEF Promises
<1>4. (~Down)' = ~Down /\ ~Down OBVIOUS
<1> HIDE DEF S
<1> QED BY <1>2, <1>3, <1>4 DEF Service!Refuse, Promises

\* The server goes down, answering nobody.
LEMMA MapsToGoDown ==
  ASSUME \A q \in Calls : status'[q] = status[q], ~Down, Down', done' = done
  PROVE  Service!GoDown
<1>1. Promises' = Promises BY DEF Promises
<1>2. (~Down)' = FALSE /\ ~Down OBVIOUS
<1> QED BY <1>1, <1>2 DEF Service!GoDown, Promises

\* A caller starts to wait, or is refused at once.
LEMMA MapsToIssue ==
  ASSUME NEW q \in Calls, status[q] = "idle", status'[q] \in {"waiting", "sent"},
         \A p \in Calls \ {q} : status'[p] = status[p], ~Down, ~Down', done' = done
  PROVE  Service!Issue(q)
<1>1. Promises' = [Promises EXCEPT ![q] = "open"] BY Outcomes DEF Promises
<1>2. Promises[q] = "idle" BY Outcomes DEF Promises
<1>3. (~Down)' = ~Down /\ ~Down OBVIOUS
<1> QED BY <1>1, <1>2, <1>3 DEF Service!Issue, Promises

\* A caller is told of success.
LEMMA MapsToAnswer ==
  ASSUME NEW q \in Calls, status[q] = "sent", status'[q] = "ok", q \in done,
         \A p \in Calls \ {q} : status'[p] = status[p], ~Down, ~Down', done' = done
  PROVE  Service!Answer(q)
<1>1. Promises' = [Promises EXCEPT ![q] = "ok"] BY Outcomes DEF Promises
<1>2. Promises[q] = "open" BY Outcomes DEF Promises
<1>3. (~Down)' = ~Down /\ ~Down OBVIOUS
<1> QED BY <1>1, <1>2, <1>3 DEF Service!Answer, Promises

\* A statement is completed.
LEMMA MapsToPerform ==
  ASSUME NEW q \in Calls, status[q] # "idle", status[q] \in {"waiting", "sent"} \union Settled,
         q \notin done, done' = done \union {q}, UNCHANGED <<status, phase>>
  PROVE  Service!Perform(q)
<1>1. Promises' = Promises BY DEF Promises
<1>2. Promises[q] # "idle" BY Outcomes DEF Promises
<1>3. (~Down)' = ~Down BY DEF Down
<1> QED BY <1>1, <1>2, <1>3 DEF Service!Perform, Promises

\* Every step of the adapter is a step of the service, or none.
LEMMA ServiceStep ==
  ASSUME ServiceInv, [Next]_vars
  PROVE  Service!Next \/ UNCHANGED Service!vars
<1>0. /\ TypeOK /\ SameCall /\ Quiet /\ Waiting /\ Entries /\ PendingIsSent /\ OneStart /\ Once
      /\ waiters \in Seq(Calls)
  BY DEF ServiceInv, OwnReplyInv, TypeOK
<1>1. CASE Connect
  <2>1. (Down' <=> Down) /\ status' = status /\ done' = done
    BY <1>1 DEF Connect, Start, Down
  <2> QED BY <2>1, MapsToStutter
<1>2. ASSUME NEW q \in Calls, Begin(q) PROVE Service!Next \/ UNCHANGED Service!vars
  <2>0. phase = "serving" /\ status[q] = "idle" /\ ~Down BY <1>2 DEF Begin, Down
  <2>1. CASE BeginSend(q)
    <3>1. /\ \A p \in Calls \ {q} : status'[p] = status[p]
          /\ Sends(q, child) \/ Breaks
          /\ done' = done
      BY <1>0, <2>1, CallStep DEF BeginSend, Refuses
    <3>2. CASE Sends(q, child)
      <4>1. status'[q] = "sent" /\ ~Down' BY <2>0, <3>2 DEF Sends, Down
      <4> QED BY <2>0, <3>1, <4>1, MapsToIssue DEF Service!Next
    <3>3. CASE Breaks
      <4>1. status' = status /\ Down' BY <3>3 DEF Breaks, Down
      <4> QED BY <2>0, <3>1, <4>1, MapsToGoDown DEF Service!Next
    <3> QED BY <3>1, <3>2, <3>3
  <2>2. CASE BeginWait(q) \/ BeginStart(q)
    <3>1. status' = [status EXCEPT ![q] = "waiting"] /\ phase' = phase /\ done' = done
      BY <2>2 DEF BeginWait, BeginStart, Start, childVars
    <3>2. /\ status'[q] = "waiting" /\ ~Down'
          /\ \A p \in Calls \ {q} : status'[p] = status[p]
      BY <1>0, <2>0, <3>1 DEF TypeOK, Down
    <3> QED BY <2>0, <3>1, <3>2, MapsToIssue DEF Service!Next
  <2> QED BY <1>2, <2>1, <2>2 DEF Begin
<1>3. CASE Resume
  <2>1. waiters # <<>> /\ Call(Head(waiters)) /\ Up /\ done' = done
    BY <1>3 DEF Resume, LoopFree
  <2>2. PICK q \in Calls : q = Head(waiters) /\ q = waiters[1] /\ 1 \in DOMAIN waiters
    BY <1>0, <2>1
  <2>3. status[q] = "waiting" /\ ~Down BY <1>0, <2>1, <2>2 DEF Waiting, Up, Down
  <2>4. /\ \A p \in Calls \ {q} : status'[p] = status[p]
        /\ Sends(q, child) \/ Refuses(q) \/ Breaks
    BY <1>0, <2>1, <2>2, CallStep
  <2>5. CASE Sends(q, child)
    <3>1. status'[q] = "sent" /\ (Down' <=> Down) BY <2>5 DEF Sends, Down
    <3>2. \A p \in Calls : OutcomeOf(status'[p]) = OutcomeOf(status[p])
      BY <2>3, <2>4, <3>1, Outcomes
    <3> QED BY <2>1, <3>1, <3>2, MapsToStutter
  <2>6. CASE Refuses(q)
    <3>1. status'[q] \in Settled \ {"ok"} /\ ~Down'
      BY <2>3, <2>6 DEF Refuses, Down, Settled
    <3>2. \A p \in Calls : \/ OutcomeOf(status'[p]) = OutcomeOf(status[p])
                           \/ /\ status[p] \in {"waiting", "sent"}
                              /\ status'[p] \in Settled \ {"ok"}
      BY <2>3, <2>4, <3>1
    <3> QED BY <2>1, <2>3, <3>1, <3>2, MapsToRefuse DEF Service!Next
  <2>7. CASE Breaks
    <3>1. status' = status /\ Down' BY <2>7 DEF Breaks, Down
    <3> QED BY <2>1, <2>3, <3>1, MapsToGoDown DEF Service!Next
  <2> QED BY <2>4, <2>5, <2>6, <2>7
\* A start that fails after calls were made fails who awaits it; at startup
\* there is nobody, and the server ends.
<1>4. ASSUME NEW settled, StartFailed(settled), Up, done' = done,
             \A q \in Calls : \/ settled[q] = status[q]
                              \/ status[q] = "sent" /\ settled[q] = "exited"
      PROVE  Service!Next
  <2>1. ~Down BY <1>4 DEF Up, Down
  <2>2. CASE phase = "connecting"
    <3>1. waiters = <<>> /\ \A q \in Calls : status[q] = "idle" BY <1>0, <2>2 DEF Quiet
    <3>2. Down' /\ \A q \in Calls : status'[q] = status[q]
      BY <1>4, <2>2, <3>1 DEF StartFailed, Down
    <3> QED BY <1>4, <2>1, <3>2, MapsToGoDown DEF Service!Next
  <2>3. CASE phase # "connecting"
    <3>1. ~Down' BY <1>4, <2>3 DEF StartFailed, Up, Down
    <3>2. \A q \in Calls : \/ status'[q] = settled[q]
                           \/ status'[q] = "startFailed" /\ status[q] = "waiting"
      BY <1>0, <1>4 DEF StartFailed, Waiting
    <3>3. \A q \in Calls : \/ OutcomeOf(status'[q]) = OutcomeOf(status[q])
                           \/ /\ status[q] \in {"waiting", "sent"}
                              /\ status'[q] \in Settled \ {"ok"}
      BY <1>4, <3>2 DEF Settled
    <3> QED BY <1>4, <2>1, <3>1, <3>3, MapsToRefuse DEF Service!Next
  <2> QED BY <2>2, <2>3
<1>5. ASSUME NEW c \in Children, OnMessage(c) PROVE Service!Next \/ UNCHANGED Service!vars
  <2>1. PICK r : r = Head(outbox[c]) OBVIOUS
  <2>2. Up /\ ~Down /\ done' = done BY <1>5 DEF OnMessage, Up, Down
  <2>3. r \in Reply /\ 1 \in DOMAIN outbox[c] /\ r = outbox[c][1]
    BY <1>0, <1>5, <2>1, MessageStep
  <2>4. CASE Ignores
    BY <2>2, <2>4, MapsToStutter DEF Ignores, Down
  <2>5. ASSUME NEW p \in pending[c], p.id = r.id, Answers(c, p, r.outcome)
        PROVE  Service!Next
    <3>1. /\ p.call \in Calls /\ status'[p.call] = r.outcome /\ ~Down'
          /\ \A q \in Calls \ {p.call} : status'[q] = status[q]
      BY <2>2, <2>5 DEF Answers, Down
    <3>2. status[p.call] = "sent" BY <1>0, <3>1, CallsAssumption DEF PendingIsSent
    <3>3. CASE r.outcome = "ok"
      <4>1. p.call \in done BY <1>0, <2>3, <2>5, <3>1, <3>3, CallsAssumption DEF SameCall
      <4> QED BY <2>2, <3>1, <3>2, <3>3, <4>1, MapsToAnswer DEF Service!Next
    <3>4. CASE r.outcome # "ok"
      <4>1. r.outcome \in Settled \ {"ok"} BY <2>3, <3>4 DEF Reply, Settled
      <4>2. \A q \in Calls : \/ OutcomeOf(status'[q]) = OutcomeOf(status[q])
                             \/ /\ status[q] \in {"waiting", "sent"}
                                /\ status'[q] \in Settled \ {"ok"}
        BY <3>1, <3>2, <4>1
      <4> QED BY <2>2, <3>1, <4>2, MapsToRefuse DEF Service!Next
    <3> QED BY <3>3, <3>4
  <2>6. ASSUME NEW p \in pending[c], Starts(c, p)
        PROVE  Service!Next \/ UNCHANGED Service!vars
    <3>1. CASE phase' = "serving" /\ UNCHANGED <<child, waiters, status, proc>>
      BY <2>2, <3>1, MapsToStutter DEF Down
    <3>2. CASE StartFailed(status) BY <1>4, <2>2, <3>2
    <3> QED BY <2>6, <3>1, <3>2 DEF Starts
  <2> QED BY <1>0, <1>5, <2>1, <2>4, <2>5, <2>6, MessageStep
<1>6. ASSUME NEW c \in Children, OnExit(c) PROVE Service!Next
  <2>1. Exits(c) BY <1>0, <1>6, ExitStep
  <2>2. Up /\ ~Down /\ done' = done BY <1>6 DEF OnExit, Up, Down
  <2>3. \A q \in Calls : q \in CallsOf(pending[c]) => status[q] = "sent"
    BY <1>0 DEF PendingIsSent, CallsOf
  <2>4. CASE /\ \A q \in Calls : status'[q] = IF q \in CallsOf(pending[c]) THEN "exited" ELSE status[q]
             /\ UNCHANGED <<phase, starting, waiters>>
    <3>1. ~Down' BY <2>2, <2>4 DEF Down
    <3>2. \A q \in Calls : \/ OutcomeOf(status'[q]) = OutcomeOf(status[q])
                           \/ /\ status[q] \in {"waiting", "sent"}
                              /\ status'[q] \in Settled \ {"ok"}
      BY <2>3, <2>4 DEF Settled
    <3> QED BY <2>2, <3>1, <3>2, MapsToRefuse DEF Service!Next
  <2>5. CASE StartFailed(Settle(CallsOf(pending[c]), "exited"))
    <3>1. PICK settled : settled = Settle(CallsOf(pending[c]), "exited") OBVIOUS
    <3>2. \A q \in Calls : \/ settled[q] = status[q]
                           \/ status[q] = "sent" /\ settled[q] = "exited"
      BY <2>3, <3>1 DEF Settle
    <3> QED BY <1>4, <2>2, <2>5, <3>1, <3>2
  <2> QED BY <2>1, <2>4, <2>5 DEF Exits
<1>7. ASSUME NEW t \in armed, OnTimer(t) PROVE Service!Next
  <2>1. Expires(t) /\ ~Down /\ ~Down' /\ done' = done
    BY <1>0, <1>7, TimerStep DEF OnTimer, Up, Down
  <2>2. status[t.call] = "sent"
    BY <1>0, <2>1, CallsAssumption DEF PendingIsSent, Expires, Calls
  <2>3. \A q \in Calls : \/ OutcomeOf(status'[q]) = OutcomeOf(status[q])
                         \/ /\ status[q] \in {"waiting", "sent"}
                            /\ status'[q] \in Settled \ {"ok"}
    BY <2>1, <2>2 DEF Expires, Settled
  <2> QED BY <2>1, <2>3, MapsToRefuse DEF Service!Next
<1>8. CASE Close
  <2>1. ~Down /\ Down' /\ status' = status /\ done' = done BY <1>8 DEF Close, Down
  <2> QED BY <2>1, MapsToGoDown DEF Service!Next
<1>9. ASSUME NEW c \in Children, Finish(c) PROVE Service!Next \/ UNCHANGED Service!vars
  <2>1. /\ job[c] # NoJob /\ job[c].call \in Calls /\ UNCHANGED <<status, phase>>
        /\ done' = done \union {job[c].call} \/ done' = done
    BY <1>0, <1>9, FinishStep DEF Finish, parentVars
  <2>2. job[c].call \notin done /\ ~Fresh(job[c].call) BY <1>0, <2>1 DEF Once
  <2>3. CASE done' = done \union {job[c].call}
    <3>1. status[job[c].call] # "idle" /\ status[job[c].call] \in {"waiting", "sent"} \union Settled
      BY <1>0, <2>1, <2>2 DEF TypeOK, Fresh
    <3> QED BY <2>1, <2>2, <2>3, <3>1, MapsToPerform DEF Service!Next
  <2>4. CASE done' = done BY <2>1, <2>4, MapsToStutter DEF Down
  <2> QED BY <2>1, <2>3, <2>4
<1>10. ASSUME \/ \E c \in Children : Receive(c) \/ Load(c) \/ Die(c) \/ Crash(c) \/ Disconnect(c)
              \/ UNCHANGED vars
       PROVE  UNCHANGED Service!vars
  <2>1. UNCHANGED <<status, phase, done>>
    BY <1>10 DEF Receive, Load, Die, Crash, Disconnect, parentVars, vars
  <2> QED BY <2>1, MapsToStutter DEF Down
<1> QED BY <1>1, <1>2, <1>3, <1>5, <1>6, <1>7, <1>8, <1>9, <1>10 DEF Next, ChildStep

\* IsService: the promises IsolatedAdapter hands out, whatever happens to its
\* children, are those of a DatabaseAdapter: one answer to a call, a success
\* only for the call's own statement, no statement performed twice or unasked.
THEOREM ImplementsCallService == Spec => IsService
<1>1. Init => Service!Init
  BY Outcomes DEF Init, Service!Init, Down
<1>2. ServiceInv /\ [Next]_vars => [Service!Next]_(Service!vars)
  BY ServiceStep
<1> QED BY <1>1, <1>2, ServiceInvariance, PTL DEF Spec, IsService, Service!Spec
=============================================================================
