-------------------------- MODULE RustSqliteProofs --------------------------
(* What the proof system checks about RustSqlite: for the three servers,   *)
(* any queries and catalog calls, in read-only mode and not.               *)
EXTENDS RustSqlite, TLAPS

USE DEF Calls, Statements, Writes, Control

-----------------------------------------------------------------------------
(* The inductive invariant.                                                *)

InProgress(c) == pc[c] \notin {"idle", "end"}

\* Which steps a call takes on which server. What it ended with is known
\* from its join on.
Stages ==
  \A c \in Calls :
    /\ pc[c] = "lock" => engine = "sqlite"
    /\ pc[c] = "pragma" => engine = "remote" /\ c \in Queries
    /\ pc[c] = "rows" => engine # "remote" /\ c \in Queries
    /\ result[c] = "none" <=> pc[c] \notin {"join", "end"}
    /\ result[c] = "abandoned" => engine = "remote"

\* A call that still has a deadline ahead is in progress.
Deadlines ==
  \A q \in Queries :
    /\ watch[q] \in {"waiting", "due"} => InProgress(q)
    /\ watch[q] = "due" => engine = "libsql"

\* sqlite's mutex is held from the first step to the answer, and the progress
\* handler is that of the call that holds it.
Owners ==
  /\ engine = "sqlite" =>
       \A c \in Calls : pc[c] \in {"start", "run", "rows", "join"} <=> mutex = c
  /\ handler # NoCall => engine = "sqlite" /\ mutex = handler

\* A call that is still alone is.
Solitude ==
  \A c, d \in Calls : InProgress(c) /\ alone[c] /\ InProgress(d) => c = d

\* The flag, once a statement runs that is alone, was set by its own watchdog.
Flag ==
  interrupted =>
    /\ engine = "libsql"
    /\ \A c \in Active : alone[c] => c \in Queries /\ watch[c] = "fired"

\* A remote statement starts behind its pragma, or its stream was dropped.
Guarded ==
  readOnly =>
    /\ engine # "remote" => queryOnly
    /\ \A q \in Queries : pc[q] \in {"start", "run"} => queryOnly \/ q \in unguarded

\* No client opens a transaction in read-only mode.
Plain ==
  readOnly =>
    /\ ~manual /\ within = {}
    /\ \A q \in Queries : stmt[q] \notin Control

\* A write that ended so may be in the database: it is done, or a remote server
\* may have done it, or it keeps what it did before it failed.
Does(q, r) ==
  \/ r \in {"ok", "abandoned"}
  \/ r = "failed" /\ (engine = "remote" \/ stmt[q] = "partial")

\* The database has changes of no other calls.
Effects ==
  \A q \in pending \union kept : Does(q, result[q])

\* Those that need not share a transaction are committed, or in a client's.
Committed ==
  \A q \in writing : result[q] = "ok" /\ (engine # "libsql" \/ alone[q]) =>
    q \in kept \union within

IInv ==
  /\ TypeOK /\ Stages /\ Deadlines /\ Owners /\ Solitude /\ Flag /\ Guarded /\ Plain
  /\ OwnDeadline /\ NoWrite /\ Effects /\ Committed

LEMMA InitInv == Init => IInv
<1> SUFFICES ASSUME Init PROVE IInv
  OBVIOUS
<1>0. 0 \in 0..MaxRows /\ 0 \in 0..2
  BY EnginesAssumption
<1>1. TypeOK
  <2>1. rows \in [Queries -> 0..MaxRows] /\ left \in [Catalogs -> 0..2]
    BY <1>0 DEF Init
  <2>2. /\ pc \in [Calls -> {"idle", "lock", "pragma", "start", "run", "rows", "join", "end"}]
        /\ result \in [Calls -> {"none", "ok", "failed", "interrupted", "abandoned"}]
        /\ watch \in [Queries -> {"off", "waiting", "due", "fired", "quiet"}]
        /\ alone \in [Calls -> BOOLEAN]
        /\ stmt \in [Queries -> Statements \union {"none"}]
    BY DEF Init
  <2> QED BY <2>1, <2>2 DEF Init, TypeOK
<1>2. Stages /\ Deadlines /\ Owners /\ Solitude
  BY CallsAssumption DEF Init, Stages, Deadlines, Owners, Solitude, InProgress
<1>3. Flag /\ Guarded /\ Plain /\ OwnDeadline /\ NoWrite /\ Effects /\ Committed
  BY DEF Init, Flag, Guarded, Plain, OwnDeadline, NoWrite, Effects, Committed, Active, Does, writing
<1> QED BY <1>1, <1>2, <1>3 DEF IInv

-----------------------------------------------------------------------------
(* What the operations do, call by call.                                   *)

Pcs == {"idle", "lock", "pragma", "start", "run", "rows", "join", "end"}
Results == {"none", "ok", "failed", "interrupted", "abandoned"}

\* Only call c takes a step, to x.
Moves(c, x) ==
  /\ pc' \in [Calls -> Pcs] /\ pc'[c] = x
  /\ \A d \in Calls \ {c} : pc'[d] = pc[d]

\* What the end of a statement does to the database. Nothing committed is lost.
Settles(c, r) ==
  /\ kept \subseteq kept' /\ within \subseteq within'
  /\ pending' \union kept' \subseteq pending \union kept \union {c}
  /\ \/ pending' \union kept' \subseteq pending \union kept
     \/ c \in writing /\ ~Refused(c) /\ Does(c, r)
  /\ r = "ok" /\ c \in writing /\ ~Refused(c) /\ Sole(c) => c \in kept' \union within'
  /\ ~manual /\ Kind(c) \notin Control => ~manual' /\ within' = within

DatabaseTypes ==
  /\ manual \in BOOLEAN /\ within \subseteq Queries
  /\ pending \subseteq Queries /\ kept \subseteq Queries

LEMMA CarriedOutStep ==
  ASSUME TypeOK, NEW c \in Calls, CarriedOut(c)
  PROVE  /\ DatabaseTypes'
         /\ kept \subseteq kept' /\ within \subseteq within'
         /\ pending' \union kept' \subseteq pending \union kept \union {c}
         /\ c \notin writing => pending' \union kept' \subseteq pending \union kept
         /\ c \in writing /\ Sole(c) => c \in kept' \union within'
         /\ ~manual /\ Kind(c) \notin Control => ~manual' /\ within' = within
<1>0. DatabaseTypes /\ writing \subseteq Queries
  BY DEF TypeOK, DatabaseTypes, writing
<1>1. CASE c \in writing /\ Last(c) /\ kept' = kept \union pending \union {c}
             /\ pending' = {} /\ UNCHANGED <<manual, within>>
  BY <1>0, <1>1 DEF DatabaseTypes
<1>2. CASE c \in writing /\ ~Last(c) /\ pending' = pending \union {c}
             /\ within' = (IF manual THEN within \union {c} ELSE within)
             /\ UNCHANGED <<manual, kept>>
  BY <1>0, <1>2 DEF DatabaseTypes, Last
<1>3. CASE Kind(c) = "begin" /\ manual' = TRUE /\ UNCHANGED <<within, pending, kept>>
  BY <1>0, <1>3 DEF DatabaseTypes, Kind, writing
<1>4. CASE Kind(c) = "end" /\ RollBack
  BY <1>0, <1>4 DEF DatabaseTypes, Kind, writing, RollBack
<1>5. CASE Kind(c) = "end" /\ kept' = kept \union pending /\ manual' = FALSE
             /\ pending' = {} /\ UNCHANGED within
  BY <1>0, <1>5 DEF DatabaseTypes, Kind, writing
<1>6. CASE Kind(c) = "read" /\ UNCHANGED database
  BY <1>0, <1>6 DEF DatabaseTypes, Kind, writing, database
<1> QED BY <1>1, <1>2, <1>3, <1>4, <1>5, <1>6 DEF CarriedOut

LEMMA SettledStep ==
  ASSUME TypeOK, NEW c \in Calls, NEW r \in Results, Settled(c, r)
  PROVE  DatabaseTypes' /\ Settles(c, r)
<1>0. DatabaseTypes BY DEF TypeOK, DatabaseTypes
<1>1. CASE UNCHANGED database /\ (r = "ok" => Refused(c))
  BY <1>0, <1>1 DEF Settles, DatabaseTypes, database
<1>2. CASE RollBack /\ r # "ok"
  BY <1>0, <1>2 DEF Settles, DatabaseTypes, RollBack
<1>3. CASE CarriedOut(c) /\ ~Refused(c) /\ (c \in writing => Does(c, r))
  BY <1>3, CarriedOutStep DEF Settles
<1>4. /\ r = "failed" /\ Kind(c) = "partial" => Does(c, r)
      /\ r = "failed" /\ engine = "remote" => Does(c, r)
      /\ r \in {"ok", "abandoned"} => Does(c, r)
  BY DEF Does, Kind
<1> QED BY <1>1, <1>2, <1>3, <1>4 DEF Settled, Undone

\* A call that is over waits for its answer.
Ended(c, r) ==
  /\ Moves(c, "join") /\ left' = left
  /\ result' \in [Calls -> Results] /\ result'[c] = r
  /\ \A d \in Calls \ {c} : result'[d] = result[d]

LEMMA OverStep ==
  ASSUME TypeOK, NEW c \in Calls, NEW r \in Results, Over(c, r)
  PROVE  Ended(c, r) /\ Settled(c, r)
<1>1. pc' = [pc EXCEPT ![c] = "join"] /\ result' = [result EXCEPT ![c] = r] /\ left' = left
  BY DEF Over
<1> QED BY <1>1 DEF Over, Ended, Moves, TypeOK, Pcs, Results

LEMMA BeginStep ==
  ASSUME TypeOK, NEW c \in Calls, Begin(c)
  PROVE  /\ pc[c] = "idle" /\ Moves(c, First(c))
         /\ First(c) \in {"lock", "pragma", "start"}
         /\ First(c) = "lock" <=> engine = "sqlite"
         /\ First(c) = "pragma" <=> engine = "remote" /\ readOnly /\ c \in Queries
         /\ alone' \in [Calls -> BOOLEAN]
         /\ alone'[c] => \A d \in Calls : ~InProgress(d)
         /\ \A d \in Calls \ {c} : alone'[d] <=> alone[d] /\ ~InProgress(d)
<1>1. /\ First(c) \in {"lock", "pragma", "start"}
      /\ First(c) = "lock" <=> engine = "sqlite"
      /\ First(c) = "pragma" <=> engine = "remote" /\ readOnly /\ c \in Queries
  BY DEF First
<1>2. pc[c] = "idle" /\ pc' = [pc EXCEPT ![c] = First(c)]
  BY DEF Begin
<1>3. Moves(c, First(c))
  BY <1>1, <1>2 DEF Moves, TypeOK, Pcs
<1> DEFINE others == {d \in Calls : pc[d] \notin {"idle", "end"}}
<1>4. alone' = [d \in Calls |-> IF d = c THEN others = {} ELSE alone[d] /\ d \notin others]
  BY DEF Begin
<1>5. /\ alone' \in [Calls -> BOOLEAN]
      /\ alone'[c] => \A d \in Calls : ~InProgress(d)
      /\ \A d \in Calls \ {c} : alone'[d] <=> alone[d] /\ ~InProgress(d)
  BY <1>4 DEF InProgress, TypeOK
<1> QED BY <1>1, <1>2, <1>3, <1>5

-----------------------------------------------------------------------------
(* The types.                                                              *)

LEMMA OverTypes ==
  ASSUME TypeOK, NEW c \in Calls, NEW r \in Results, Over(c, r),
         UNCHANGED <<chosen, stmt, rows, alone, watch, handler, session>>,
         mutex' \in Calls \union {NoCall}, interrupted' \in BOOLEAN
  PROVE  TypeOK'
<1>1. Ended(c, r) /\ DatabaseTypes'
  BY OverStep, SettledStep
<1> QED BY <1>1 DEF TypeOK, DatabaseTypes, Ended, Moves, Pcs, Results, chosen, session

\* A call that ends before its statement was sent.
LEMMA NotSentStep ==
  ASSUME TypeOK, NEW c \in Calls, NEW r \in Results, NotSent(c, r)
  PROVE  Ended(c, r) /\ UNCHANGED database
<1>1. pc' = [pc EXCEPT ![c] = "join"] /\ result' = [result EXCEPT ![c] = r] /\ left' = left
      /\ UNCHANGED database
  BY DEF NotSent
<1> QED BY <1>1 DEF Ended, Moves, TypeOK, Pcs, Results

LEMMA NotSentTypes ==
  ASSUME TypeOK, NEW c \in Calls, NEW r \in Results, NotSent(c, r),
         UNCHANGED <<chosen, stmt, rows, alone, watch, handler, session>>,
         mutex' \in Calls \union {NoCall}, interrupted' \in BOOLEAN
  PROVE  TypeOK'
<1>1. Ended(c, r) /\ UNCHANGED database
  BY NotSentStep
<1> QED BY <1>1 DEF TypeOK, Ended, Moves, Pcs, Results, chosen, session, database

LEMMA UnlockStep ==
  ASSUME TypeOK, NEW c \in Calls, StepUnlock(c)
  PROVE  mutex' \in Calls \union {NoCall} /\ (engine = "sqlite" => mutex' = mutex)
BY DEF StepUnlock, TypeOK

LEMMA LockStep ==
  ASSUME TypeOK, NEW c \in Calls, StepLock(c)
  PROVE  /\ mutex' \in Calls \union {NoCall}
         /\ engine = "sqlite" => mutex = c /\ mutex' = mutex
<1>1. engine \in {"sqlite", "libsql", "remote"}
  BY EnginesAssumption DEF TypeOK
<1> QED BY <1>1 DEF StepLock, TypeOK

LEMMA TypeStep == TypeOK /\ Next => TypeOK'
<1> SUFFICES ASSUME TypeOK, Next PROVE TypeOK'
  OBVIOUS
<1>t. \A c \in Calls, x \in Pcs : [pc EXCEPT ![c] = x] \in [Calls -> Pcs]
  BY DEF TypeOK, Pcs
<1>u. "lock" \in Pcs /\ "start" \in Pcs /\ "run" \in Pcs /\ "rows" \in Pcs /\ "join" \in Pcs
      /\ "end" \in Pcs /\ "pragma" \in Pcs
  BY DEF Pcs
<1>1. ASSUME NEW q \in Queries, Query(q) PROVE TypeOK'
  <2>1. pc' \in [Calls -> Pcs] /\ alone' \in [Calls -> BOOLEAN]
    BY <1>1, BeginStep DEF Query, Moves
  <2>2. watch' \in [Queries -> {"off", "waiting", "due", "fired", "quiet"}]
    BY <1>1 DEF Query, TypeOK
  <2>3. stmt' \in [Queries -> Statements \union {"none"}]
    <3>1. PICK t \in Offered[q] : stmt' = [stmt EXCEPT ![q] = t]
      BY <1>1 DEF Query
    <3>2. t \in Statements BY OfferedAssumption
    <3> QED BY <3>1, <3>2 DEF TypeOK
  <2> QED BY <1>1, <2>1, <2>2, <2>3 DEF Query, Begin, TypeOK, chosen, session, database, Pcs
<1>2. ASSUME NEW k \in Catalogs, Catalog(k) PROVE TypeOK'
  <2>1. pc' \in [Calls -> Pcs] /\ alone' \in [Calls -> BOOLEAN]
    BY <1>2, BeginStep DEF Catalog, Moves
  <2>2. left' \in [Catalogs -> 0..2]
    BY <1>2 DEF Catalog, TypeOK
  <2> QED BY <1>2, <2>1, <2>2 DEF Catalog, Begin, TypeOK, chosen, session, database, Pcs
<1>3. ASSUME NEW c \in Calls, Lock(c) PROVE TypeOK'
  <2>1. pc' \in [Calls -> Pcs]
    BY <1>3, <1>t, <1>u DEF Lock
  <2>2. watch' \in [Queries -> {"off", "waiting", "due", "fired", "quiet"}]
    BY <1>3 DEF Lock, TypeOK
  <2> QED BY <1>3, <2>1, <2>2 DEF Lock, Handler, TypeOK, chosen, session, database, Pcs
<1>4. ASSUME NEW q \in Queries, Pragma(q) PROVE TypeOK'
  <2>1. pc' \in [Calls -> Pcs]
    BY <1>4, <1>t, <1>u DEF Pragma
  <2> QED BY <1>4, <2>1 DEF Pragma, TypeOK, chosen, session, database, Pcs
<1>5. ASSUME NEW c \in Calls, Start(c) PROVE TypeOK'
  <2>0. interrupted' \in BOOLEAN
    BY <1>5 DEF Start, TypeOK
  <2>1. CASE StepLock(c) /\ pc' = [pc EXCEPT ![c] = "run"] /\ UNCHANGED <<left, result, database>>
    <3>1. pc' \in [Calls -> Pcs] /\ mutex' \in Calls \union {NoCall}
      BY <2>1, <1>t, <1>u, LockStep
    <3> QED BY <1>5, <2>0, <2>1, <3>1 DEF Start, TypeOK, chosen, session, database, Pcs
  <2>2. CASE Over(c, "interrupted") /\ UNCHANGED mutex
    BY <1>5, <2>0, <2>2, OverTypes DEF Start, Results, TypeOK
  <2> QED BY <1>5, <2>1, <2>2 DEF Start
<1>6. ASSUME NEW q \in Queries, Row(q) PROVE TypeOK'
  <2>1. pc' \in [Calls -> Pcs] /\ mutex' \in Calls \union {NoCall}
    BY <1>6, <1>t, <1>u, UnlockStep DEF Row
  <2>2. rows' \in [Queries -> 0..MaxRows]
    BY <1>6, EnginesAssumption DEF Row, TypeOK
  <2> QED BY <1>6, <2>1, <2>2 DEF Row, TypeOK, chosen, session, database, Pcs
<1>7. ASSUME NEW q \in Queries, NextRow(q) PROVE TypeOK'
  <2>1. CASE StepLock(q) /\ pc' = [pc EXCEPT ![q] = "run"] /\ UNCHANGED <<left, result, database>>
    <3>1. pc' \in [Calls -> Pcs] /\ mutex' \in Calls \union {NoCall}
      BY <2>1, <1>t, <1>u, LockStep
    <3> QED BY <1>7, <2>1, <3>1 DEF NextRow, TypeOK, chosen, session, database, Pcs
  <2>2. CASE Over(q, "interrupted") /\ UNCHANGED mutex
    BY <1>7, <2>2, OverTypes DEF NextRow, Results, TypeOK
  <2> QED BY <1>7, <2>1, <2>2 DEF NextRow
<1>8. ASSUME NEW c \in Calls, Finish(c) PROVE TypeOK'
  <2>0. mutex' \in Calls \union {NoCall} /\ interrupted' \in BOOLEAN
    BY <1>8, UnlockStep DEF Finish, TypeOK
  <2>1. CASE c \in Catalogs /\ More(c)
    <3>1. pc' \in [Calls -> Pcs]
      BY <1>8, <2>1, <1>t, <1>u DEF Finish
    <3>2. left' \in [Catalogs -> 0..2]
      BY <1>8, <2>1 DEF Finish, More, TypeOK
    <3> QED BY <1>8, <2>0, <2>1, <3>1, <3>2 DEF Finish, TypeOK, chosen, session, database, Pcs
  <2>2. CASE ~(c \in Catalogs /\ More(c))
    BY <1>8, <2>0, <2>2, OverTypes DEF Finish, Results
  <2> QED BY <2>1, <2>2
<1>9. ASSUME NEW c \in Calls, Fail(c) PROVE TypeOK'
  <2>0. mutex' \in Calls \union {NoCall} /\ interrupted' \in BOOLEAN
    BY <1>9, UnlockStep DEF Fail, TypeOK
  <2> QED BY <1>9, <2>0, OverTypes, NotSentTypes DEF Fail, Results
<1>10. ASSUME NEW c \in Calls, Interrupted(c) PROVE TypeOK'
  <2>0. mutex' \in Calls \union {NoCall} /\ interrupted' \in BOOLEAN
    BY <1>10, UnlockStep DEF Interrupted, TypeOK
  <2> QED BY <1>10, <2>0, OverTypes DEF Interrupted, Results
<1>11. ASSUME NEW q \in Queries, Abandon(q) PROVE TypeOK'
  <2>0. mutex' \in Calls \union {NoCall} /\ interrupted' \in BOOLEAN
    BY <1>11 DEF Abandon, TypeOK
  <2> QED BY <1>11, <2>0, OverTypes, NotSentTypes DEF Abandon, Results
<1>12. ASSUME NEW q \in Queries, Expire(q) \/ Interrupt(q) PROVE TypeOK'
  <2>1. watch' \in [Queries -> {"off", "waiting", "due", "fired", "quiet"}]
    BY <1>12 DEF Expire, Interrupt, TypeOK
  <2> QED BY <1>12, <2>1 DEF Expire, Interrupt, TypeOK, chosen, session, database
<1>13. ASSUME NEW c \in Calls, Answer(c) PROVE TypeOK'
  <2>1. pc' \in [Calls -> Pcs]
    BY <1>13, <1>t, <1>u DEF Answer
  <2>2. watch' \in [Queries -> {"off", "waiting", "due", "fired", "quiet"}]
    BY <1>13 DEF Answer, TypeOK
  <2>3. rows' \in [Queries -> 0..MaxRows] /\ left' \in [Catalogs -> 0..2]
    BY <1>13, EnginesAssumption DEF Answer, TypeOK
  <2> QED BY <1>13, <2>1, <2>2, <2>3 DEF Answer, TypeOK, chosen, session, database, Pcs
<1>14. ASSUME DropStream PROVE TypeOK'
  <2>1. unguarded' \subseteq Queries BY <1>14 DEF DropStream, TypeOK
  <2> QED BY <1>14, <2>1 DEF DropStream, RollBack, TypeOK, chosen
<1> QED
  BY <1>1, <1>2, <1>3, <1>4, <1>5, <1>6, <1>7, <1>8, <1>9, <1>10, <1>11, <1>12, <1>13, <1>14
  DEF Next

-----------------------------------------------------------------------------
(* The other parts: for a call that ends, for one that goes on, and for    *)
(* the steps of a kind of their own.                                       *)

Rest ==
  /\ Stages /\ Deadlines /\ Owners /\ Solitude /\ Flag /\ Guarded /\ Plain
  /\ OwnDeadline /\ NoWrite /\ Effects /\ Committed

\* A statement ended, or could not start, or was given up.
EndOfStatement(c, r) ==
  /\ Ended(c, r)
  /\ pc[c] \in {"pragma", "start", "run", "rows"}
  /\ UNCHANGED <<engine, readOnly, stmt, alone, watch, handler, session>>
  /\ interrupted' => interrupted
  /\ engine = "sqlite" => mutex' = mutex
  /\ r = "abandoned" => engine = "remote" /\ c \in Queries
  /\ r = "ok" => pc[c] = "run" /\ ~Refused(c)
  /\ r = "interrupted" /\ alone[c] => c \in Queries /\ watch[c] = "fired"

\* Only a call's own statement, if it is not refused, changes the database.
Wrote(c, r) ==
  /\ Settles(c, r)
  /\ pc[c] = "run" \/ pending' \union kept' \subseteq pending \union kept

LEMMA EndKept ==
  ASSUME IInv, TypeOK', NEW c \in Calls, NEW r \in Results \ {"none"}, EndOfStatement(c, r), Wrote(c, r)
  PROVE  Rest'
<1> USE DEF EndOfStatement
<1>0. /\ \A d \in Calls \ {c} : pc'[d] = pc[d] /\ result'[d] = result[d]
      /\ pc'[c] = "join" /\ result'[c] = r /\ result[c] = "none"
  BY DEF Ended, Moves, IInv, Stages
<1>1. Stages'
  BY <1>0 DEF IInv, Stages
<1>2. Deadlines'
  BY <1>0 DEF IInv, Deadlines, InProgress
<1>3. Owners'
  <2>1. engine = "sqlite" => pc[c] # "pragma"
    BY DEF IInv, Stages
  <2> QED BY <1>0, <2>1 DEF IInv, Owners, TypeOK
<1>4. Solitude'
  BY <1>0 DEF IInv, Solitude, InProgress
<1>5. Flag'
  BY <1>0 DEF IInv, Flag, Active
<1>6. Guarded' /\ Plain'
  <2>1. Guarded'
    BY <1>0 DEF IInv, Guarded, session
  <2>2. readOnly => Kind(c) \notin Control
    BY DEF IInv, Plain, Kind
  <2> QED BY <2>1, <2>2 DEF IInv, Plain, Wrote, Settles
<1>7. OwnDeadline'
  BY <1>0 DEF IInv, OwnDeadline
<1>8. NoWrite'
  <2> SUFFICES ASSUME readOnly, ~(pending' \union kept' \subseteq pending \union kept)
               PROVE  c \in unguarded
    BY DEF NoWrite, IInv, Wrote, Settles, session
  <2>1. c \in writing /\ ~Refused(c) /\ pc[c] = "run" BY DEF Wrote, Settles
  <2>2. c \in Queries /\ ~queryOnly BY <2>1 DEF Refused, writing
  <2> QED BY <2>1, <2>2 DEF IInv, Guarded
<1>9. Effects'
  <2> SUFFICES ASSUME NEW q \in pending' \union kept' PROVE Does(q, result'[q])
    BY DEF Effects, Does
  <2>1. CASE q = c
    <3>1. c \notin pending \union kept
      BY <1>0 DEF IInv, Effects, Does
    <3> QED BY <2>1, <3>1, <1>0 DEF Wrote, Settles
  <2>2. CASE q # c
    <3>1. q \in pending \union kept /\ q \in Calls
      BY <2>2 DEF Wrote, Settles, IInv, TypeOK
    <3> QED BY <2>2, <3>1, <1>0 DEF IInv, Effects
  <2> QED BY <2>1, <2>2
<1>10. Committed'
  <2> SUFFICES ASSUME NEW q \in writing, result'[q] = "ok", engine # "libsql" \/ alone[q]
               PROVE  q \in kept' \union within'
    BY DEF Committed, writing
  <2>0. q \in Calls
    BY DEF writing
  <2>1. CASE q # c
    BY <2>0, <2>1, <1>0 DEF Wrote, Settles, IInv, Committed
  <2>2. CASE q = c
    <3>1. r = "ok" /\ pc[c] = "run" /\ ~Refused(c)
      BY <1>0, <2>2
    <3>2. CASE engine = "sqlite"
      <4>1. \A d \in Active : d = c
        BY <3>1, <3>2 DEF Active, IInv, Owners
      <4> QED BY <4>1, <3>1, <2>2 DEF Wrote, Settles, Sole
    <3>3. CASE engine = "libsql"
      <4>1. \A d \in Active : d = c
        BY <3>1, <3>3, <2>2 DEF Active, IInv, Solitude, InProgress
      <4> QED BY <4>1, <3>1, <2>2 DEF Wrote, Settles, Sole
    <3>4. CASE engine = "remote"
      BY <3>1, <3>4, <2>2 DEF Wrote, Settles, Sole
    <3> QED BY <3>2, <3>3, <3>4, EnginesAssumption DEF IInv, TypeOK
  <2> QED BY <2>1, <2>2
<1> QED BY <1>1, <1>2, <1>3, <1>4, <1>5, <1>6, <1>7, <1>8, <1>9, <1>10 DEF Rest

\* A call that runs goes on: its statement starts, yields a row, or is one of
\* several.
GoesOn(c, x) ==
  /\ Moves(c, x)
  /\ pc[c] \in {"pragma", "start", "run", "rows"} /\ x \in {"start", "run", "rows"}
  /\ x = "rows" => engine # "remote" /\ c \in Queries
  /\ UNCHANGED <<engine, readOnly, stmt, result, alone, watch, handler, unguarded, database>>
  /\ engine = "sqlite" => mutex' = mutex
  /\ interrupted' => interrupted /\ (c \in Active \/ x = "start")
  /\ queryOnly => queryOnly'
  /\ c \in Queries /\ readOnly =>
       queryOnly' \/ (pc[c] \notin {"pragma", "rows"} \/ engine # "remote")

LEMMA MoveKept ==
  ASSUME IInv, NEW c \in Calls, NEW x, GoesOn(c, x)
  PROVE  Rest'
<1> USE DEF GoesOn
<1>0. /\ \A d \in Calls \ {c} : pc'[d] = pc[d]
      /\ pc'[c] = x
  BY DEF Moves
<1>1. Stages'
  BY <1>0 DEF IInv, Stages
<1>2. Deadlines'
  BY <1>0 DEF IInv, Deadlines, InProgress
<1>3. Owners'
  <2>1. engine = "sqlite" => pc[c] # "pragma"
    BY DEF IInv, Stages
  <2> QED BY <1>0, <2>1 DEF IInv, Owners, TypeOK
<1>4. Solitude'
  BY <1>0 DEF IInv, Solitude, InProgress
<1>5. Flag'
  BY <1>0 DEF IInv, Flag, Active
<1>6. Guarded' /\ Plain'
  BY <1>0 DEF IInv, Guarded, Plain, Stages, database
<1>7. OwnDeadline' /\ NoWrite' /\ Effects' /\ Committed'
  BY DEF IInv, OwnDeadline, NoWrite, Effects, Does, Committed, writing, database
<1> QED BY <1>1, <1>2, <1>3, <1>4, <1>5, <1>6, <1>7 DEF Rest

\* The end of a statement, as the actions have it.
LEMMA OverKept ==
  ASSUME IInv, TypeOK', NEW c \in Calls, NEW r \in Results \ {"none"}, Over(c, r),
         pc[c] \in {"pragma", "start", "run", "rows"},
         pc[c] = "run" \/ r = "interrupted",
         UNCHANGED <<engine, readOnly, stmt, alone, watch, handler, session>>,
         interrupted' => interrupted,
         engine = "sqlite" => mutex' = mutex,
         r = "abandoned" => engine = "remote" /\ c \in Queries,
         r = "ok" => ~Refused(c),
         r = "interrupted" /\ alone[c] => c \in Queries /\ watch[c] = "fired"
  PROVE  Rest'
<1>1. TypeOK
  BY DEF IInv
<1>2. Ended(c, r) /\ Settled(c, r)
  BY <1>1, OverStep
<1>3. EndOfStatement(c, r)
  BY <1>2 DEF EndOfStatement
<1>4. r = "ok" => ~Refused(c)
  OBVIOUS
<1>5. Wrote(c, r)
  BY <1>1, <1>2, <1>4, SettledStep DEF Wrote, Settles, Does
<1> QED BY <1>3, <1>5, EndKept

\* The same for one that was not sent.
LEMMA NotSentKept ==
  ASSUME IInv, TypeOK', NEW c \in Calls, NEW r \in {"failed", "abandoned"}, NotSent(c, r),
         pc[c] \in {"pragma", "start"},
         UNCHANGED <<engine, readOnly, stmt, alone, watch, handler, session>>,
         interrupted' => interrupted,
         engine = "sqlite" => mutex' = mutex,
         r = "abandoned" => engine = "remote" /\ c \in Queries
  PROVE  Rest'
<1>1. TypeOK /\ r \in Results
  BY DEF IInv, Results
<1>2. Ended(c, r) /\ UNCHANGED database
  BY <1>1, NotSentStep
<1>3. EndOfStatement(c, r)
  BY <1>2 DEF EndOfStatement
<1>4. Wrote(c, r)
  BY <1>2 DEF Wrote, Settles, database
<1> QED BY <1>1, <1>3, <1>4, EndKept

LEMMA BeginKept ==
  ASSUME IInv, NEW c \in Calls, Begin(c),
         \A q \in Queries \ {c} : stmt'[q] = stmt[q],
         readOnly /\ c \in Queries => stmt'[c] \notin Control,
         c \in Catalogs => watch' = watch,
         c \in Queries => watch' = [watch EXCEPT ![c] = IF engine = "sqlite" THEN @ ELSE "waiting"]
  PROVE  Rest'
<1>0. /\ pc[c] = "idle" /\ pc'[c] \in {"lock", "pragma", "start"} /\ result[c] = "none"
      /\ pc'[c] = "lock" <=> engine = "sqlite"
      /\ pc'[c] = "pragma" <=> engine = "remote" /\ readOnly /\ c \in Queries
      /\ \A d \in Calls \ {c} : pc'[d] = pc[d]
      /\ alone'[c] => \A d \in Calls : ~InProgress(d)
      /\ \A d \in Calls \ {c} : alone'[d] <=> alone[d] /\ ~InProgress(d)
  BY BeginStep DEF Moves, IInv, Stages
<1>1. /\ engine' = engine /\ readOnly' = readOnly /\ result' = result /\ handler' = handler
      /\ mutex' = mutex /\ interrupted' = interrupted /\ queryOnly' = queryOnly
      /\ unguarded' = unguarded /\ manual' = manual /\ within' = within
      /\ pending' = pending /\ kept' = kept
  BY DEF Begin, chosen, session, database
<1>2. \A q \in Queries : q # c => watch'[q] = watch[q]
  <2>1. CASE c \in Queries
    BY <2>1 DEF IInv, TypeOK
  <2>2. CASE c \notin Queries
    BY <2>2
  <2> QED BY <2>1, <2>2
<1>3. Stages'
  BY <1>0, <1>1 DEF IInv, Stages
<1>4. Deadlines'
  <2> SUFFICES ASSUME NEW q \in Queries
               PROVE  /\ watch'[q] \in {"waiting", "due"} => pc'[q] \notin {"idle", "end"}
                      /\ watch'[q] = "due" => engine' = "libsql"
    BY DEF Deadlines, InProgress
  <2>1. CASE q = c
    BY <2>1, <1>0, <1>1 DEF IInv, Deadlines, InProgress, TypeOK
  <2>2. CASE q # c
    BY <2>2, <1>0, <1>1, <1>2 DEF IInv, Deadlines, InProgress
  <2> QED BY <2>1, <2>2
<1>5. Owners'
  BY <1>0, <1>1 DEF IInv, Owners
<1>6. Solitude'
  BY <1>0, <1>1 DEF IInv, Solitude, InProgress
<1>7. Flag'
  <2> SUFFICES ASSUME interrupted', NEW d \in Calls, pc'[d] \in {"run", "rows"}, alone'[d]
               PROVE  d \in Queries /\ watch'[d] = "fired"
    BY <1>1 DEF IInv, Flag, Active
  <2> QED BY <1>0, <1>1 DEF InProgress
<1>8. Guarded' /\ Plain'
  BY <1>0, <1>1, EnginesAssumption DEF IInv, Guarded, Plain, TypeOK
<1>9. OwnDeadline'
  BY <1>0, <1>1, <1>2 DEF IInv, OwnDeadline
<1>10. NoWrite' /\ Effects'
  <2>1. \A q \in pending \union kept : q \in Queries \ {c}
    BY <1>0 DEF IInv, Effects, Does, TypeOK
  <2> QED BY <1>1, <2>1 DEF IInv, NoWrite, Effects, Does
<1>11. Committed'
  <2> SUFFICES ASSUME NEW q \in writing', result[q] = "ok", engine # "libsql" \/ alone'[q]
               PROVE  q \in kept \union within
    BY <1>1 DEF Committed
  <2>1. q # c /\ q \in writing /\ q \in Calls
    BY <1>0 DEF IInv, writing
  <2> QED BY <2>1, <1>0 DEF IInv, Committed
<1> QED BY <1>3, <1>4, <1>5, <1>6, <1>7, <1>8, <1>9, <1>10, <1>11 DEF Rest

LEMMA LockKept ==
  ASSUME IInv, NEW c \in Calls, Lock(c)
  PROVE  Rest'
<1>0. /\ pc[c] = "lock" /\ engine = "sqlite" /\ mutex = NoCall /\ mutex' = c /\ pc'[c] = "start"
      /\ \A d \in Calls \ {c} : pc'[d] = pc[d]
      /\ \A q \in Queries \ {c} : watch'[q] = watch[q]
      /\ c \in Queries => watch'[c] = "waiting"
  BY DEF Lock, IInv, Stages, TypeOK
<1>1. /\ engine' = engine /\ readOnly' = readOnly /\ result' = result /\ alone' = alone
      /\ stmt' = stmt /\ interrupted' = interrupted /\ queryOnly' = queryOnly
      /\ unguarded' = unguarded /\ manual' = manual /\ within' = within
      /\ pending' = pending /\ kept' = kept
  BY DEF Lock, chosen, session, database
<1>2. Stages'
  BY <1>0, <1>1 DEF IInv, Stages
<1>3. Deadlines'
  BY <1>0, <1>1 DEF IInv, Deadlines, InProgress
<1>4. Owners'
  BY <1>0, <1>1, CallsAssumption DEF IInv, Owners, Lock, Handler, TypeOK
<1>5. Solitude'
  BY <1>0, <1>1 DEF IInv, Solitude, InProgress
<1>6. Flag' /\ Guarded' /\ Plain'
  BY <1>0, <1>1 DEF IInv, Flag, Guarded, Plain
<1>7. OwnDeadline'
  BY <1>0, <1>1 DEF IInv, OwnDeadline, Stages
<1>8. NoWrite' /\ Effects' /\ Committed'
  BY <1>1 DEF IInv, NoWrite, Effects, Does, Committed, writing
<1> QED BY <1>2, <1>3, <1>4, <1>5, <1>6, <1>7, <1>8 DEF Rest

\* Only the deadline of a call in progress sets the flag: an alone statement
\* has no other's to fear.
LEMMA DeadlineKept ==
  ASSUME IInv, NEW q \in Queries, Expire(q) \/ Interrupt(q)
  PROVE  Rest'
<1>0. /\ engine' = engine /\ readOnly' = readOnly /\ result' = result /\ alone' = alone /\ pc' = pc
      /\ stmt' = stmt /\ queryOnly' = queryOnly /\ mutex' = mutex /\ handler' = handler
      /\ unguarded' = unguarded /\ manual' = manual /\ within' = within
      /\ pending' = pending /\ kept' = kept
  BY DEF Expire, Interrupt, chosen, session, database
<1>1. /\ \A p \in Queries \ {q} : watch'[p] = watch[p]
      /\ watch'[q] \in {"due", "fired"} /\ (watch'[q] = "due" => engine = "libsql")
      /\ InProgress(q) /\ pc[q] # "idle"
      /\ interrupted' => interrupted \/ (engine = "libsql" /\ watch'[q] = "fired")
      /\ watch[q] \in {"waiting", "due"}
  BY DEF Expire, Interrupt, IInv, Deadlines, TypeOK, InProgress
<1>2. Deadlines'
  BY <1>0, <1>1 DEF IInv, Deadlines, InProgress
<1>3. Flag'
  <2> SUFFICES ASSUME interrupted'
               PROVE  /\ engine = "libsql"
                      /\ \A c \in Active : alone[c] => c \in Queries /\ watch'[c] = "fired"
    BY <1>0 DEF Flag, Active
  <2>1. CASE interrupted
    BY <2>1, <1>1 DEF IInv, Flag
  <2>2. CASE ~interrupted
    <3>1. engine = "libsql" /\ watch'[q] = "fired"
      BY <2>2, <1>1
    <3>2. \A c \in Active : alone[c] => c = q
      BY <1>1 DEF IInv, Solitude, InProgress, Active
    <3> QED BY <3>1, <3>2
  <2> QED BY <2>1, <2>2
<1>4. OwnDeadline'
  BY <1>0, <1>1 DEF IInv, OwnDeadline
<1>5. Stages' /\ Owners' /\ Solitude' /\ Guarded' /\ Plain' /\ NoWrite' /\ Effects' /\ Committed'
  BY <1>0 DEF IInv, Stages, Owners, Solitude, Guarded, Plain, NoWrite, Effects, Does, Committed,
              writing, InProgress
<1> QED BY <1>2, <1>3, <1>4, <1>5 DEF Rest

LEMMA AnswerKept ==
  ASSUME IInv, NEW c \in Calls, Answer(c)
  PROVE  Rest'
<1>0. /\ pc[c] = "join" /\ pc'[c] = "end"
      /\ \A d \in Calls \ {c} : pc'[d] = pc[d]
      /\ \A q \in Queries : q # c \/ watch[q] # "waiting" => watch'[q] = watch[q]
      /\ c \in Queries => watch'[c] \notin {"waiting", "due"}
  BY DEF Answer, Joined, IInv, TypeOK
<1>1. /\ engine' = engine /\ readOnly' = readOnly /\ result' = result /\ alone' = alone
      /\ stmt' = stmt /\ interrupted' = interrupted /\ queryOnly' = queryOnly
      /\ unguarded' = unguarded /\ manual' = manual /\ within' = within
      /\ pending' = pending /\ kept' = kept
  BY DEF Answer, chosen, session, database
<1>2. Stages'
  BY <1>0, <1>1 DEF IInv, Stages
<1>3. Deadlines'
  BY <1>0, <1>1 DEF IInv, Deadlines, InProgress
<1>4. Owners'
  <2>1. CASE engine = "sqlite"
    <3>1. mutex = c /\ mutex' = NoCall
      BY <2>1, <1>0 DEF Answer, IInv, Owners
    <3>2. handler' = NoCall
      BY <2>1, <3>1, <1>0 DEF Answer, IInv, Owners, TypeOK
    <3> QED BY <2>1, <3>1, <3>2, <1>0, <1>1, CallsAssumption DEF IInv, Owners
  <2>2. CASE engine # "sqlite"
    BY <2>2, <1>1 DEF Answer, IInv, Owners
  <2> QED BY <2>1, <2>2
<1>5. Solitude'
  BY <1>0, <1>1 DEF IInv, Solitude, InProgress
<1>6. Flag'
  BY <1>0, <1>1 DEF IInv, Flag, Active
<1>7. Guarded' /\ Plain'
  BY <1>0, <1>1 DEF IInv, Guarded, Plain
<1>8. OwnDeadline'
  BY <1>0, <1>1 DEF IInv, OwnDeadline
<1>9. NoWrite' /\ Effects' /\ Committed'
  BY <1>1 DEF IInv, NoWrite, Effects, Does, Committed, writing
<1> QED BY <1>2, <1>3, <1>4, <1>5, <1>6, <1>7, <1>8, <1>9 DEF Rest

LEMMA DropKept ==
  ASSUME IInv, DropStream
  PROVE  Rest'
<1>0. /\ engine' = engine /\ readOnly' = readOnly /\ result' = result /\ alone' = alone /\ pc' = pc
      /\ stmt' = stmt /\ watch' = watch /\ mutex' = mutex /\ handler' = handler
      /\ interrupted' = interrupted /\ engine = "remote"
      /\ manual' = FALSE /\ within' = within /\ pending' = {} /\ kept' = kept
  BY DEF DropStream, RollBack, chosen
<1>1. /\ unguarded \subseteq unguarded'
      /\ readOnly => \A q \in Queries : pc[q] \in {"start", "run"} => q \in unguarded'
  BY DEF DropStream
<1>2. Guarded' /\ Plain' /\ NoWrite'
  BY <1>0, <1>1 DEF IInv, Guarded, Plain, NoWrite
<1> QED
  BY <1>0, <1>2 DEF Rest, IInv, Stages, Deadlines, Owners, Solitude, Flag, Active,
                    OwnDeadline, Effects, Does, Committed, writing, InProgress

-----------------------------------------------------------------------------
(* Every step keeps the invariant.                                         *)

LEMMA NextRest ==
  ASSUME IInv, TypeOK', Next
  PROVE  Rest'
<1>t. TypeOK
  BY DEF IInv
<1>1. ASSUME NEW q \in Queries, Query(q) PROVE Rest'
  <2>1. PICK t \in Offered[q] : (readOnly => t \notin Control) /\ stmt' = [stmt EXCEPT ![q] = t]
    BY <1>1 DEF Query
  <2>2. /\ \A p \in Queries \ {q} : stmt'[p] = stmt[p]
        /\ readOnly => stmt'[q] \notin Control
    BY <2>1 DEF IInv, TypeOK
  <2> QED BY <1>1, <2>2, CallsAssumption, BeginKept DEF Query
<1>2. ASSUME NEW k \in Catalogs, Catalog(k) PROVE Rest'
  <2>1. k \notin Queries
    BY CallsAssumption
  <2> QED BY <1>2, <2>1, BeginKept DEF Catalog
<1>3. ASSUME NEW c \in Calls, Lock(c) PROVE Rest'
  BY <1>3, LockKept
<1>4. ASSUME NEW q \in Queries, Pragma(q) PROVE Rest'
  <2>1. GoesOn(q, "start")
    BY <1>4 DEF Pragma, GoesOn, Moves, IInv, TypeOK, Pcs, chosen, database
  <2> QED BY <2>1, MoveKept
<1>5. ASSUME NEW c \in Calls, Start(c) PROVE Rest'
  <2>0. /\ pc[c] = "start" /\ (interrupted' => interrupted /\ Active # {})
        /\ UNCHANGED <<engine, readOnly, stmt, alone, watch, handler, session>>
    BY <1>5 DEF Start, chosen
  <2>1. CASE StepLock(c) /\ ~interrupted' /\ pc' = [pc EXCEPT ![c] = "run"]
               /\ UNCHANGED <<left, result, database>>
    <3>1. GoesOn(c, "run")
      BY <2>0, <2>1, <1>t, LockStep DEF GoesOn, Moves, TypeOK, Pcs, session, database
    <3> QED BY <3>1, MoveKept
  <2>2. CASE interrupted' /\ Over(c, "interrupted") /\ UNCHANGED mutex
    <3>1. ~alone[c]
      BY <2>0, <2>2 DEF IInv, Solitude, InProgress, Active
    <3> QED BY <2>0, <2>2, <3>1, OverKept DEF Results
  <2> QED BY <1>5, <2>1, <2>2 DEF Start
<1>6. ASSUME NEW q \in Queries, Row(q) PROVE Rest'
  <2>1. GoesOn(q, "rows")
    BY <1>6, <1>t, UnlockStep DEF Row, GoesOn, Moves, TypeOK, Pcs, Active, chosen, session, database
  <2> QED BY <2>1, MoveKept
<1>7. ASSUME NEW q \in Queries, NextRow(q) PROVE Rest'
  <2>0. /\ pc[q] = "rows" /\ interrupted' = interrupted /\ q \in Active
        /\ UNCHANGED <<engine, readOnly, stmt, alone, watch, handler, session>>
    BY <1>7 DEF NextRow, Active, chosen
  <2>1. CASE ~interrupted /\ StepLock(q) /\ pc' = [pc EXCEPT ![q] = "run"]
               /\ UNCHANGED <<left, result, database>>
    <3>1. engine # "remote"
      BY <2>0 DEF IInv, Stages
    <3>2. GoesOn(q, "run")
      BY <2>0, <2>1, <3>1, <1>t, LockStep DEF GoesOn, Moves, TypeOK, Pcs, session, database
    <3> QED BY <3>2, MoveKept
  <2>2. CASE interrupted /\ Over(q, "interrupted") /\ UNCHANGED mutex
    <3>1. alone[q] => watch[q] = "fired"
      BY <2>0, <2>2 DEF IInv, Flag
    <3> QED BY <2>0, <2>2, <3>1, OverKept DEF Results
  <2> QED BY <1>7, <2>1, <2>2 DEF NextRow
<1>8. ASSUME NEW c \in Calls, Finish(c) PROVE Rest'
  <2>0. /\ pc[c] = "run" /\ interrupted' = interrupted /\ c \in Active /\ ~Refused(c)
        /\ UNCHANGED <<engine, readOnly, stmt, alone, watch, handler, session>>
        /\ (engine = "sqlite" => mutex' = mutex)
    BY <1>8, <1>t, UnlockStep DEF Finish, Active, chosen
  <2>1. CASE c \in Catalogs /\ More(c)
    <3>1. GoesOn(c, "start")
      BY <1>8, <2>0, <2>1, <1>t DEF Finish, GoesOn, Moves, TypeOK, Pcs, session, database
    <3> QED BY <3>1, MoveKept
  <2>2. CASE ~(c \in Catalogs /\ More(c))
    <3>1. Over(c, "ok")
      BY <1>8, <2>2 DEF Finish
    <3> QED BY <2>0, <3>1, OverKept DEF Results
  <2> QED BY <2>1, <2>2
<1>9. ASSUME NEW c \in Calls, Fail(c) PROVE Rest'
  <2>1. /\ interrupted' = interrupted
        /\ UNCHANGED <<engine, readOnly, stmt, alone, watch, handler, session>>
        /\ (engine = "sqlite" => mutex' = mutex)
    BY <1>9, <1>t, UnlockStep DEF Fail, chosen
  <2>2. CASE pc[c] = "run" /\ Over(c, "failed")
    BY <2>1, <2>2, OverKept DEF Results
  <2>3. CASE pc[c] = "pragma" /\ NotSent(c, "failed")
    BY <2>1, <2>3, NotSentKept
  <2> QED BY <1>9, <2>2, <2>3 DEF Fail
<1>10. ASSUME NEW c \in Calls, Interrupted(c) PROVE Rest'
  <2>1. /\ pc[c] = "run" /\ interrupted' = interrupted /\ Over(c, "interrupted") /\ Hit
        /\ UNCHANGED <<engine, readOnly, stmt, alone, watch, handler, session>>
        /\ (engine = "sqlite" => mutex' = mutex)
    BY <1>10, <1>t, UnlockStep DEF Interrupted, chosen
  <2>2. alone[c] => c \in Queries /\ watch[c] = "fired"
    <3>1. CASE interrupted
      BY <2>1, <3>1 DEF IInv, Flag, Active
    <3>2. CASE handler # NoCall /\ watch[handler] = "fired"
      <4>1. handler = c
        BY <2>1, <3>2 DEF IInv, Owners
      <4> QED BY <3>2, <4>1 DEF IInv, TypeOK
    <3> QED BY <2>1, <3>1, <3>2 DEF Hit
  <2> QED BY <2>1, <2>2, OverKept DEF Results
<1>11. ASSUME NEW q \in Queries, Abandon(q) PROVE Rest'
  <2>1. /\ engine = "remote" /\ interrupted' = interrupted /\ mutex' = mutex
        /\ UNCHANGED <<engine, readOnly, stmt, alone, watch, handler, session>>
    BY <1>11 DEF Abandon, chosen
  <2>2. CASE pc[q] = "run" /\ Over(q, "abandoned")
    BY <2>1, <2>2, OverKept DEF Results
  <2>3. CASE pc[q] \in {"pragma", "start"} /\ NotSent(q, "abandoned")
    BY <2>1, <2>3, NotSentKept
  <2> QED BY <1>11, <2>2, <2>3 DEF Abandon
<1>12. ASSUME NEW q \in Queries, Expire(q) \/ Interrupt(q) PROVE Rest'
  BY <1>12, DeadlineKept
<1>13. ASSUME NEW c \in Calls, Answer(c) PROVE Rest'
  BY <1>13, AnswerKept
<1>14. ASSUME DropStream PROVE Rest'
  BY <1>14, DropKept
<1> QED
  BY <1>1, <1>2, <1>3, <1>4, <1>5, <1>6, <1>7, <1>8, <1>9, <1>10, <1>11, <1>12, <1>13, <1>14
  DEF Next

LEMMA NextInv == IInv /\ [Next]_vars => IInv'
<1> SUFFICES ASSUME IInv, [Next]_vars PROVE IInv'
  OBVIOUS
<1>1. CASE Next
  <2>1. TypeOK'
    BY <1>1, TypeStep DEF IInv
  <2>2. Rest'
    BY <1>1, <2>1, NextRest
  <2> QED BY <2>1, <2>2 DEF Rest, IInv
<1>2. CASE UNCHANGED vars
  BY <1>2 DEF vars, IInv, TypeOK, Stages, Deadlines, Owners, Solitude, Flag, Guarded, Plain,
              OwnDeadline, NoWrite, Effects, Does, Committed, writing, InProgress, Active
<1> QED BY <1>1, <1>2

LEMMA Invariance == Spec => []IInv
BY InitInv, NextInv, PTL DEF Spec

-----------------------------------------------------------------------------
(* The properties the runs check.                                          *)

\* Every state is typed, and a call that had the connection for itself is
\* interrupted by no watchdog and no progress handler but its own: what is
\* joined or taken out before the answer stays out of later calls.
THEOREM WatchdogsOKHolds == Spec => []WatchdogsOK
<1>1. IInv => WatchdogsOK
  BY DEF IInv, WatchdogsOK
<1> QED BY <1>1, Invariance, PTL

\* A read-only server of each kind changes nothing in its database, although a
\* remote one loses its pragma with every stream it drops: but for the one
\* statement whose stream is dropped between its own pragma and it.
THEOREM NoWriteHolds == Spec => []NoWrite
<1>1. IInv => NoWrite
  BY DEF IInv
<1> QED BY <1>1, Invariance, PTL

\* What the caller is told of a write is what became of it: done is committed,
\* or (in write mode) in a client's transaction; and on a local file an error
\* or a timeout left nothing behind.
THEOREM HonestAnswerHolds == Spec => []HonestAnswer
<1>1. IInv => HonestAnswer
  <2> SUFFICES ASSUME IInv, NEW q \in writing
               PROVE  /\ Outcome(q) = "ok" /\ (engine # "libsql" \/ alone[q]) =>
                           q \in kept \/ (~readOnly /\ q \in within)
                      /\ Outcome(q) \in {"error", "timeout"} /\ engine # "remote" /\ stmt[q] = "write" =>
                           q \notin pending \union kept
    BY DEF HonestAnswer
  <2>1. q \in Calls
    BY DEF writing
  <2>2. /\ Outcome(q) = "ok" => result[q] = "ok"
        /\ Outcome(q) \in {"error", "timeout"} => result[q] # "ok"
    BY DEF Outcome
  <2>3. result[q] = "abandoned" => engine = "remote"
    BY <2>1 DEF IInv, Stages
  <2>4. readOnly => within = {}
    BY DEF IInv, Plain
  <2> QED BY <2>2, <2>3, <2>4 DEF IInv, Effects, Does, Committed
<1> QED BY <1>1, Invariance, PTL
=============================================================================
