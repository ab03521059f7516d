-------------------------- MODULE IsolatedPyProofs --------------------------
(* What the proof system checks about IsolatedPy: for any calls, and any   *)
(* numbers of children and crashes.                                        *)
EXTENDS IsolatedPy, SequenceTheorems, TLAPS

USE DEF Calls, Children, NoChild, ReplyQueue, NewChild

-----------------------------------------------------------------------------
(* The inductive invariant.                                                *)

\* What the parent is at, and for whom.
Control ==
  /\ phase = "connecting" => caller = "none" /\ pc \in {"start", "initWrite", "initWait"}
  /\ phase = "stopped" => caller = "none" /\ pc = "idle" /\ current = NoChild
  /\ phase = "serving" => (pc = "idle" <=> caller = "none")
  /\ pc \in {"write", "wait"} => phase = "serving"
  /\ pc \in {"initWrite", "initWait", "write", "wait"} => current # NoChild
  /\ pc = "start" => current = NoChild
  /\ \A q \in Calls : status[q] = "called" <=> caller = q

\* Children that are still to come, and the reader threads of the others.
Numbered ==
  /\ current <= forks
  /\ \A c \in Children :
       /\ c > forks => /\ proc[c] = "none" /\ c \notin reading
                       /\ stdin[c] = <<>> /\ stdout[c] = <<>> /\ replies[c] = <<>>
       /\ c <= forks => proc[c] # "none"
       /\ c <= forks /\ c \notin reading => proc[c] = "gone" /\ stdout[c] = <<>>

\* No reply of c is under way; its queue may have the end of its output.
NoReply(c) ==
  stdout[c] = <<>> /\ (replies[c] = <<>> \/ (replies[c] = <<EOF>> /\ c \notin reading))

\* Nothing is asked of c, and nothing is under way.
Quiet(c) == NoReply(c) /\ (Alive(c) => stdin[c] = <<>>)

\* c's reply l is on its way to the parent, behind it perhaps the end.
Replied(c, l) ==
  /\ Alive(c) => stdin[c] = <<>>
  /\ \/ stdout[c] = <<l>> /\ replies[c] = <<>>
     \/ stdout[c] = <<>> /\ (replies[c] = <<l>> \/ (replies[c] = <<l, EOF>> /\ c \notin reading))

\* c was asked for m. It has not replied, or once, after m was done.
Asked(c, m) ==
  \/ NoReply(c) /\ (Alive(c) => stdin[c] = <<m>>)
  \/ \E l \in Line : Replied(c, l) /\ (l = "ok" /\ m # "init" => m \in done)

\* One request at a time: that is all that pairs replies with requests.
Paired ==
  /\ pc \in {"idle", "initWrite", "write"} /\ current # NoChild => Quiet(current)
  /\ pc = "initWait" => Asked(current, "init")
  /\ pc = "wait" => Asked(current, caller)

\* A call is written to one child, once, and is not done before.
Written(q) == \E c \in Children : stdin[c] = <<q>>
Unsent(q) == status[q] = "idle" \/ (caller = q /\ pc # "wait")
Once ==
  /\ \A c \in Children : stdin[c] = <<>> \/ \E m \in Calls \union {"init"} : stdin[c] = <<m>>
  /\ \A q \in Calls : Written(q) => q \notin done
  /\ \A q \in Calls : Unsent(q) => ~Written(q) /\ q \notin done
  /\ \A q \in Calls, c, d \in Children : stdin[c] = <<q>> /\ stdin[d] = <<q>> => c = d

IInv == TypeOK /\ OneChild /\ Control /\ Numbered /\ Paired /\ Once

-----------------------------------------------------------------------------
(* Sequences of at most two lines.                                         *)

LEMMA Lines ==
  \A x, y : /\ <<x>> # <<>> /\ Head(<<x>>) = x /\ Tail(<<x>>) = <<>>
            /\ <<x, y>> # <<>> /\ Head(<<x, y>>) = x /\ Tail(<<x, y>>) = <<y>>
            /\ <<x>> # <<x, y>>
OBVIOUS

LEMMA Appended ==
  ASSUME NEW S, NEW x \in S, NEW y \in S
  PROVE  Append(<<>>, x) = <<x>> /\ Append(<<x>>, y) = <<x, y>>
<1>1. Append(<<>>, x) = <<x>>
  OBVIOUS
<1>0. <<x>> \in Seq(S)
  OBVIOUS
<1>2. PICK s : s = <<x>>
  OBVIOUS
<1>3. PICK t : t = Append(s, y)
  OBVIOUS
<1>4. t \in Seq(S) /\ Len(t) = Len(s) + 1 /\ t[Len(s) + 1] = y
  BY <1>0, <1>2, <1>3, AppendProperties
<1>5. \A i \in 1..Len(s) : t[i] = s[i]
  BY <1>0, <1>2, <1>3, AppendProperties
<1>6. Len(s) = 1 /\ s[1] = x
  BY <1>2
<1>7. Len(t) = 2 /\ t[1] = x /\ t[2] = y
  BY <1>4, <1>5, <1>6
<1>8. PICK u : u = <<x, y>>
  OBVIOUS
<1>9. u \in Seq(S) /\ Len(u) = 2 /\ u[1] = x /\ u[2] = y
  BY <1>8
<1>10. t = u
  BY <1>4, <1>7, <1>9, SeqEqual
<1> QED BY <1>1, <1>2, <1>3, <1>8, <1>10

LEMMA SameLine ==
  ASSUME NEW x, NEW y, <<x>> = <<y>>
  PROVE  x = y
OBVIOUS

LEMMA InitInv == Init => IInv
<1> SUFFICES ASSUME Init PROVE IInv
  OBVIOUS
<1>1. TypeOK
  <2>1. 0 \in 0..MaxForks /\ 0 \in 0..MaxCrashes
    BY BoundsAssumption
  <2>2. /\ status \in [Calls -> {"idle", "called", "ok"} \union Raised]
        /\ replies \in [Children -> Seq(Line \union {EOF})]
        /\ proc \in [Children -> {"none", "running", "killed", "gone"}]
        /\ stdin \in [Children -> Seq(Calls \union {"init"})]
        /\ stdout \in [Children -> Seq(Line)]
    BY DEF Init
  <2> QED BY <2>1, <2>2 DEF Init, TypeOK
<1>2. OneChild
  BY DEF Init, OneChild
<1>3. Control
  BY CallsAssumption DEF Init, Control
<1>4. Numbered
  BY BoundsAssumption DEF Init, Numbered
<1>5. Paired
  BY DEF Init, Paired
<1>6. Once
  BY CallsAssumption, Lines DEF Init, Once, Written, Unsent
<1> QED BY <1>1, <1>2, <1>3, <1>4, <1>5, <1>6 DEF IInv

-----------------------------------------------------------------------------
(* What the operations do, call by call and child by child.                *)

LEMMA ReturnStep ==
  ASSUME TypeOK, NEW s \in {"ok"} \union Raised, caller \in Calls, Return(s)
  PROVE  /\ status' \in [Calls -> {"idle", "called", "ok"} \union Raised]
         /\ status'[caller] = s /\ caller' = "none" /\ pc' = "idle"
         /\ \A q \in Calls \ {caller} : status'[q] = status[q]
BY DEF Return, TypeOK

LEMMA KilledStep ==
  ASSUME TypeOK, NEW c \in Children, proc' = Killed(c)
  PROVE  /\ proc' \in [Children -> {"none", "running", "killed", "gone"}]
         /\ proc'[c] # "running"
         /\ \A d \in Children : /\ d # c => proc'[d] = proc[d]
                                /\ proc'[d] = "none" <=> proc[d] = "none"
                                /\ proc'[d] = "gone" <=> proc[d] = "gone"
<1>1. /\ proc' = [proc EXCEPT ![c] = IF proc[c] = "running" THEN "killed" ELSE proc[c]]
      /\ proc \in [Children -> {"none", "running", "killed", "gone"}]
  BY DEF Killed, TypeOK
<1> QED BY <1>1

\* _start gives up: the current child is killed, and the call, if this is not
\* the server's own start, fails.
LEMMA FailedStep ==
  ASSUME TypeOK, Control, StartFailed, pc \in {"initWrite", "initWait"}
  PROVE  /\ current' = NoChild /\ current \in Children /\ proc' = Killed(current)
         /\ phase = "connecting" =>
              phase' = "stopped" /\ pc' = "idle" /\ caller' = caller /\ status' = status
         /\ phase # "connecting" =>
              /\ phase = "serving" /\ phase' = phase /\ caller \in Calls /\ Return("startFailed")
<1>1. current \in Children
  BY DEF TypeOK, Control
<1>2. phase # "connecting" => phase = "serving" /\ caller \in Calls
  BY DEF TypeOK, Control
<1> QED BY <1>1, <1>2 DEF StartFailed

LEMMA WaitReply ==
  ASSUME TypeOK, NEW c \in Children, NEW m, Asked(c, m), replies[c] # <<>>
  PROVE  /\ \/ replies[c] = <<EOF>> /\ c \notin reading
            \/ /\ Tail(replies[c]) = <<>> \/ (Tail(replies[c]) = <<EOF>> /\ c \notin reading)
               /\ Head(replies[c]) \in Line
               /\ Head(replies[c]) = "ok" /\ m # "init" => m \in done
               /\ Alive(c) => stdin[c] = <<>>
         /\ stdout[c] = <<>>
<1>1. CASE NoReply(c)
  BY <1>1 DEF NoReply
<1>2. ASSUME NEW l \in Line, Replied(c, l), l = "ok" /\ m # "init" => m \in done
      PROVE  /\ Tail(replies[c]) = <<>> \/ (Tail(replies[c]) = <<EOF>> /\ c \notin reading)
             /\ Head(replies[c]) = l
             /\ stdout[c] = <<>> /\ (Alive(c) => stdin[c] = <<>>)
  BY <1>2, Lines DEF Replied
<1> QED BY <1>1, <1>2 DEF Asked

-----------------------------------------------------------------------------
(* The types.                                                              *)

Stati == {"idle", "called", "ok"} \union Raised
Procs == {"none", "running", "killed", "gone"}

LEMMA FailedTypes ==
  ASSUME TypeOK, Control, StartFailed, pc \in {"initWrite", "initWait"}
  PROVE  /\ proc' \in [Children -> Procs] /\ current' = NoChild
         /\ phase' \in {"connecting", "serving", "stopped"} /\ caller' \in Calls \union {"none"}
         /\ pc' = "idle" /\ status' \in [Calls -> Stati]
<1>1. CASE phase = "connecting"
  BY <1>1, FailedStep, KilledStep DEF TypeOK, Stati, Procs
<1>2. CASE phase # "connecting"
  <2>1. phase' = phase /\ caller \in Calls /\ Return("startFailed")
    BY <1>2, FailedStep
  <2>2. status' \in [Calls -> Stati] /\ caller' = "none" /\ pc' = "idle"
    BY <2>1, ReturnStep DEF Raised, Stati
  <2> QED BY <2>1, <2>2, FailedStep, KilledStep DEF TypeOK, Procs
<1> QED BY <1>1, <1>2

\* A child takes a request from its stdin, and perhaps completes it.
LEMMA TakenTypes ==
  ASSUME TypeOK, NEW c \in Children, Takes(c)
  PROVE  /\ stdin' \in [Children -> Seq(Calls \union {"init"})]
         /\ MayDo(c) /\ Completes(c) => done' \subseteq Calls
<1>1. stdin[c] \in Seq(Calls \union {"init"}) /\ stdin[c] # <<>>
  BY DEF Takes, TypeOK
<1>2. Tail(stdin[c]) \in Seq(Calls \union {"init"}) /\ Head(stdin[c]) \in Calls \union {"init"}
  BY <1>1, HeadTailProperties
<1> QED BY <1>2 DEF Takes, MayDo, Completes, TypeOK

LEMMA TypeStep == TypeOK /\ Control /\ Numbered /\ Next => TypeOK'
<1> SUFFICES ASSUME TypeOK, Control, Numbered, Next PROVE TypeOK'
  OBVIOUS
<1>r. \A c \in Children : Tail(replies[c]) \in Seq(Line \union {EOF}) \/ replies[c] = <<>>
  BY DEF TypeOK
<1>1. ASSUME NEW q \in Calls, Invoke(q) PROVE TypeOK'
  BY <1>1 DEF Invoke, TypeOK, threadVars, childVars
<1>2. CASE Start
  <2>1. forks + 1 \in Children /\ forks + 1 \in 0..MaxForks
    BY <1>2, BoundsAssumption DEF Start, TypeOK
  <2> QED BY <1>2, <2>1 DEF Start, TypeOK
<1>3. CASE InitWrite
  <2>1. CASE StartFailed /\ UNCHANGED stdin
    BY <1>3, <2>1, FailedTypes DEF InitWrite, TypeOK, threadVars, Stati, Procs
  <2>2. CASE stdin' = [stdin EXCEPT ![current] = Append(@, "init")] /\ pc' = "initWait"
               /\ UNCHANGED <<phase, current, caller, status, proc>>
    <3>1. current \in Children
      BY <1>3 DEF InitWrite, Control, TypeOK
    <3>2. Append(stdin[current], "init") \in Seq(Calls \union {"init"})
      BY <3>1 DEF TypeOK
    <3> QED BY <1>3, <2>2, <3>2 DEF InitWrite, TypeOK, threadVars
  <2> QED BY <1>3, <2>1, <2>2 DEF InitWrite
<1>4. CASE InitWait
  <2>0. /\ pc = "initWait" /\ current \in Children /\ replies[current] # <<>>
        /\ replies' = [replies EXCEPT ![current] = Tail(replies[current])]
        /\ UNCHANGED <<reading, forks, crashes, stdin, stdout, torn, opened, done>>
    BY <1>4 DEF InitWait, Control, TypeOK
  <2>1. replies' \in [Children -> Seq(Line \union {EOF})]
    BY <2>0, <1>r DEF TypeOK
  <2>2. CASE StartFailed
    BY <2>0, <2>1, <2>2, FailedTypes DEF TypeOK, Stati, Procs
  <2>3. CASE UNCHANGED <<current, caller, status, proc>> /\ \/ phase' = "serving" /\ pc' = "idle"
                                                            \/ pc' = "write" /\ phase' = phase
    BY <2>0, <2>1, <2>3 DEF TypeOK
  <2> QED BY <1>4, <2>2, <2>3 DEF InitWait
<1>5. CASE Write
  <2>0. pc = "write" /\ current \in Children /\ caller \in Calls
    BY <1>5 DEF Write, Control, TypeOK
  <2>1. CASE stdin' = [stdin EXCEPT ![current] = Append(@, caller)] /\ pc' = "wait"
               /\ UNCHANGED <<caller, status>>
    <3>1. Append(stdin[current], caller) \in Seq(Calls \union {"init"})
      BY <2>0 DEF TypeOK
    <3> QED BY <1>5, <2>1, <3>1 DEF Write, TypeOK, threadVars
  <2>2. CASE Return("brokenPipe") /\ UNCHANGED stdin
    <3>1. "brokenPipe" \in {"ok"} \union Raised
      BY DEF Raised
    <3> QED BY <1>5, <2>0, <2>2, <3>1, ReturnStep DEF Write, TypeOK, threadVars
  <2> QED BY <1>5, <2>1, <2>2 DEF Write
<1>6. CASE Get
  <2>0. /\ pc = "wait" /\ current \in Children /\ caller \in Calls /\ replies[current] # <<>>
        /\ replies' = [replies EXCEPT ![current] = Tail(replies[current])]
        /\ UNCHANGED <<phase, reading, childVars>>
    BY <1>6 DEF Get, Control, TypeOK
  <2>1. replies' \in [Children -> Seq(Line \union {EOF})]
    BY <2>0, <1>r DEF TypeOK
  <2>2. \E s \in {"ok"} \union Raised : Return(s) /\ current' \in {current, NoChild}
    BY <1>6 DEF Get, Line, Raised
  <2> QED BY <2>0, <2>1, <2>2, ReturnStep DEF TypeOK, childVars
<1>7. CASE Timeout
  <2>0. /\ pc = "wait" /\ current \in Children /\ caller \in Calls /\ Return("timeout")
        /\ proc' = Killed(current) /\ current' = NoChild
    BY <1>7 DEF Timeout, Control, TypeOK
  <2>1. "timeout" \in {"ok"} \union Raised
    BY DEF Raised
  <2> QED BY <1>7, <2>0, <2>1, ReturnStep, KilledStep DEF Timeout, TypeOK, threadVars
<1>8. CASE Close
  <2>1. proc' \in [Children -> {"none", "running", "killed", "gone"}]
    BY <1>8, KilledStep DEF Close, TypeOK
  <2> QED BY <1>8, <2>1 DEF Close, TypeOK, threadVars
<1>9. ASSUME NEW c \in Children, Read(c) PROVE TypeOK'
  <2>1. CASE stdout[c] # <<>> /\ stdout' = [stdout EXCEPT ![c] = Tail(@)] /\ UNCHANGED reading
               /\ replies' = [replies EXCEPT ![c] = Append(@, Head(stdout[c]))]
    <3>0. stdout[c] \in Seq(Line)
      BY DEF TypeOK
    <3>1. Tail(stdout[c]) \in Seq(Line) /\ Head(stdout[c]) \in Line
      BY <2>1, <3>0, HeadTailProperties
    <3>2. Append(replies[c], Head(stdout[c])) \in Seq(Line \union {EOF})
      BY <3>1 DEF TypeOK
    <3> QED BY <1>9, <2>1, <3>1, <3>2 DEF Read, TypeOK
  <2>2. CASE UNCHANGED stdout /\ reading' = reading \ {c}
               /\ replies' \in {replies, [replies EXCEPT ![c] = Append(@, EOF)]}
    <3>1. Append(replies[c], EOF) \in Seq(Line \union {EOF})
      BY DEF TypeOK
    <3>2. replies' \in [Children -> Seq(Line \union {EOF})]
      BY <2>2, <3>1 DEF TypeOK
    <3> QED BY <1>9, <2>2, <3>2 DEF Read, TypeOK
  <2> QED BY <1>9, <2>1, <2>2 DEF Read
<1>10. ASSUME NEW c \in Children, Serve(c) PROVE TypeOK'
  <2>1. PICK l \in Line :
          /\ stdout' = [stdout EXCEPT ![c] = Append(@, l)]
          /\ opened' \subseteq opened \union {c}
          /\ done' = done \/ (MayDo(c) /\ Completes(c))
    BY <1>10 DEF Serve
  <2>2. Append(stdout[c], l) \in Seq(Line)
    BY DEF TypeOK
  <2>3. stdin' \in [Children -> Seq(Calls \union {"init"})] /\ done' \subseteq Calls
    BY <1>10, <2>1, TakenTypes DEF Serve, TypeOK
  <2> QED BY <1>10, <2>1, <2>2, <2>3 DEF Serve, TypeOK, threadVars
<1>d. ASSUME NEW c \in Children, Ends(c)
      PROVE  /\ proc' \in [Children -> Procs] /\ torn' \subseteq Children
             /\ stdin' \in [Children -> Seq(Calls \union {"init"})] /\ done' \subseteq Calls
  BY <1>d, TakenTypes DEF Ends, TypeOK, Procs
<1>11. ASSUME NEW c \in Children, Die(c) PROVE TypeOK'
  BY <1>11, <1>d DEF Die, TypeOK, threadVars, Procs
<1>12. ASSUME NEW c \in Children, Crash(c) PROVE TypeOK'
  BY <1>12, <1>d, BoundsAssumption DEF Crash, TypeOK, threadVars, Procs
<1> QED
  BY <1>1, <1>2, <1>3, <1>4, <1>5, <1>6, <1>7, <1>8, <1>9, <1>10, <1>11, <1>12 DEF Next

-----------------------------------------------------------------------------
(* The other parts, by kinds of step.                                      *)

Rest == OneChild /\ Control /\ Numbered /\ Paired /\ Once

\* The call in progress, if there is one, has returned s.
Returned(s) ==
  /\ phase' = phase /\ phase = "serving" /\ caller' = "none" /\ pc' = "idle"
  /\ s \notin {"idle", "called"} /\ caller \in Calls /\ status'[caller] = s
  /\ \A q \in Calls \ {caller} : status'[q] = status[q]

Stopped ==
  /\ phase' = "stopped" /\ caller' = "none" /\ pc' = "idle" /\ caller = "none" /\ status' = status

\* The parent gives its child up.
LEMMA GiveUpKept ==
  ASSUME IInv, NEW s, Returned(s) \/ Stopped, current' = NoChild,
         UNCHANGED <<forks, reading, stdin, stdout, done>>,
         \A c \in Children : replies'[c] = replies[c] \/ c = current,
         \/ current \in Children /\ proc' = Killed(current)
         \/ proc' = proc /\ (current \in Children => proc[current] # "running")
  PROVE  Rest'
<1>0. TypeOK /\ "none" \notin Calls /\ forks \in Nat
  <2>1. TypeOK BY DEF IInv
  <2>2. "none" \notin Calls BY CallsAssumption
  <2>3. forks \in Nat BY <2>1, BoundsAssumption DEF TypeOK
  <2> QED BY <2>1, <2>2, <2>3
<1>1. \A c \in Children : /\ proc'[c] # "running"
                          /\ proc'[c] = "none" <=> proc[c] = "none"
                          /\ proc'[c] = "gone" <=> proc[c] = "gone"
  <2>1. CASE current \in Children /\ proc' = Killed(current)
    <3>1. \A c \in Children : proc[c] = "running" => c = current
      BY DEF IInv, OneChild
    <3>2. /\ proc'[current] # "running"
          /\ \A d \in Children : /\ d # current => proc'[d] = proc[d]
                                 /\ proc'[d] = "none" <=> proc[d] = "none"
                                 /\ proc'[d] = "gone" <=> proc[d] = "gone"
      BY <1>0, <2>1, KilledStep
    <3> QED BY <3>1, <3>2
  <2>2. CASE proc' = proc /\ (current \in Children => proc[current] # "running")
    BY <2>2 DEF IInv, OneChild
  <2> QED BY <2>1, <2>2
<1>2. OneChild'
  BY <1>1 DEF OneChild
<1>3. Control'
  <2>1. CASE Returned(s)
    BY <1>0, <2>1 DEF Returned, IInv, Control
  <2>2. CASE Stopped
    BY <1>0, <2>2 DEF Stopped, IInv, Control
  <2> QED BY <2>1, <2>2
<1>4. Numbered'
  <2>1. current \in Children => current <= forks
    BY DEF IInv, Numbered
  <2> QED BY <1>0, <1>1, <2>1 DEF IInv, Numbered
<1>5. Paired'
  BY DEF Paired, Returned, Stopped
<1>6. Once'
  <2>1. \A q \in Calls : Unsent(q)' => Unsent(q)
    BY <1>0 DEF Unsent, Returned, Stopped
  <2> QED BY <2>1 DEF IInv, Once, Written
<1> QED BY <1>2, <1>3, <1>4, <1>5, <1>6 DEF Rest

\* The parent goes on, and leaves the children alone.
LEMMA GoOnKept ==
  ASSUME IInv, Control', Paired',
         UNCHANGED <<current, proc, forks, reading, stdin, stdout, done>>,
         \A c \in Children : replies'[c] = replies[c] \/ c = current,
         \A q \in Calls : Unsent(q)' => Unsent(q)
  PROVE  Rest'
<1>0. forks \in Nat
  BY DEF IInv, TypeOK
<1>1. OneChild'
  BY DEF IInv, OneChild
<1>2. Numbered'
  BY <1>0 DEF IInv, Numbered
<1>3. Once'
  BY DEF IInv, Once, Written
<1> QED BY <1>1, <1>2, <1>3 DEF Rest

\* A request is written to the current child, which was quiet.
LEMMA WrittenKept ==
  ASSUME IInv, NEW m \in Calls \union {"init"}, current \in Children, Alive(current), Quiet(current),
         m = "init" => pc' = "initWait",
         m # "init" => pc' = "wait" /\ m = caller /\ Unsent(m),
         pc = IF m = "init" THEN "initWrite" ELSE "write",
         stdin' = [stdin EXCEPT ![current] = Append(@, m)],
         UNCHANGED <<phase, current, caller, status, replies, reading, forks, proc, stdout, done>>
  PROVE  Rest'
<1>0. forks \in Nat /\ stdin \in [Children -> Seq(Calls \union {"init"})] /\ "init" \notin Calls
  BY CallsAssumption DEF IInv, TypeOK
<1>1. /\ stdin[current] = <<>> /\ stdin'[current] = <<m>>
      /\ \A c \in Children : c # current => stdin'[c] = stdin[c]
  BY <1>0, Appended DEF Quiet
<1>2. OneChild'
  BY DEF IInv, OneChild
<1>3. Control'
  BY <1>0 DEF IInv, Control
<1>4. Numbered'
  BY <1>0, <1>1 DEF IInv, Numbered
<1>5. Paired'
  <2>1. NoReply(current)' /\ (Alive(current) => stdin'[current] = <<m>>)
    BY <1>1 DEF Quiet, NoReply
  <2>2. Asked(current, m)'
    BY <2>1 DEF Asked, Alive
  <2> QED BY <2>2, <1>0 DEF Paired
<1>6. Once'
  <2>1. \A c \in Children : stdin'[c] = <<>> \/ \E n \in Calls \union {"init"} : stdin'[c] = <<n>>
    BY <1>1 DEF IInv, Once
  <2>2. \A q \in Calls : \A c \in Children : stdin'[c] = <<q>> <=> stdin[c] = <<q>> \/ (c = current /\ q = m)
    BY <1>1, SameLine, Lines
  <2>3. m \in Calls => m \notin done /\ ~Written(m)
    BY <1>0 DEF IInv, Once
  <2>4. \A q \in Calls : Unsent(q)' => Unsent(q) /\ q # m
    <3>1. m \in Calls => status[m] = "called"
      BY <1>0 DEF IInv, Control
    <3> QED BY <3>1, <1>0 DEF Unsent
  <2>5. \A q \in Calls : Written(q)' => Written(q) \/ q = m
    BY <2>2 DEF Written
  <2>6. \A q \in Calls, c, d \in Children : stdin'[c] = <<q>> /\ stdin'[d] = <<q>> => c = d
    BY <2>2, <2>3 DEF IInv, Once, Written
  <2> QED BY <2>1, <2>3, <2>4, <2>5, <2>6 DEF IInv, Once
<1> QED BY <1>2, <1>3, <1>4, <1>5, <1>6 DEF Rest

LEMMA StartKept ==
  ASSUME IInv, Start
  PROVE  Rest'
<1> DEFINE n == forks + 1
<1>0. /\ pc = "start" /\ n \in Children /\ forks' = n /\ current' = n /\ pc' = "initWrite"
      /\ proc' = [proc EXCEPT ![n] = "running"] /\ reading' = reading \union {n}
      /\ UNCHANGED <<phase, caller, status, replies, crashes, stdin, stdout, opened, done>>
  <2>1. n \in Children
    BY BoundsAssumption DEF Start, IInv, TypeOK
  <2> QED BY <2>1 DEF Start
<1>1. /\ proc'[n] = "running" /\ forks \in Nat /\ n \notin reading
      /\ stdin[n] = <<>> /\ stdout[n] = <<>> /\ replies[n] = <<>>
      /\ \A c \in Children : c # n => proc'[c] = proc[c]
  BY <1>0 DEF IInv, TypeOK, Numbered
<1>2. OneChild'
  BY <1>0, <1>1 DEF IInv, OneChild, Control
<1>3. Control'
  BY <1>0 DEF IInv, Control
<1>4. Numbered'
  BY <1>0, <1>1 DEF IInv, Numbered
<1>5. Paired'
  BY <1>0, <1>1 DEF Paired, Quiet, NoReply
<1>6. Once'
  <2>1. \A q \in Calls : Unsent(q)' => Unsent(q)
    BY <1>0 DEF Unsent
  <2> QED BY <1>0, <2>1 DEF IInv, Once, Written
<1> QED BY <1>2, <1>3, <1>4, <1>5, <1>6 DEF Rest

\* A step of a child or of its reader leaves the requests paired.
LEMMA PairedKept ==
  ASSUME IInv, UNCHANGED <<pc, current, caller>>,
         \A d \in Children : Quiet(d) => Quiet(d)',
         \A d \in Children, m \in Calls \union {"init"} : Asked(d, m) => Asked(d, m)'
  PROVE  Paired'
<1>1. PICK d : d = current
  OBVIOUS
<1>2. PICK q : q = caller
  OBVIOUS
<1>3. /\ d \in Children \union {NoChild} /\ q \in Calls \union {"none"}
      /\ pc \in {"initWait", "wait"} => d \in Children
      /\ pc = "wait" => q \in Calls
  BY <1>1, <1>2 DEF IInv, TypeOK, Control
<1>4. pc \in {"idle", "initWrite", "write"} /\ d # NoChild => Quiet(d)'
  BY <1>1, <1>3 DEF IInv, Paired
<1>5. pc = "initWait" => Asked(d, "init")'
  BY <1>1, <1>3 DEF IInv, Paired
<1>6. pc = "wait" => Asked(d, q)'
  BY <1>1, <1>2, <1>3 DEF IInv, Paired
<1>7. pc' = pc /\ current' = d /\ caller' = q
  BY <1>1, <1>2
<1> QED BY <1>4, <1>5, <1>6, <1>7 DEF Paired

\* The reader thread moves what is under way, and does not change it.
LEMMA ReadKept ==
  ASSUME IInv, NEW c \in Children, Read(c)
  PROVE  Rest'
<1>0. /\ UNCHANGED <<phase, current, caller, pc, status, forks, proc, stdin, done>>
      /\ c \in reading /\ forks \in Nat
      /\ \A d \in Children : d # c => stdout'[d] = stdout[d] /\ replies'[d] = replies[d]
                                       /\ (d \in reading' <=> d \in reading)
  <2>1. CASE /\ stdout' = [stdout EXCEPT ![c] = Tail(@)] /\ UNCHANGED reading
             /\ replies' = [replies EXCEPT ![c] = Append(@, Head(stdout[c]))]
    BY <2>1 DEF Read, IInv, TypeOK
  <2>2. CASE /\ UNCHANGED stdout /\ reading' = reading \ {c}
             /\ replies' \in {replies, [replies EXCEPT ![c] = Append(@, EOF)]}
    <3>1. \A d \in Children : d # c => replies'[d] = replies[d]
      BY <2>2 DEF IInv, TypeOK
    <3> QED BY <2>2, <3>1 DEF Read, IInv, TypeOK
  <2> QED BY <2>1, <2>2 DEF Read
<1>1. \/ /\ stdout[c] # <<>> /\ stdout'[c] = Tail(stdout[c]) /\ reading' = reading
         /\ replies'[c] = Append(replies[c], Head(stdout[c]))
      \/ /\ stdout[c] = <<>> /\ proc[c] = "gone" /\ reading' = reading \ {c} /\ stdout'[c] = <<>>
         /\ replies'[c] \in {replies[c], Append(replies[c], EOF)}
  BY DEF Read, IInv, TypeOK
<1>2. ASSUME NEW d \in Children, Quiet(d) PROVE Quiet(d)'
  <2>1. CASE d # c
    BY <1>0, <1>2, <2>1 DEF Quiet, NoReply, Alive
  <2>2. CASE d = c
    <3>1. stdout[c] = <<>> /\ replies[c] = <<>>
      BY <1>0, <1>2, <2>2 DEF Quiet, NoReply
    <3>2. /\ stdout'[c] = <<>> /\ proc[c] = "gone" /\ reading' = reading \ {c}
          /\ replies'[c] \in {<<>>, <<EOF>>}
      BY <1>1, <3>1, Appended
    <3> QED BY <1>0, <2>2, <3>2 DEF Quiet, NoReply, Alive
  <2> QED BY <2>1, <2>2
<1>3. ASSUME NEW d \in Children, NEW m, NoReply(d), Alive(d) => stdin[d] = <<m>> PROVE Asked(d, m)'
  <2>1. CASE d # c
    BY <1>0, <1>3, <2>1 DEF Asked, NoReply, Alive
  <2>2. CASE d = c
    <3>1. stdout[c] = <<>> /\ replies[c] = <<>>
      BY <1>0, <1>3, <2>2 DEF NoReply
    <3>2. /\ stdout'[c] = <<>> /\ proc[c] = "gone" /\ reading' = reading \ {c}
          /\ replies'[c] \in {<<>>, <<EOF>>}
      BY <1>1, <3>1, Appended
    <3> QED BY <1>0, <2>2, <3>2 DEF Asked, NoReply, Alive
  <2> QED BY <2>1, <2>2
<1>4. ASSUME NEW d \in Children, NEW l \in Line, Replied(d, l) PROVE Replied(d, l)'
  <2>1. CASE d # c
    BY <1>0, <1>4, <2>1 DEF Replied, Alive
  <2>2. CASE d = c /\ stdout[c] = <<l>> /\ replies[c] = <<>>
    <3>1. stdout'[c] = <<>> /\ replies'[c] = <<l>>
      BY <1>1, <2>2, Lines, Appended
    <3> QED BY <1>0, <1>4, <2>2, <3>1 DEF Replied, Alive
  <2>3. CASE d = c /\ stdout[c] = <<>> /\ replies[c] = <<l>>
    <3>1. l \in Line \union {EOF} /\ EOF \in Line \union {EOF}
      OBVIOUS
    <3>2. stdout'[c] = <<>> /\ replies'[c] \in {<<l>>, <<l, EOF>>} /\ c \notin reading'
      BY <1>1, <2>3, <3>1, Appended
    <3> QED BY <1>0, <1>4, <2>3, <3>2 DEF Replied, Alive
  <2> QED BY <1>0, <1>4, <2>1, <2>2, <2>3 DEF Replied
<1>5. ASSUME NEW d \in Children, NEW m, Asked(d, m) PROVE Asked(d, m)'
  <2>1. ASSUME NEW l \in Line, Replied(d, l), l = "ok" /\ m # "init" => m \in done PROVE Asked(d, m)'
    <3>1. Replied(d, l)' /\ done' = done
      BY <1>0, <1>4, <2>1
    <3> QED BY <2>1, <3>1 DEF Asked
  <2> QED BY <1>3, <1>5, <2>1 DEF Asked
<1>6. OneChild' /\ Control'
  BY <1>0 DEF IInv, OneChild, Control
<1>7. Numbered'
  <2>1. c <= forks
    BY <1>0 DEF IInv, Numbered
  <2> QED BY <1>0, <1>1, <2>1 DEF IInv, Numbered
<1>8. Paired'
  BY <1>0, <1>2, <1>5, PairedKept
<1>9. Once'
  <2>1. \A q \in Calls : Unsent(q)' <=> Unsent(q)
    BY <1>0 DEF Unsent
  <2> QED BY <1>0, <2>1 DEF IInv, Once, Written
<1> QED BY <1>6, <1>7, <1>8, <1>9 DEF Rest

\* A child takes the one request it has, and completes it or not.
LEMMA TakesStep ==
  ASSUME IInv, NEW c \in Children, Takes(c), done' = done \/ (MayDo(c) /\ Completes(c))
  PROVE  \E m \in Calls \union {"init"} :
           /\ stdin[c] = <<m>> /\ stdin'[c] = <<>> /\ Head(stdin[c]) = m
           /\ \A d \in Children \ {c} : stdin'[d] = stdin[d]
           /\ done' = done \/ (m # "init" /\ done' = done \union {m})
<1>1. PICK m \in Calls \union {"init"} : stdin[c] = <<m>>
  BY DEF Takes, IInv, Once
<1>2. Head(stdin[c]) = m /\ stdin' = [stdin EXCEPT ![c] = <<>>]
  BY <1>1, Lines DEF Takes
<1>3. done' = done \/ (m # "init" /\ done' = done \union {m})
  BY <1>2 DEF MayDo, Completes
<1> QED BY <1>1, <1>2, <1>3 DEF IInv, TypeOK

\* What was asked of one child is asked once, also when the child took it.
LEMMA TakesKept ==
  ASSUME IInv, NEW c \in Children, Takes(c), done' = done \/ (MayDo(c) /\ Completes(c)),
         UNCHANGED <<status, caller, pc>>
  PROVE  Once'
<1>1. PICK m \in Calls \union {"init"} :
        /\ stdin[c] = <<m>> /\ stdin'[c] = <<>>
        /\ \A d \in Children \ {c} : stdin'[d] = stdin[d]
        /\ done' = done \/ (m # "init" /\ done' = done \union {m})
  BY TakesStep
<1>2. \A q \in Calls : Unsent(q)' <=> Unsent(q)
  BY DEF Unsent
<1>3. \A q \in Calls, d \in Children : stdin'[d] = <<q>> => stdin[d] = <<q>> /\ d # c
  BY <1>1, Lines
<1>4. \A d \in Children : stdin'[d] = <<>> \/ \E n \in Calls \union {"init"} : stdin'[d] = <<n>>
  BY <1>1 DEF IInv, Once
<1>5. \A q \in Calls : Written(q)' => Written(q) /\ q # m
  BY <1>1, <1>3 DEF Written, IInv, Once
<1>6. m \in Calls => ~Unsent(m)
  BY <1>1 DEF IInv, Once, Written
<1>7. \A q \in Calls : Unsent(q)' => ~Written(q)' /\ q \notin done'
  BY <1>1, <1>2, <1>5, <1>6 DEF IInv, Once
<1>8. \A q \in Calls : Written(q)' => q \notin done'
  BY <1>1, <1>5 DEF IInv, Once
<1>9. \A q \in Calls, d, e \in Children : stdin'[d] = <<q>> /\ stdin'[e] = <<q>> => d = e
  BY <1>3 DEF IInv, Once
<1> QED BY <1>4, <1>7, <1>8, <1>9 DEF Once

\* A child that served its request writes one reply to it.
LEMMA ServeStep ==
  ASSUME IInv, NEW c \in Children, Serve(c)
  PROVE  \E m \in Calls \union {"init"}, l \in Line :
           /\ stdin[c] = <<m>> /\ stdin'[c] = <<>> /\ stdout'[c] = Append(stdout[c], l)
           /\ \A d \in Children \ {c} : stdin'[d] = stdin[d]
           /\ done' = IF m # "init" /\ l = "ok" THEN done \union {m} ELSE done
<1>0. Takes(c) /\ (done' = done \/ (MayDo(c) /\ Completes(c)))
  BY DEF Serve
<1>1. PICK m \in Calls \union {"init"} :
        /\ stdin[c] = <<m>> /\ stdin'[c] = <<>> /\ Head(stdin[c]) = m
        /\ \A d \in Children \ {c} : stdin'[d] = stdin[d]
  BY <1>0, TakesStep
<1>2. PICK l \in Line :
        /\ stdout' = [stdout EXCEPT ![c] = Append(@, l)]
        /\ done' = IF m # "init" /\ l = "ok" THEN done \union {m} ELSE done
  BY <1>1 DEF Serve, MayDo, Completes
<1> QED BY <1>1, <1>2 DEF IInv, TypeOK

LEMMA ServeKept ==
  ASSUME IInv, NEW c \in Children, Serve(c)
  PROVE  Rest'
<1>0. /\ UNCHANGED <<phase, current, caller, pc, status, forks, proc, replies, reading>>
      /\ Alive(c) /\ forks \in Nat /\ "init" \notin Calls
      /\ \A d \in Children : d # c => stdout'[d] = stdout[d]
      /\ Takes(c) /\ (done' = done \/ (MayDo(c) /\ Completes(c)))
  BY CallsAssumption DEF Serve, threadVars, IInv, TypeOK
<1>1. PICK m \in Calls \union {"init"}, l \in Line :
        /\ stdin[c] = <<m>> /\ stdin'[c] = <<>> /\ stdout'[c] = Append(stdout[c], l)
        /\ \A d \in Children \ {c} : stdin'[d] = stdin[d]
        /\ done' = IF m # "init" /\ l = "ok" THEN done \union {m} ELSE done
  BY ServeStep
<1>2. ASSUME NEW d \in Children, Quiet(d) PROVE Quiet(d)'
  <2>1. d # c
    BY <1>0, <1>1, <1>2, Lines DEF Quiet
  <2> QED BY <1>0, <1>1, <1>2, <2>1 DEF Quiet, NoReply, Alive
<1>3. ASSUME NEW d \in Children, NEW n, Asked(d, n) PROVE Asked(d, n)'
  <2>1. CASE d # c
    <3>1. /\ NoReply(d)' <=> NoReply(d)
          /\ Alive(d)' <=> Alive(d)
          /\ \A k \in Line : Replied(d, k) => Replied(d, k)'
      BY <1>0, <1>1, <2>1 DEF NoReply, Alive, Replied
    <3>2. done \subseteq done'
      BY <1>1
    <3> QED BY <1>0, <1>1, <1>3, <2>1, <3>1, <3>2 DEF Asked
  <2>2. CASE d = c
    <3>1. NoReply(c) /\ n = m
      <4>1. ASSUME NEW k \in Line, Replied(c, k) PROVE FALSE
        BY <1>0, <1>1, <4>1, Lines DEF Replied
      <4>2. NoReply(c) /\ stdin[c] = <<n>>
        BY <1>0, <1>3, <2>2, <4>1 DEF Asked
      <4> QED BY <1>1, <4>2, SameLine
    <3>2. stdout'[c] = <<l>>
      BY <1>1, <3>1, Appended DEF NoReply
    <3>3. c \in reading /\ replies'[c] = <<>>
      BY <1>0, <3>1 DEF IInv, Numbered, Alive, NoReply
    <3>4. Replied(c, l)' /\ (l = "ok" /\ n # "init" => n \in done')
      BY <1>0, <1>1, <3>1, <3>2, <3>3 DEF Replied
    <3> QED BY <2>2, <3>4 DEF Asked
  <2> QED BY <2>1, <2>2
<1>4. OneChild' /\ Control'
  BY <1>0 DEF IInv, OneChild, Control
<1>5. Numbered'
  <2>1. c <= forks /\ c \in reading
    BY <1>0 DEF IInv, Numbered, Alive
  <2> QED BY <1>0, <1>1, <2>1 DEF IInv, Numbered
<1>6. Paired'
  BY <1>0, <1>2, <1>3, PairedKept
<1>7. Once'
  BY <1>0, TakesKept
<1> QED BY <1>4, <1>5, <1>6, <1>7 DEF Rest

\* A death leaves the requests alone or takes the one that was being served.
LEMMA EndsStep ==
  ASSUME NEW c \in Children, Ends(c)
  PROVE  \/ UNCHANGED <<stdin, done>>
         \/ Takes(c) /\ (done' = done \/ (MayDo(c) /\ Completes(c)))
BY DEF Ends

LEMMA DeathKept ==
  ASSUME IInv, NEW c \in Children, Die(c) \/ Crash(c)
  PROVE  Rest'
<1>0. /\ UNCHANGED <<phase, current, caller, pc, status, forks, replies, reading, stdout>>
      /\ Alive(c) /\ proc'[c] = "gone" /\ \A d \in Children : d # c => proc'[d] = proc[d]
      /\ Ends(c)
  BY DEF Die, Crash, Ends, threadVars, IInv, TypeOK, Alive
<1>1. forks \in Nat
  BY DEF IInv, TypeOK
<1>2. /\ \A d \in Children : Alive(d)' => Alive(d) /\ d # c
      /\ \A d \in Children : d # c => stdin'[d] = stdin[d]
      /\ done \subseteq done'
  <2>1. CASE UNCHANGED <<stdin, done>>
    BY <1>0, <2>1 DEF Alive
  <2>2. CASE Takes(c) /\ (done' = done \/ (MayDo(c) /\ Completes(c)))
    BY <1>0, <2>2, TakesStep DEF Alive
  <2> QED BY <1>0, <2>1, <2>2, EndsStep
<1>3. OneChild'
  BY <1>0 DEF IInv, OneChild
<1>4. Control'
  BY <1>0 DEF IInv, Control
<1>5. Numbered'
  <2>1. c <= forks
    BY <1>0, <1>1 DEF IInv, Numbered, Alive
  <2> QED BY <1>0, <1>1, <1>2, <2>1 DEF IInv, Numbered, Alive
<1>6. ASSUME NEW d \in Children, Quiet(d) PROVE Quiet(d)'
  BY <1>0, <1>2, <1>6 DEF Quiet, NoReply
<1>7. ASSUME NEW d \in Children, NEW n, Asked(d, n) PROVE Asked(d, n)'
  BY <1>0, <1>2, <1>7 DEF Asked, NoReply, Replied
<1>8. Paired'
  BY <1>0, <1>6, <1>7, PairedKept
<1>9. Once'
  <2>1. CASE UNCHANGED <<stdin, done>>
    <3>1. \A q \in Calls : Unsent(q)' <=> Unsent(q)
      BY <1>0 DEF Unsent
    <3> QED BY <1>0, <2>1, <3>1 DEF IInv, Once, Written
  <2>2. CASE Takes(c) /\ (done' = done \/ (MayDo(c) /\ Completes(c)))
    BY <1>0, <2>2, TakesKept
  <2> QED BY <1>0, <2>1, <2>2, EndsStep
<1> QED BY <1>3, <1>4, <1>5, <1>8, <1>9 DEF Rest

\* What StartFailed, Timeout and the end of a child do to the call.
LEMMA FailedReturns ==
  ASSUME IInv, StartFailed, pc \in {"initWrite", "initWait"}
  PROVE  /\ Returned("startFailed") \/ Stopped
         /\ current \in Children /\ current' = NoChild /\ proc' = Killed(current)
<1>0. TypeOK /\ Control
  BY DEF IInv
<1>1. CASE phase = "connecting"
  BY <1>0, <1>1, FailedStep DEF Stopped, Control
<1>2. CASE phase # "connecting"
  <2>1. Return("startFailed") /\ caller \in Calls /\ phase' = phase /\ phase = "serving"
    BY <1>0, <1>2, FailedStep
  <2>2. "startFailed" \in {"ok"} \union Raised
    BY DEF Raised
  <2> QED BY <1>0, <2>1, <2>2, FailedStep, ReturnStep DEF Returned
<1> QED BY <1>1, <1>2

LEMMA CallReturns ==
  ASSUME IInv, NEW s \in {"ok"} \union Raised, pc \in {"write", "wait"}, Return(s), phase' = phase
  PROVE  /\ Returned(s) /\ current \in Children
         /\ Control' \/ (current' # current)
         /\ \A q \in Calls : Unsent(q)' => Unsent(q)
<1>0. TypeOK /\ Control /\ "none" \notin Calls
  BY CallsAssumption DEF IInv
<1>1. caller \in Calls /\ current \in Children /\ phase = "serving"
  BY <1>0 DEF TypeOK, Control
<1>2. Returned(s)
  BY <1>0, <1>1, ReturnStep DEF Returned, Raised
<1>3. current' = current => Control'
  BY <1>0, <1>1, <1>2 DEF Returned, Control
<1>4. \A q \in Calls : Unsent(q)' => Unsent(q)
  BY <1>0, <1>2 DEF Returned, Unsent
<1> QED BY <1>1, <1>2, <1>3, <1>4

\* The reply the parent reads is the answer to what it asked.
LEMMA ReplyIsRead ==
  ASSUME IInv, NEW m \in Calls \union {"init"},
         (pc = "initWait" /\ m = "init") \/ (pc = "wait" /\ m = caller),
         replies[current] # <<>>, replies' = [replies EXCEPT ![current] = Tail(@)],
         UNCHANGED <<proc, reading, stdin, stdout>>
  PROVE  /\ current \in Children
         /\ \A c \in Children : replies'[c] = replies[c] \/ c = current
         /\ Head(replies[current]) = EOF => proc[current] = "gone"
         /\ Head(replies[current]) # EOF =>
              /\ Head(replies[current]) \in Line
              /\ Head(replies[current]) = "ok" /\ m # "init" => m \in done
              /\ stdout[current] = <<>> /\ (Alive(current) => stdin[current] = <<>>)
              /\ \/ replies'[current] = <<>>
                 \/ replies'[current] = <<EOF>> /\ current \notin reading
<1>0. /\ TypeOK /\ current \in Children /\ current <= forks
      /\ Asked(current, m)
  BY DEF IInv, TypeOK, Control, Numbered, Paired
<1>1. replies'[current] = Tail(replies[current]) /\ \A c \in Children : replies'[c] = replies[c] \/ c = current
  BY <1>0 DEF TypeOK
<1>2. CASE replies[current] = <<EOF>> /\ current \notin reading
  BY <1>0, <1>1, <1>2, Lines DEF IInv, Numbered
<1>3. CASE ~(replies[current] = <<EOF>> /\ current \notin reading)
  <2>1. /\ Tail(replies[current]) = <<>> \/ (Tail(replies[current]) = <<EOF>> /\ current \notin reading)
        /\ Head(replies[current]) \in Line
        /\ Head(replies[current]) = "ok" /\ m # "init" => m \in done
        /\ Alive(current) => stdin[current] = <<>>
        /\ stdout[current] = <<>>
    BY <1>0, <1>3, WaitReply
  <2> QED BY <1>0, <1>1, <2>1 DEF EOF, Line
<1> QED BY <1>2, <1>3

-----------------------------------------------------------------------------
(* Every step keeps the invariant.                                         *)

LEMMA NextRest ==
  ASSUME IInv, Next
  PROVE  Rest'
<1>t. TypeOK /\ Control /\ "none" \notin Calls /\ "init" \notin Calls
  BY CallsAssumption DEF IInv
<1>1. ASSUME NEW q \in Calls, Invoke(q) PROVE Rest'
  <2>1. /\ phase = "serving" /\ pc = "idle" /\ status[q] = "idle" /\ caller' = q
        /\ status'[q] = "called" /\ (\A p \in Calls \ {q} : status'[p] = status[p])
        /\ pc' = (IF current = NoChild THEN "start" ELSE "write")
        /\ UNCHANGED <<phase, current, threadVars, childVars>>
    BY <1>1, <1>t DEF Invoke, TypeOK
  <2>2. Control'
    BY <1>t, <2>1 DEF Control
  <2>3. Paired'
    BY <2>1 DEF IInv, Paired, Quiet, NoReply, Alive, threadVars, childVars
  <2>4. \A p \in Calls : Unsent(p)' => Unsent(p)
    BY <1>t, <2>1 DEF Unsent, Control
  <2> QED BY <2>1, <2>2, <2>3, <2>4, GoOnKept DEF threadVars, childVars
<1>2. CASE Start
  BY <1>2, StartKept
<1>3. CASE InitWrite
  <2>0. /\ pc = "initWrite" /\ current \in Children
        /\ UNCHANGED <<replies, reading, forks, stdout, done>>
    BY <1>3, <1>t DEF InitWrite, Control, TypeOK, threadVars
  <2>1. CASE /\ Alive(current) /\ stdin' = [stdin EXCEPT ![current] = Append(@, "init")]
             /\ pc' = "initWait" /\ UNCHANGED <<phase, current, caller, status, proc>>
    <3>1. Quiet(current)
      BY <2>0 DEF IInv, Paired
    <3> QED BY <2>0, <2>1, <3>1, WrittenKept
  <2>2. CASE StartFailed /\ UNCHANGED stdin
    BY <2>0, <2>2, FailedReturns, GiveUpKept
  <2> QED BY <1>3, <2>1, <2>2 DEF InitWrite
<1>4. CASE InitWait
  <2>0. /\ pc = "initWait" /\ replies[current] # <<>>
        /\ replies' = [replies EXCEPT ![current] = Tail(@)]
        /\ UNCHANGED <<reading, forks, stdin, stdout, done>>
    BY <1>4 DEF InitWait
  <2>1. CASE StartFailed
    <3>1. current \in Children
      BY <1>t, <2>0 DEF Control, TypeOK
    <3>2. \A c \in Children : replies'[c] = replies[c] \/ c = current
      BY <1>t, <2>0, <3>1 DEF TypeOK
    <3> QED BY <2>0, <2>1, <3>2, FailedReturns, GiveUpKept
  <2>2. CASE /\ Head(replies[current]) = "ok"
             /\ \/ phase = "connecting" /\ phase' = "serving" /\ pc' = "idle"
                \/ phase # "connecting" /\ pc' = "write" /\ UNCHANGED phase
             /\ UNCHANGED <<current, caller, status, proc>>
    <3>1. /\ current \in Children /\ (Alive(current) => stdin[current] = <<>>)
          /\ \A c \in Children : replies'[c] = replies[c] \/ c = current
          /\ stdout[current] = <<>>
          /\ replies'[current] = <<>> \/ (replies'[current] = <<EOF>> /\ current \notin reading)
      <4>1. "init" \in Calls \union {"init"} /\ Head(replies[current]) # EOF
        BY <2>2 DEF EOF
      <4> QED BY <2>0, <2>2, <4>1, ReplyIsRead
    <3>2. Control'
      BY <1>t, <2>0, <2>2 DEF Control, TypeOK
    <3>3. Paired'
      BY <2>0, <2>2, <3>1 DEF Paired, Quiet, NoReply, Alive
    <3>4. \A p \in Calls : Unsent(p)' => Unsent(p)
      BY <2>0, <2>2 DEF Unsent
    <3> QED BY <2>0, <2>2, <3>1, <3>2, <3>3, <3>4, GoOnKept
  <2> QED BY <1>4, <2>1, <2>2 DEF InitWait
<1>5. CASE Write
  <2>0. /\ pc = "write" /\ current \in Children /\ caller \in Calls
        /\ UNCHANGED <<phase, current, replies, reading, forks, proc, stdout, done>>
    BY <1>5, <1>t DEF Write, Control, TypeOK, threadVars
  <2>q. Quiet(current)
    BY <2>0 DEF IInv, Paired
  <2>1. CASE /\ Alive(current) /\ stdin' = [stdin EXCEPT ![current] = Append(@, caller)]
             /\ pc' = "wait" /\ UNCHANGED <<caller, status>>
    <3>1. Unsent(caller) /\ caller # "init"
      BY <1>t, <2>0 DEF Unsent
    <3> QED BY <2>0, <2>q, <2>1, <3>1, WrittenKept
  <2>2. CASE Return("brokenPipe") /\ UNCHANGED stdin
    <3>1. "brokenPipe" \in {"ok"} \union Raised
      BY DEF Raised
    <3>2. /\ Returned("brokenPipe") /\ Control'
          /\ \A q \in Calls : Unsent(q)' => Unsent(q)
      BY <2>0, <2>2, <3>1, CallReturns
    <3>3. Paired'
      BY <2>0, <2>q, <2>2, <3>2 DEF Paired, Returned, Quiet, NoReply, Alive
    <3> QED BY <2>0, <2>2, <3>2, <3>3, GoOnKept
  <2> QED BY <1>5, <2>1, <2>2 DEF Write
<1>6. CASE Get
  <2>0. /\ pc = "wait" /\ replies[current] # <<>> /\ caller \in Calls
        /\ replies' = [replies EXCEPT ![current] = Tail(@)]
        /\ UNCHANGED <<phase, reading, forks, proc, stdin, stdout, done>>
    BY <1>6, <1>t DEF Get, Control, TypeOK, childVars
  <2>1. CASE Head(replies[current]) \in Line /\ Return(Head(replies[current])) /\ UNCHANGED current
    <3>1. PICK s \in {"ok"} \union Raised : s = Head(replies[current])
      BY <2>1 DEF Line, Raised
    <3>2. /\ Returned(s) /\ Control' /\ \A q \in Calls : Unsent(q)' => Unsent(q)
      BY <2>0, <2>1, <3>1, CallReturns
    <3>3. /\ current \in Children /\ (Alive(current) => stdin[current] = <<>>)
          /\ \A c \in Children : replies'[c] = replies[c] \/ c = current
          /\ stdout[current] = <<>>
          /\ replies'[current] = <<>> \/ (replies'[current] = <<EOF>> /\ current \notin reading)
      BY <2>0, <2>1, ReplyIsRead DEF EOF, Line
    <3>4. Paired'
      BY <2>0, <2>1, <3>2, <3>3 DEF Paired, Returned, Quiet, NoReply, Alive
    <3> QED BY <2>0, <2>1, <3>2, <3>3, <3>4, GoOnKept
  <2>2. CASE Head(replies[current]) = EOF /\ Return("exited") /\ current' = NoChild
    <3>1. "exited" \in {"ok"} \union Raised
      BY DEF Raised
    <3>2. Returned("exited")
      BY <2>0, <2>2, <3>1, CallReturns
    <3>3. /\ proc[current] = "gone"
          /\ \A c \in Children : replies'[c] = replies[c] \/ c = current
      BY <2>0, <2>2, ReplyIsRead
    <3> QED BY <2>0, <2>2, <3>2, <3>3, GiveUpKept
  <2> QED BY <1>6, <2>1, <2>2 DEF Get
<1>7. CASE Timeout
  <2>0. /\ pc = "wait" /\ Return("timeout") /\ proc' = Killed(current) /\ current' = NoChild
        /\ UNCHANGED <<phase, replies, reading, forks, stdin, stdout, done>>
    BY <1>7 DEF Timeout, threadVars
  <2>1. "timeout" \in {"ok"} \union Raised
    BY DEF Raised
  <2>2. Returned("timeout") /\ current \in Children
    BY <2>0, <2>1, CallReturns
  <2> QED BY <2>0, <2>2, GiveUpKept
<1>8. CASE Close
  <2>0. /\ Stopped /\ current' = NoChild
        /\ UNCHANGED <<replies, reading, forks, stdin, stdout, done>>
        /\ proc' = IF current = NoChild THEN proc ELSE Killed(current)
    BY <1>8, <1>t DEF Close, Stopped, Control, threadVars
  <2>1. \/ current \in Children /\ proc' = Killed(current)
        \/ proc' = proc /\ current \notin Children
    BY <1>t, <2>0 DEF TypeOK
  <2> QED BY <2>0, <2>1, GiveUpKept
<1>9. ASSUME NEW c \in Children, Read(c) \/ Serve(c) \/ Die(c) \/ Crash(c) PROVE Rest'
  BY <1>9, ReadKept, ServeKept, DeathKept
<1> QED BY <1>1, <1>2, <1>3, <1>4, <1>5, <1>6, <1>7, <1>8, <1>9 DEF Next

LEMMA NextInv == IInv /\ [Next]_vars => IInv'
<1> SUFFICES ASSUME IInv, [Next]_vars PROVE IInv'
  OBVIOUS
<1>1. CASE Next
  BY <1>1, TypeStep, NextRest DEF IInv, Rest
<1>2. CASE UNCHANGED vars
  <2>1. TypeOK' /\ OneChild' /\ Control'
    BY <1>2 DEF vars, threadVars, IInv, TypeOK, OneChild, Control, Alive
  <2>2. Numbered'
    BY <1>2 DEF vars, threadVars, IInv, Numbered
  <2>3. Paired'
    BY <1>2, Zenon DEF vars, threadVars, IInv, Paired, Quiet, Asked, NoReply, Replied, Alive
  <2>4. Once'
    BY <1>2 DEF vars, threadVars, IInv, Once, Written, Unsent
  <2> QED BY <2>1, <2>2, <2>3, <2>4 DEF IInv
<1> QED BY <1>1, <1>2

LEMMA Invariance == Spec => []IInv
BY InitInv, NextInv, PTL DEF Spec

\* Every state is typed, and a child that runs is the current one: a child that
\* was given up is killed or gone before another one is started.
THEOREM ChildrenOKHolds == Spec => []ChildrenOK
<1>1. IInv => ChildrenOK
  BY DEF IInv, ChildrenOK
<1> QED BY <1>1, Invariance, PTL

\* Between calls the current child owes no reply, and none is unread: that one
\* request is out at a time is enough for replies without ids.
THEOREM IdleIsQuietHolds == Spec => []IdleIsQuiet
<1>1. IInv => IdleIsQuiet
  BY DEF IInv, IdleIsQuiet, Paired, Quiet, NoReply
<1> QED BY <1>1, Invariance, PTL

-----------------------------------------------------------------------------
(* IsolatedAdapter implements CallService.                                 *)

\* What a call's state is to its caller.
OutcomeOf(s) == CASE s = "idle" -> "idle"
                  [] s = "called" -> "open"
                  [] s = "ok" -> "ok"
                  [] OTHER -> "failed"
Promises == [q \in Calls |-> CASE status[q] = "idle" -> "idle"
                               [] status[q] = "called" -> "open"
                               [] status[q] = "ok" -> "ok"
                               [] OTHER -> "failed"]

LEMMA Outcomes ==
  /\ OutcomeOf("idle") = "idle" /\ OutcomeOf("called") = "open" /\ OutcomeOf("ok") = "ok"
  /\ \A s \in Raised : OutcomeOf(s) = "failed"
  /\ Promises = [q \in Calls |-> OutcomeOf(status[q])]
BY DEF OutcomeOf, Raised, Promises

\* Only one call changes, or none; the server is up, or goes down.
Same == phase' # "stopped" <=> phase # "stopped"
Becomes(q, s) ==
  /\ status' = [status EXCEPT ![q] = s]
  /\ phase # "stopped" /\ phase' # "stopped"

LEMMA MapsToStutter ==
  ASSUME status' = status, Same, done' = done
  PROVE  UNCHANGED Service!vars
<1>1. Promises' = Promises
  BY DEF Promises
<1>2. (phase # "stopped")' = (phase # "stopped")
  BY DEF Same
<1> QED BY <1>1, <1>2 DEF Service!vars, Promises

LEMMA MapsToGoDown ==
  ASSUME status' = status, phase # "stopped", phase' = "stopped", done' = done
  PROVE  Service!GoDown
<1>1. Promises' = Promises
  BY DEF Promises
<1>2. (phase # "stopped") = TRUE /\ (phase # "stopped")' = FALSE
  OBVIOUS
<1> QED BY <1>1, <1>2 DEF Service!GoDown, Promises

LEMMA BecomesMaps ==
  ASSUME TypeOK, NEW q \in Calls, NEW s, Becomes(q, s)
  PROVE  /\ Promises' = [Promises EXCEPT ![q] = OutcomeOf(s)]
         /\ Promises[q] = OutcomeOf(status[q])
         /\ (phase # "stopped") = TRUE /\ (phase # "stopped")' = (phase # "stopped")
<1>1. \A p \in Calls : status'[p] = IF p = q THEN s ELSE status[p]
  BY DEF Becomes, TypeOK
<1>2. Promises' = [p \in Calls |-> OutcomeOf(status'[p])]
  BY DEF Promises, OutcomeOf
<1>3. Promises = [p \in Calls |-> OutcomeOf(status[p])]
  BY Outcomes
<1> HIDE DEF Promises
<1>4. Promises' = [Promises EXCEPT ![q] = OutcomeOf(s)]
  BY <1>1, <1>2, <1>3
<1>5. phase # "stopped" /\ phase' # "stopped"
  BY DEF Becomes
<1> QED BY <1>3, <1>4, <1>5

LEMMA MapsToIssue ==
  ASSUME TypeOK, NEW q \in Calls, status[q] = "idle", Becomes(q, "called"), done' = done
  PROVE  Service!Issue(q)
<1>1. OutcomeOf("idle") = "idle" /\ OutcomeOf("called") = "open"
  BY Outcomes
<1>2. /\ Promises' = [Promises EXCEPT ![q] = "open"] /\ Promises[q] = "idle"
      /\ (phase # "stopped") = TRUE /\ (phase # "stopped")' = (phase # "stopped")
  BY <1>1, BecomesMaps
<1> QED BY <1>2 DEF Service!Issue, Promises

LEMMA MapsToAnswer ==
  ASSUME TypeOK, NEW q \in Calls, status[q] = "called", Becomes(q, "ok"), q \in done, done' = done
  PROVE  Service!Answer(q)
<1>1. OutcomeOf("called") = "open" /\ OutcomeOf("ok") = "ok"
  BY Outcomes
<1>2. /\ Promises' = [Promises EXCEPT ![q] = "ok"] /\ Promises[q] = "open"
      /\ (phase # "stopped") = TRUE /\ (phase # "stopped")' = (phase # "stopped")
  BY <1>1, BecomesMaps
<1> QED BY <1>2 DEF Service!Answer, Promises

LEMMA MapsToRefuse ==
  ASSUME TypeOK, NEW q \in Calls, NEW s \in Raised, status[q] = "called", Becomes(q, s), done' = done
  PROVE  Service!Refuse
<1>1. OutcomeOf("called") = "open" /\ OutcomeOf(s) = "failed"
  BY Outcomes
<1>2. /\ Promises' = [Promises EXCEPT ![q] = "failed"] /\ Promises[q] = "open"
      /\ (phase # "stopped") = TRUE /\ (phase # "stopped")' = (phase # "stopped")
  BY <1>1, BecomesMaps
<1>3. Promises = [p \in Calls |-> Promises[p]]
  BY DEF Promises
<1>4. {q} \in SUBSET {p \in Calls : Promises[p] = "open"}
  BY <1>2
<1>5. Promises' = [p \in Calls |-> IF p \in {q} THEN "failed" ELSE Promises[p]]
  BY <1>2, <1>3
<1> QED BY <1>2, <1>4, <1>5 DEF Service!Refuse, Promises

LEMMA MapsToPerform ==
  ASSUME TypeOK, NEW q \in Calls, status[q] # "idle", q \notin done, done' = done \union {q},
         UNCHANGED <<status, phase>>
  PROVE  Service!Perform(q)
<1>1. Promises' = Promises
  BY DEF Promises
<1>2. OutcomeOf(status[q]) # "idle"
  BY DEF OutcomeOf
<1>3. Promises[q] # "idle"
  BY <1>2, Outcomes
<1>4. (phase # "stopped")' = (phase # "stopped")
  OBVIOUS
<1> QED BY <1>1, <1>3, <1>4 DEF Service!Perform, Promises

\* Every step of the adapter is a step of the service, or none.
LEMMA ServiceStep ==
  ASSUME IInv, [Next]_vars
  PROVE  Service!Next \/ UNCHANGED Service!vars
<1>t. TypeOK /\ Control
  BY DEF IInv
<1>s. caller \in Calls => status[caller] = "called"
  BY <1>t DEF Control
<1>f. ASSUME StartFailed, pc \in {"initWrite", "initWait"}, done' = done PROVE Service!Next
  <2>1. CASE phase = "connecting"
    BY <1>t, <1>f, <2>1, FailedStep, MapsToGoDown DEF Service!Next
  <2>2. CASE phase # "connecting"
    <3>1. caller \in Calls /\ Becomes(caller, "startFailed")
      BY <1>t, <1>f, <2>2, FailedStep DEF Return, Becomes
    <3>2. "startFailed" \in Raised
      BY DEF Raised
    <3> QED BY <1>t, <1>s, <1>f, <3>1, <3>2, MapsToRefuse DEF Service!Next
  <2> QED BY <2>1, <2>2
<1>1. ASSUME NEW q \in Calls, Invoke(q) PROVE Service!Next
  <2>1. Becomes(q, "called") /\ done' = done /\ status[q] = "idle"
    BY <1>1 DEF Invoke, Becomes, childVars
  <2> QED BY <1>t, <2>1, MapsToIssue DEF Service!Next
<1>2. ASSUME Start \/ UNCHANGED vars PROVE UNCHANGED Service!vars
  BY <1>2, MapsToStutter DEF Start, vars, Same
<1>3. CASE InitWrite
  <2>1. pc = "initWrite" /\ done' = done
    BY <1>3 DEF InitWrite
  <2>2. CASE UNCHANGED <<phase, current, caller, status, proc>>
    BY <2>1, <2>2, MapsToStutter DEF Same
  <2> QED BY <1>3, <1>f, <2>1, <2>2 DEF InitWrite
<1>4. CASE InitWait
  <2>1. pc = "initWait" /\ done' = done
    BY <1>4 DEF InitWait
  <2>2. CASE /\ \/ phase = "connecting" /\ phase' = "serving"
                \/ UNCHANGED phase
             /\ UNCHANGED <<current, caller, status, proc>>
    BY <2>1, <2>2, MapsToStutter DEF Same
  <2> QED BY <1>4, <1>f, <2>1, <2>2 DEF InitWait
<1>5. CASE Write
  <2>1. caller \in Calls /\ phase' = phase /\ phase # "stopped" /\ done' = done
    BY <1>5, <1>t DEF Write, Control, TypeOK
  <2>2. CASE UNCHANGED <<caller, status>>
    BY <2>1, <2>2, MapsToStutter DEF Same
  <2>3. CASE Return("brokenPipe")
    <3>1. Becomes(caller, "brokenPipe") /\ "brokenPipe" \in Raised
      BY <2>1, <2>3 DEF Return, Becomes, Raised
    <3> QED BY <1>t, <1>s, <2>1, <3>1, MapsToRefuse DEF Service!Next
  <2> QED BY <1>5, <2>2, <2>3 DEF Write
<1>6. CASE Get
  <2>1. /\ caller \in Calls /\ phase' = phase /\ phase # "stopped" /\ done' = done
        /\ pc = "wait" /\ replies[current] # <<>> /\ replies' = [replies EXCEPT ![current] = Tail(@)]
        /\ UNCHANGED <<proc, reading, stdin, stdout>>
    BY <1>6, <1>t DEF Get, Control, TypeOK, childVars
  <2>2. CASE Head(replies[current]) = "ok" /\ Return("ok")
    <3>1. Head(replies[current]) # EOF /\ caller # "init"
      BY <2>1, <2>2, CallsAssumption DEF EOF
    <3>2. caller \in done
      BY <2>1, <2>2, <3>1, ReplyIsRead
    <3>3. Becomes(caller, "ok")
      BY <2>1, <2>2 DEF Return, Becomes
    <3> QED BY <1>t, <1>s, <2>1, <3>2, <3>3, MapsToAnswer DEF Service!Next
  <2>3. ASSUME NEW s \in Raised, Return(s) PROVE Service!Next
    <3>1. Becomes(caller, s)
      BY <2>1, <2>3 DEF Return, Becomes
    <3> QED BY <1>t, <1>s, <2>1, <3>1, MapsToRefuse DEF Service!Next
  <2> QED BY <1>6, <2>2, <2>3 DEF Get, Line, Raised
<1>7. CASE Timeout
  <2>1. /\ caller \in Calls /\ phase' = phase /\ phase # "stopped" /\ done' = done
        /\ Becomes(caller, "timeout") /\ "timeout" \in Raised
    BY <1>7, <1>t DEF Timeout, Control, TypeOK, Return, Becomes, Raised
  <2> QED BY <1>t, <1>s, <2>1, MapsToRefuse DEF Service!Next
<1>8. CASE Close
  BY <1>8, MapsToGoDown DEF Close, Service!Next
<1>9. ASSUME NEW c \in Children, Takes(c), done' = done \/ (MayDo(c) /\ Completes(c)),
             UNCHANGED <<status, phase>>
      PROVE  Service!Next \/ UNCHANGED Service!vars
  <2>1. PICK m \in Calls \union {"init"} :
          /\ stdin[c] = <<m>>
          /\ done' = done \/ (m # "init" /\ done' = done \union {m})
    BY <1>9, TakesStep
  <2>2. CASE m # "init" /\ done' = done \union {m}
    <3>1. m \in Calls /\ m \notin done /\ status[m] # "idle" /\ done' = done \union {m}
      BY <2>1, <2>2 DEF IInv, Once, Written, Unsent
    <3> QED BY <1>t, <1>9, <3>1, MapsToPerform DEF Service!Next
  <2>3. CASE done' = done
    BY <1>9, <2>3, MapsToStutter DEF Same
  <2> QED BY <2>1, <2>2, <2>3
<1>10. ASSUME NEW c \in Children, Serve(c) PROVE Service!Next \/ UNCHANGED Service!vars
  BY <1>9, <1>10 DEF Serve
<1>11. ASSUME NEW c \in Children, Die(c) \/ Crash(c) PROVE Service!Next \/ UNCHANGED Service!vars
  <2>1. Ends(c) /\ UNCHANGED <<status, phase>>
    BY <1>11 DEF Die, Crash
  <2>2. CASE UNCHANGED <<stdin, done>>
    BY <2>1, <2>2, MapsToStutter DEF Same
  <2> QED BY <1>9, <2>1, <2>2, EndsStep
<1>12. ASSUME NEW c \in Children, Read(c) PROVE UNCHANGED Service!vars
  BY <1>12, MapsToStutter DEF Read, Same
<1> QED BY <1>1, <1>2, <1>3, <1>4, <1>5, <1>6, <1>7, <1>8, <1>10, <1>11, <1>12 DEF Next

\* IsService: the Python IsolatedAdapter answers a call once, with success only
\* when that call's own statement was completed by the child that was asked,
\* and no statement is performed twice, whatever its children do or die of.
THEOREM ImplementsCallService == Spec => IsService
<1>1. Init => Service!Init
  <2> SUFFICES ASSUME Init PROVE Service!Init
    OBVIOUS
  <2>1. Promises = [q \in Calls |-> "idle"]
    BY Outcomes DEF Init
  <2>2. (phase # "stopped") = TRUE /\ done = {}
    BY DEF Init
  <2> QED BY <2>1, <2>2 DEF Service!Init, Promises
<1>2. IInv /\ [Next]_vars => [Service!Next]_(Service!vars)
  BY ServiceStep
<1> QED BY <1>1, <1>2, Invariance, PTL DEF Spec, IsService, Service!Spec
=============================================================================
