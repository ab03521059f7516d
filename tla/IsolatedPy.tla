---------------------------- MODULE IsolatedPy ----------------------------
(***************************************************************************)
(* The Python IsolatedAdapter (database_mcp_core/isolated.py) and its      *)
(* child (isolated_child.py). The tool handler calls the adapter           *)
(* synchronously on the event loop, so one call is in _call at a time;     *)
(* around it run the children and the reader thread of each child, which   *)
(* moves lines from the child's stdout into that child's reply queue.      *)
(* Replies carry no id: what pairs a reply with its request is only that   *)
(* there is one request at a time and one queue per child.                 *)
(*                                                                         *)
(* Left out: what a statement says and returns, stderr forwarding.         *)
(***************************************************************************)
EXTENDS Integers, Sequences, FiniteSets

CONSTANTS Queries,      \* query(): waits with a deadline
          Catalogs,     \* list_tables() / describe_table(): waits without
          MaxForks,     \* bound: children started in a behaviour
          MaxCrashes    \* bound: children that die without being killed

Calls == Queries \union Catalogs

ASSUME CallsAssumption == /\ Queries \cap Catalogs = {}
                          /\ "init" \notin Calls /\ "none" \notin Calls
ASSUME BoundsAssumption == MaxForks \in Nat /\ MaxCrashes \in Nat

Children == 1..MaxForks
NoChild == 0

VARIABLES
  \* the parent (class IsolatedAdapter and the call it is in)
  phase,      \* serve(): "connecting", "serving", "stopped"
  current,    \* self._proc, or NoChild
  caller,     \* the call being served, or "none"
  pc,         \* where _call / _start is
  status,     \* what each call returned or raised
  replies,    \* the reply queue of each child
  reading,    \* children whose reader thread has not seen the end of stdout
  \* the children
  forks, crashes,
  proc,       \* "none", "running", "killed", "gone"
  stdin, stdout,
  torn,       \* children that died in the middle of a line
  opened,     \* children whose adapter is connected
  done        \* calls whose statement completed

threadVars == <<replies, reading>>
childVars == <<forks, crashes, proc, stdin, stdout, torn, opened, done>>
vars == <<phase, current, caller, pc, status, replies, reading,
          forks, crashes, proc, stdin, stdout, torn, opened, done>>

Raised == {"error", "timeout", "exited", "brokenPipe", "startFailed"}
Line == {"ok", "error"}       \* a reply; what it answers is not on it
EOF == "eof"                  \* the None the reader thread puts last

TypeOK ==
  /\ phase \in {"connecting", "serving", "stopped"}
  /\ current \in Children \union {NoChild}
  /\ caller \in Calls \union {"none"}
  /\ pc \in {"idle", "start", "initWrite", "initWait", "write", "wait"}
  /\ status \in [Calls -> {"idle", "called", "ok"} \union Raised]
  /\ replies \in [Children -> Seq(Line \union {EOF})]
  /\ reading \subseteq Children
  /\ forks \in 0..MaxForks
  /\ crashes \in 0..MaxCrashes
  /\ proc \in [Children -> {"none", "running", "killed", "gone"}]
  /\ stdin \in [Children -> Seq(Calls \union {"init"})]
  /\ stdout \in [Children -> Seq(Line)]
  /\ torn \subseteq Children
  /\ opened \subseteq Children
  /\ done \subseteq Calls

\* serve() calls connect() first, which calls _start().
Init ==
  /\ phase = "connecting"
  /\ current = NoChild
  /\ caller = "none"
  /\ pc = "start"
  /\ status = [q \in Calls |-> "idle"]
  /\ replies = [c \in Children |-> <<>>]
  /\ reading = {}
  /\ forks = 0
  /\ crashes = 0
  /\ proc = [c \in Children |-> "none"]
  /\ stdin = [c \in Children |-> <<>>]
  /\ stdout = [c \in Children |-> <<>>]
  /\ torn = {}
  /\ opened = {}
  /\ done = {}

-----------------------------------------------------------------------------
(* The parent.                                                             *)

Alive(c) == proc[c] \in {"running", "killed"}

\* A kill signal to c; the process dies later, in Die.
Killed_Not(c) == proc    \* mutant: the signal is never sent
Killed(c) == [proc EXCEPT ![c] = IF @ = "running" THEN "killed" ELSE @]

\* The queue a reply of child c is put into, and the one get() reads.
ReplyQueue_Shared(c) == 1    \* mutant: one queue for all children
ReplyQueue(c) == c

\* The call in progress returns or raises.
Return(s) == /\ status' = [status EXCEPT ![caller] = s]
             /\ caller' = "none"
             /\ pc' = "idle"

\* A call of the adapter: _call, which starts a child if there is none.
Invoke(q) ==
  /\ phase = "serving"
  /\ pc = "idle"
  /\ status[q] = "idle"
  /\ caller' = q
  /\ status' = [status EXCEPT ![q] = "called"]
  /\ pc' = IF current = NoChild THEN "start" ELSE "write"
  /\ UNCHANGED <<phase, current, threadVars, childVars>>

NewChild == forks + 1

\* _start: the process, its queue and its reader thread.
Start ==
  LET c == NewChild IN
    /\ pc = "start"
    /\ forks < MaxForks
    /\ forks' = c
    /\ proc' = [proc EXCEPT ![c] = "running"]
    /\ reading' = reading \union {c}
    /\ current' = c
    /\ pc' = "initWrite"
    /\ UNCHANGED <<phase, caller, status, replies, crashes, stdin, stdout, torn, opened, done>>

\* The except clause of _start: close() and raise; at startup serve() ends.
StartFailed ==
  /\ proc' = Killed(current)
  /\ current' = NoChild
  /\ IF phase = "connecting"
       THEN phase' = "stopped" /\ pc' = "idle" /\ UNCHANGED <<caller, status>>
       ELSE Return("startFailed") /\ UNCHANGED phase

InitWrite ==
  /\ pc = "initWrite"
  /\ \/ /\ Alive(current)
        /\ stdin' = [stdin EXCEPT ![current] = Append(@, "init")]
        /\ pc' = "initWait"
        /\ UNCHANGED <<phase, current, caller, status, proc>>
     \/ /\ ~Alive(current)
        /\ StartFailed
        /\ UNCHANGED stdin
  /\ UNCHANGED <<threadVars, forks, crashes, stdout, torn, opened, done>>

InitWait ==
  LET k == ReplyQueue(current) IN
    /\ pc = "initWait"
    /\ replies[k] # <<>>
    /\ replies' = [replies EXCEPT ![k] = Tail(@)]
    /\ \/ /\ Head(replies[k]) = "ok"
          /\ IF phase = "connecting"
               THEN phase' = "serving" /\ pc' = "idle"
               ELSE pc' = "write" /\ UNCHANGED phase
          /\ UNCHANGED <<current, caller, status, proc>>
       \/ /\ Head(replies[k]) # "ok"
          /\ StartFailed
    /\ UNCHANGED <<reading, forks, crashes, stdin, stdout, torn, opened, done>>

\* stdin.write and flush. A pipe nobody reads raises BrokenPipeError, which
\* _call lets through: self._proc stays as it is.
Write ==
  /\ pc = "write"
  /\ \/ /\ Alive(current)
        /\ stdin' = [stdin EXCEPT ![current] = Append(@, caller)]
        /\ pc' = "wait"
        /\ UNCHANGED <<caller, status>>
     \/ /\ ~Alive(current)
        /\ Return("brokenPipe")
        /\ UNCHANGED stdin
  /\ UNCHANGED <<phase, current, threadVars, forks, crashes, proc, stdout, torn, opened, done>>

\* replies.get() returns a line or the None of a child that exited.
Get ==
  LET k == ReplyQueue(current) IN
    /\ pc = "wait"
    /\ replies[k] # <<>>
    /\ replies' = [replies EXCEPT ![k] = Tail(@)]
    /\ \/ /\ Head(replies[k]) \in Line
          /\ Return(Head(replies[k]))
          /\ UNCHANGED current
       \/ /\ Head(replies[k]) = EOF
          /\ Return("exited")
          /\ current' = NoChild
    /\ UNCHANGED <<phase, reading, childVars>>

\* queue.Empty: get() looks once more before it gives up, so the queue is
\* empty at the deadline.
Timeout_KeepsProc ==    \* mutant: self._proc is not reset after the kill
  /\ pc = "wait"
  /\ caller \in Queries
  /\ replies[ReplyQueue(current)] = <<>>
  /\ proc' = Killed(current)
  /\ Return("timeout")
  /\ UNCHANGED <<phase, current, threadVars, forks, crashes, stdin, stdout, torn, opened, done>>

Timeout ==
  /\ pc = "wait"
  /\ caller \in Queries
  /\ replies[ReplyQueue(current)] = <<>>
  /\ proc' = Killed(current)
  /\ current' = NoChild
  /\ Return("timeout")
  /\ UNCHANGED <<phase, threadVars, forks, crashes, stdin, stdout, torn, opened, done>>

\* The finally clause of serve(): close().
Close ==
  /\ phase = "serving"
  /\ pc = "idle"
  /\ phase' = "stopped"
  /\ proc' = IF current = NoChild THEN proc ELSE Killed(current)
  /\ current' = NoChild
  /\ UNCHANGED <<caller, pc, status, threadVars, forks, crashes, stdin, stdout, torn, opened, done>>

Read_NoEnd(c) ==    \* mutant: replies.put(None) is forgotten
  /\ c \in reading
  /\ stdout[c] # <<>>
  /\ stdout' = [stdout EXCEPT ![c] = Tail(@)]
  /\ replies' = [replies EXCEPT ![ReplyQueue(c)] = Append(@, Head(stdout[c]))]
  /\ UNCHANGED <<phase, current, caller, pc, status, reading, forks, crashes, proc, stdin, torn, opened, done>>

\* read_replies: a line, or None once the child is gone and all is read. Half
\* a line is no JSON: json.loads raises, and the thread ends without its None.
Read(c) ==
  /\ c \in reading
  /\ \/ /\ stdout[c] # <<>>
        /\ stdout' = [stdout EXCEPT ![c] = Tail(@)]
        /\ replies' = [replies EXCEPT ![ReplyQueue(c)] = Append(@, Head(stdout[c]))]
        /\ UNCHANGED reading
     \/ /\ stdout[c] = <<>>
        /\ proc[c] = "gone"
        /\ replies' = IF c \in torn THEN replies
                        ELSE [replies EXCEPT ![ReplyQueue(c)] = Append(@, EOF)]
        /\ reading' = reading \ {c}
        /\ UNCHANGED stdout
  /\ UNCHANGED <<phase, current, caller, pc, status, forks, crashes, proc, stdin, torn, opened, done>>

-----------------------------------------------------------------------------
(* The children.                                                           *)

\* The child takes its next request from its stdin. Done: its statement
\* completed, which needs a connected adapter.
Takes(c) == stdin[c] # <<>> /\ stdin' = [stdin EXCEPT ![c] = Tail(@)]
MayDo(c) == Head(stdin[c]) # "init" /\ c \in opened
Completes(c) == done' = done \union {Head(stdin[c])}

\* One turn of the child's loop: read a request, serve it, write the reply.
\* It may take any time, or never end.
Serve(c) ==
  /\ Alive(c)
  /\ Takes(c)
  /\ \E l \in Line :
       /\ stdout' = [stdout EXCEPT ![c] = Append(@, l)]
       /\ \/ l = "ok" /\ Head(stdin[c]) = "init" /\ opened' = opened \union {c} /\ UNCHANGED done
          \/ l = "ok" /\ MayDo(c) /\ Completes(c) /\ UNCHANGED opened
          \/ l = "error" /\ UNCHANGED <<opened, done>>
  /\ UNCHANGED <<phase, current, caller, pc, status, threadVars, forks, crashes, proc, torn>>

\* A process ends. If it was serving a request, the statement may be done,
\* and the line that says what came of it may be half written.
Ends(c) ==
  /\ proc' = [proc EXCEPT ![c] = "gone"]
  /\ \/ UNCHANGED <<stdin, torn, done>>
     \/ /\ Takes(c)
        /\ torn' \in {torn, torn \union {c}}
        /\ UNCHANGED done \/ (MayDo(c) /\ Completes(c))

Die(c) ==
  /\ proc[c] = "killed"
  /\ Ends(c)
  /\ UNCHANGED <<phase, current, caller, pc, status, threadVars, forks, crashes, stdout, opened>>

\* A process dies by itself (a fault in native code, the OOM killer).
Crash(c) ==
  /\ proc[c] = "running"
  /\ crashes < MaxCrashes
  /\ crashes' = crashes + 1
  /\ Ends(c)
  /\ UNCHANGED <<phase, current, caller, pc, status, threadVars, forks, stdout, opened>>

Next ==
  \/ \E q \in Calls : Invoke(q)
  \/ Start \/ InitWrite \/ InitWait \/ Write \/ Get \/ Timeout \/ Close
  \/ \E c \in Children : Read(c) \/ Serve(c) \/ Die(c) \/ Crash(c)

Spec == Init /\ [][Next]_vars

-----------------------------------------------------------------------------
(* Safety.                                                                 *)

\* Between calls the current child is quiet: nothing written to it is
\* unanswered and no answer is unread, so the next reply is the next call's.
\* Replies pair with requests by this alone.
IdleIsQuiet ==
  (pc = "idle" /\ current # NoChild) =>
    /\ Alive(current) => stdin[current] = <<>>
    /\ stdout[current] = <<>>
    /\ replies[current] \in {<<>>, <<EOF>>}

\* A child that is not the current one any more was killed or is gone: no
\* statement goes on behind the back of its replacement.
OneChild == \A c \in Children : proc[c] = "running" => c = current

\* The children the parent made are numbered, typed, and one at a time works.
ChildrenOK == TypeOK /\ OneChild

\* "At the deadline the child is killed and replaced on next use": the death
\* of a child costs the calls that follow it at most one failure.
DeadChildReplaced ==
  Cardinality({q \in Calls : status[q] = "brokenPipe"}) <= crashes

-----------------------------------------------------------------------------
(* Liveness. Threads and processes run, signals are delivered. A query's   *)
(* statement may never end; init and catalog reads do.                     *)

Fairness ==
  /\ WF_vars(Start) /\ WF_vars(InitWrite) /\ WF_vars(InitWait)
  /\ WF_vars(Write) /\ WF_vars(Get) /\ WF_vars(Timeout)
  /\ \A c \in Children :
       /\ WF_vars(Read(c))
       /\ WF_vars(Die(c))
       /\ WF_vars(stdin[c] # <<>> /\ Head(stdin[c]) \notin Queries /\ Serve(c))

FairSpec == Spec /\ Fairness

\* The call in progress waits without a deadline (a catalog call, or any call
\* whose child is being started) for a child that died in the middle of a line.
Deaf == current \in torn /\ (pc = "initWait" \/ (pc = "wait" /\ caller \in Catalogs))

\* Every call returns or raises, but for one that is Deaf: nothing ends its
\* wait. (And unless the model has no process left to start.)
CallsReturn ==
  \A q \in Calls :
    (status[q] = "called") ~> (status[q] # "called" \/ Deaf \/ (pc = "start" /\ forks = MaxForks))

-----------------------------------------------------------------------------
(* Refinement: the Python IsolatedAdapter is a CallService too.            *)

Service == INSTANCE CallService
             WITH outcome <- [q \in Calls |->
                               CASE status[q] = "idle" -> "idle"
                                 [] status[q] = "called" -> "open"
                                 [] status[q] = "ok" -> "ok"
                                 [] OTHER -> "failed"],
                  up <- phase # "stopped"

\* The detailed system implements the abstract one. A reply is for the call
\* that reads it: success means that call's own statement completed ("a killed
\* child's late output must never be read as a reply from its replacement").
IsService == Service!Spec
=============================================================================
