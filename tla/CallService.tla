---------------------------- MODULE CallService ----------------------------
(***************************************************************************)
(* What a DatabaseAdapter promises to the tool handlers, whatever runs     *)
(* behind it: a call is answered at most once, a success reports a         *)
(* statement the database really completed for that very call, and no      *)
(* statement is performed twice or without having been asked for.          *)
(*                                                                         *)
(* The interface is core/typescript/src/adapter.ts (DatabaseAdapter); its  *)
(* method bodies are promises, so an outcome is a promise's state.         *)
(***************************************************************************)
CONSTANT Calls

VARIABLES outcome,    \* the promise handed to the caller of each call
          done,       \* calls whose statement the database completed
          up          \* the server process is there to answer

vars == <<outcome, done, up>>

TypeOK == /\ outcome \in [Calls -> {"idle", "open", "ok", "failed"}]
          /\ done \subseteq Calls
          /\ up \in BOOLEAN

Init == /\ outcome = [q \in Calls |-> "idle"]
        /\ done = {}
        /\ up = TRUE

\* A tool handler calls the adapter.
Issue(q) == /\ up
            /\ outcome[q] = "idle"
            /\ outcome' = [outcome EXCEPT ![q] = "open"]
            /\ UNCHANGED <<done, up>>

\* The database completes the statement of a call, at most once. The caller
\* may already have been told of a failure: a timeout does not undo work.
Perform(q) == /\ outcome[q] # "idle"
              /\ q \notin done
              /\ done' = done \union {q}
              /\ UNCHANGED <<outcome, up>>

\* A caller gets its own statement's result.
Answer(q) == /\ up
             /\ outcome[q] = "open"
             /\ q \in done
             /\ outcome' = [outcome EXCEPT ![q] = "ok"]
             /\ UNCHANGED <<done, up>>

\* Some callers get an error; losing the process behind the adapter fails
\* several of them at once.
Refuse == /\ up
          /\ \E S \in SUBSET {q \in Calls : outcome[q] = "open"} :
               outcome' = [q \in Calls |-> IF q \in S THEN "failed" ELSE outcome[q]]
          /\ UNCHANGED <<done, up>>

\* The server process ends, answering nobody any more.
GoDown == /\ up
          /\ up' = FALSE
          /\ UNCHANGED <<outcome, done>>

Next == \/ \E q \in Calls : Issue(q) \/ Perform(q) \/ Answer(q)
        \/ Refuse
        \/ GoDown

Spec == Init /\ [][Next]_vars

\* Honest: a call reported as successful is one whose own statement the
\* database completed.
Honest == \A q \in Calls : outcome[q] = "ok" => q \in done
=============================================================================
