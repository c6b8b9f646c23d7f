----------------------------- MODULE TaskQueue -----------------------------
(***************************************************************************)
(* What a Project promises of the commands given to it, with the worker,   *)
(* the lock and the callbacks left out: commands are served one at a time, *)
(* in the order in which they arrived, each ends at most once, and the     *)
(* outcome it ends with never changes.  ProjectExec implements this.       *)
(***************************************************************************)
EXTENDS Naturals, Sequences

CONSTANT Task           \* the commands that may be submitted

VARIABLES arrived,      \* the tasks in order of arrival, never shortened
          stage,        \* where each task is
          outcome       \* how each task ended

vars == <<arrived, stage, outcome>>

Stage   == {"absent", "waiting", "serving", "ended"}
Outcome == {"none", "completed", "failed", "cancelled"}

\* u arrived before t.
Before(u, t) ==
  \E i, j \in 1..Len(arrived) : i < j /\ arrived[i] = u /\ arrived[j] = t

\* t is the task to be served next: nothing is being served, and nobody who
\* arrived earlier still waits.
IsNext(t) ==
  /\ stage[t] = "waiting"
  /\ \A u \in Task : stage[u] # "serving"
  /\ \A u \in Task : Before(u, t) => stage[u] # "waiting"

Init ==
  /\ arrived = << >>
  /\ stage   = [t \in Task |-> "absent"]
  /\ outcome = [t \in Task |-> "none"]

Arrive(t) ==
  /\ stage[t] = "absent"
  /\ arrived' = Append(arrived, t)
  /\ stage'   = [stage EXCEPT ![t] = "waiting"]
  /\ UNCHANGED outcome

Serve(t) ==
  /\ IsNext(t)
  /\ stage' = [stage EXCEPT ![t] = "serving"]
  /\ UNCHANGED <<arrived, outcome>>

\* The next task is turned away before it is served.
Refuse(t) ==
  /\ IsNext(t)
  /\ stage'   = [stage EXCEPT ![t] = "ended"]
  /\ outcome' = [outcome EXCEPT ![t] = "failed"]
  /\ UNCHANGED arrived

Finish(t, o) ==
  /\ stage[t] = "serving"
  /\ stage'   = [stage EXCEPT ![t] = "ended"]
  /\ outcome' = [outcome EXCEPT ![t] = o]
  /\ UNCHANGED arrived

\* A cancellation takes a set of tasks out, waiting or served.
Withdraw(S) ==
  /\ \A t \in S : stage[t] \in {"waiting", "serving"}
  /\ stage'   = [t \in Task |-> IF t \in S THEN "ended" ELSE stage[t]]
  /\ outcome' = [t \in Task |-> IF t \in S THEN "cancelled" ELSE outcome[t]]
  /\ UNCHANGED arrived

Next ==
  \/ \E t \in Task : Arrive(t) \/ Serve(t) \/ Refuse(t)
  \/ \E t \in Task, o \in Outcome \ {"none"} : Finish(t, o)
  \/ \E S \in SUBSET Task : Withdraw(S)

Spec == Init /\ [][Next]_vars
=============================================================================
