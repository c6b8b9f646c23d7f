------------------------------ MODULE WorkerPort ------------------------------
(***************************************************************************)
(* What the server may rely on in a worker, whatever happens inside it:    *)
(* requests are served one at a time in the order they came, each gets     *)
(* exactly one answer, and a worker that stops answers nothing any more.   *)
(* This is the worker of ProjectExec (WorkerServes and WorkerCrashes).     *)
(***************************************************************************)
EXTENDS Sequences

CONSTANTS Request

VARIABLES
  queue,     \* requests not yet answered
  answers,   \* the requests of the answers on their way back
  up         \* the worker is running

vars == <<queue, answers, up>>

Init == queue = << >> /\ answers = << >> /\ up = TRUE

Ask == up /\ \E r \in Request : queue' = Append(queue, r) /\ UNCHANGED <<answers, up>>

Serve ==
  /\ up /\ queue # << >>
  /\ answers' = Append(answers, Head(queue))
  /\ queue'   = Tail(queue)
  /\ UNCHANGED up

Take == answers # << >> /\ answers' = Tail(answers) /\ UNCHANGED <<queue, up>>

Stop == up /\ up' = FALSE /\ UNCHANGED <<queue, answers>>

Next == Ask \/ Serve \/ Take \/ Stop
Spec == Init /\ [][Next]_vars
=============================================================================
