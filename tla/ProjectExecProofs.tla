------------------------- MODULE ProjectExecProofs -------------------------
(***************************************************************************)
(* Proofs about ProjectExec, for any sets of commands and workers and any  *)
(* environment.                                                            *)
(***************************************************************************)
EXTENDS ProjectExec, TLAPS

\* Typing of the parts that several actions share.  A worker's channel may also be
\* named by None, which changes nothing.
LEMMA KillType ==
  ASSUME TypeOK, NEW w, Kill(w)
  PROVE  /\ alive' \in SUBSET Worker /\ closed' \in SUBSET Worker
         /\ toWorker' \in [Worker -> Seq(Request)]
         /\ fromWorker' \in [Worker -> Seq(Response)]
<1>1. << >> \in Seq(Request) /\ << >> \in Seq(Response)
  OBVIOUS
<1>2. alive' \in SUBSET Worker /\ closed' \in SUBSET Worker
  BY DEF TypeOK, Kill
<1>3. toWorker' \in [Worker -> Seq(Request)]
  BY <1>1 DEF TypeOK, Kill
<1>4. fromWorker' \in [Worker -> Seq(Response)]
  BY <1>1 DEF TypeOK, Kill
<1> QED
  BY <1>2, <1>3, <1>4

LEMMA DropHandleType ==
  ASSUME TypeOK, DropHandle
  PROVE  /\ handle' = None /\ slot' \in BOOLEAN
         /\ alive' \in SUBSET Worker /\ closed' \in SUBSET Worker
         /\ toWorker' \in [Worker -> Seq(Request)]
         /\ fromWorker' \in [Worker -> Seq(Response)]
<1>1. Kill(handle) /\ handle' = None /\ slot' \in BOOLEAN
  BY DEF TypeOK, DropHandle
<1> QED
  BY <1>1, KillType

LEMMA SendType ==
  ASSUME TypeOK, NEW w, NEW r \in Request, Send(w, r)
  PROVE  toWorker' \in [Worker -> Seq(Request)]
<1>1. toWorker \in [Worker -> Seq(Request)]
  BY DEF TypeOK
<1>2. CASE w \in Worker
  <2>1. Append(toWorker[w], r) \in Seq(Request)
    BY <1>1, <1>2
  <2> QED
    BY <1>1, <2>1 DEF Send
<1>3. CASE w \notin Worker
  BY <1>1, <1>3 DEF Send
<1> QED
  BY <1>2, <1>3

LEMMA ReceiveType ==
  ASSUME TypeOK, NEW w, NEW r, Receive(w, r)
  PROVE  fromWorker' \in [Worker -> Seq(Response)]
<1>1. fromWorker \in [Worker -> Seq(Response)]
  BY DEF TypeOK
<1>2. CASE w \in Worker
  <2>1. Tail(fromWorker[w]) \in Seq(Response)
    BY <1>1, <1>2 DEF Receive
  <2> QED
    BY <1>1, <2>1 DEF Receive
<1>3. CASE w \notin Worker
  BY <1>1, <1>3 DEF Receive
<1> QED
  BY <1>2, <1>3

LEMMA LinesType ==
  ASSUME NEW req \in Request, NEW s \in Lines(req)
  PROVE  s \in Seq(Response)
<1>1. Junk \in Response /\ \A e \in BOOLEAN : [of |-> req, err |-> e] \in Response
  BY DEF Junk, Response
<1>2. \A r \in Response : <<r>> \in Seq(Response) /\ <<r, r>> \in Seq(Response)
  OBVIOUS
<1>3. CASE \E e \in BOOLEAN : s = <<[of |-> req, err |-> e]>>
  BY <1>1, <1>2, <1>3
<1>4. CASE s \in {<<Junk>>, <<Junk, Junk>>}
  BY <1>1, <1>2, <1>4
<1> QED
  BY <1>3, <1>4 DEF Lines

\* Every variable keeps its type.
THEOREM TypeCorrect == Spec => []TypeOK
<1>1. Init => TypeOK
  <2> SUFFICES ASSUME Init PROVE TypeOK
    OBVIOUS
  <2>1. << >> \in Seq(Task) /\ << >> \in Seq(Request) /\ << >> \in Seq(Response)
    OBVIOUS
  <2>2. toWorker \in [Worker -> Seq(Request)] /\ fromWorker \in [Worker -> Seq(Response)]
    BY <2>1 DEF Init
  <2>3. pc \in [Task -> PC] /\ status \in [Task -> Status] /\ caller \in [Task -> Caller]
    BY DEF Init, PC, Status, Caller
  <2> QED
    BY <2>1, <2>2, <2>3 DEF Init, TypeOK
<1>2. TypeOK /\ [Next]_vars => TypeOK'
  <2> SUFFICES ASSUME TypeOK, [Next]_vars PROVE TypeOK'
    OBVIOUS
  <2>1. ASSUME NEW t \in Task, Execute(t) PROVE TypeOK'
    BY <2>1 DEF TypeOK, Execute, workerVars, procVars, Caller, PC, Waiting
  <2>2. ASSUME NEW t \in Task, LoopStep(t) PROVE TypeOK'
    <3>1. CASE Enqueue(t)
      BY <3>1 DEF TypeOK, Enqueue, workerVars, procVars, PC, Waiting
    <3>2. CASE UseWorker(t)
      BY <3>2, SendType DEF TypeOK, UseWorker, PC, Holding, Status, Request
    <3>3. CASE StartWorker(t)
      BY <3>3 DEF TypeOK, StartWorker, PC, Holding
    <3>4. CASE RefuseWorker(t)
      BY <3>4, DropHandleType DEF TypeOK, RefuseWorker, Return, PC, Ended, Status, Terminal
    <3>5. CASE Opened(t)
      BY <3>5, SendType, ReceiveType DEF TypeOK, Opened, PC, Holding, Request
    <3>6. CASE OpenFails(t)
      BY <3>6, KillType DEF TypeOK, OpenFails, Return, PC, Ended, Status, Terminal
    <3>7. CASE WorkerReady(t)
      BY <3>7, SendType, ReceiveType DEF TypeOK, WorkerReady, PC, Holding, Status, Request
    <3>8. CASE Finish(t)
      BY <3>8, ReceiveType
      DEF TypeOK, Finish, Return, PC, Ended, Status, Terminal, Response, Request
    <3>9. CASE WorkerDead(t)
      BY <3>9, DropHandleType DEF TypeOK, WorkerDead, Return, PC, Ended, Status, Terminal
    <3>10. CASE ConnectionReset(t)
      BY <3>10 DEF TypeOK, ConnectionReset, Return, procVars, PC, Ended, Status, Terminal
    <3>11. CASE Cancelled(t)
      <4> USE <3>11
      <4>1. /\ pc' \in [Task -> PC] /\ status' \in [Task -> Status]
            /\ must' \in [Task -> BOOLEAN] /\ conn' \in Worker \cup {None}
        BY DEF TypeOK, Cancelled, PC, Ended, Status, Terminal
      <4>2. /\ alive' \in SUBSET Worker /\ closed' \in SUBSET Worker
            /\ toWorker' \in [Worker -> Seq(Request)]
            /\ fromWorker' \in [Worker -> Seq(Response)]
        <5>1. CASE Kill(conn)
          BY <5>1, KillType
        <5>2. CASE /\ toWorker'   = [toWorker EXCEPT ![conn] = << >>]
                   /\ fromWorker' = [fromWorker EXCEPT ![conn] = << >>]
                   /\ UNCHANGED <<alive, closed>>
          <6>1. << >> \in Seq(Request) /\ << >> \in Seq(Response)
            OBVIOUS
          <6> QED
            BY <5>2, <6>1 DEF TypeOK
        <5>3. CASE UNCHANGED procVars
          BY <5>3 DEF TypeOK, procVars
        <5> QED
          BY <5>1, <5>2, <5>3 DEF Cancelled
      <4> QED
        BY <4>1, <4>2 DEF TypeOK, Cancelled
    <3> QED
      BY <2>2, <3>1, <3>2, <3>3, <3>4, <3>5, <3>6, <3>7, <3>8, <3>9, <3>10, <3>11
      DEF LoopStep
  <2>3. ASSUME NEW t \in Task, SpawnStep(t) PROVE TypeOK'
    <3>1. CASE Spawned(t)
      BY <3>1, SendType DEF TypeOK, Spawned, PC, Holding, Request
    <3>2. CASE SpawnFails(t)
      BY <3>2, KillType DEF TypeOK, SpawnFails, Return, PC, Ended, Status, Terminal
    <3> QED
      BY <2>3, <3>1, <3>2 DEF SpawnStep
  <2>4. ASSUME NEW t \in Task, Resume(t) PROVE TypeOK'
    <3>1. CASE Reply(t)
      BY <3>1 DEF TypeOK, Reply, workerVars, procVars, Caller
    <3>2. CASE CallerRaises(t)
      BY <3>2 DEF TypeOK, CallerRaises, workerVars, procVars, Caller
    <3>3. CASE CloseReturns(t)
      BY <3>3, DropHandleType DEF TypeOK, CloseReturns, Caller
    <3>4. CASE CloseTimedOut(t)
      BY <3>4, DropHandleType
      DEF TypeOK, CloseTimedOut, force_close, Caller, Status, Terminal
    <3> QED
      BY <2>4, <3>1, <3>2, <3>3, <3>4 DEF Resume
  <2>5. ASSUME NEW t \in Task, Expire(t) PROVE TypeOK'
    BY <2>5 DEF TypeOK, Expire, TimeOut, CloseExpires, workerVars, procVars, Caller
  <2>6. ASSUME NEW t \in Task, Abort(t) PROVE TypeOK'
    BY <2>6 DEF TypeOK, Abort, workerVars, procVars, Caller
  <2>7. ASSUME NEW t \in Task, DelayedKill(t) PROVE TypeOK'
    BY <2>7, DropHandleType DEF TypeOK, DelayedKill, procVars
  <2>8. ASSUME NEW t \in Task, GetTaskResult(t) PROVE TypeOK'
    BY <2>8 DEF TypeOK, GetTaskResult, workerVars, procVars, Caller
  <2>9. ASSUME NEW t \in Task, CancelTask(t) PROVE TypeOK'
    BY <2>9 DEF TypeOK, CancelTask, workerVars, procVars, Status, Terminal
  <2>10. CASE ForceClose
    BY <2>10, DropHandleType DEF TypeOK, ForceClose, force_close, Status, Terminal
  <2>11. ASSUME NEW w \in Worker, WorkerServes(w) PROVE TypeOK'
    <3> DEFINE req == Head(toWorker[w])
    <3>1. req \in Request /\ toWorker' \in [Worker -> Seq(Request)]
      BY <2>11 DEF TypeOK, WorkerServes
    <3>2. PICK s \in Lines(req) : fromWorker' = [fromWorker EXCEPT ![w] = @ \o s]
      BY <2>11 DEF WorkerServes
    <3>3. s \in Seq(Response)
      BY <3>1, <3>2, LinesType
    <3>4. fromWorker' \in [Worker -> Seq(Response)]
      BY <3>2, <3>3 DEF TypeOK
    <3> QED
      BY <2>11, <3>1, <3>4 DEF TypeOK, WorkerServes
  <2>12. ASSUME NEW w \in Worker, WorkerCrashes(w) PROVE TypeOK'
    BY <2>12 DEF TypeOK, WorkerCrashes
  <2>13. CASE UNCHANGED vars
    BY <2>13 DEF TypeOK, vars, workerVars, procVars
  <2> QED
    BY <2>1, <2>2, <2>3, <2>4, <2>5, <2>6, <2>7, <2>8, <2>9, <2>10, <2>11, <2>12, <2>13
    DEF Next
<1>3. QED
  BY <1>1, <1>2, PTL DEF Spec
-----------------------------------------------------------------------------
(* The worker, the lock and the count belong together.  The two invariants are *)
(* proved at once because they need each other: a dead handle is cleared and   *)
(* the count with it, which is right only because no other task holds the lock *)
(* while opening; and a new handle is counted because its opening was.         *)
Own == HandleIsCounted /\ OneConversation

\* A step in which nobody takes or gives back the lock.
LEMMA OwnQuiet ==
  ASSUME Own, UNCHANGED <<handle, conn, slot>>,
         \A u \in Task : pc'[u] = pc[u] \/ (pc[u] \notin Holding /\ pc'[u] \notin Holding)
  PROVE  Own'
BY DEF Own, HandleIsCounted, OneConversation, Holding

\* A step that drops the handle under whoever holds the lock.
LEMMA OwnDrop ==
  ASSUME Own, DropHandle, UNCHANGED <<conn, pc>>
  PROVE  Own'
BY DEF Own, HandleIsCounted, OneConversation, DropHandle

\* A step with which the task that holds the lock ends.
LEMMA OwnEnd ==
  ASSUME TypeOK, Own, NEW t \in Task, NEW e \in Ended, pc[t] \in Holding,
         pc' = [pc EXCEPT ![t] = e], conn' = None,
         handle' \in {None, handle}, handle' # None => slot'
  PROVE  Own'
<1>1. \A u \in Task : pc'[u] \notin Holding
  BY DEF Own, OneConversation, TypeOK, Ended, Holding
<1> QED
  BY <1>1 DEF Own, HandleIsCounted, OneConversation, Holding

\* A step with which a task takes the lock, or holds it and goes on.
LEMMA OwnHold ==
  ASSUME TypeOK, NEW t \in Task, NEW p \in Holding,
         \A u \in Task \ {t} : pc[u] \notin Holding,
         pc' = [pc EXCEPT ![t] = p], conn' \in Worker,
         p = "running" => handle' = conn' /\ slot',
         p # "running" => handle' = None,
         p \in {"opening", "init"} => slot'
  PROVE  Own'
<1>1. pc'[t] = p /\ \A u \in Task \ {t} : pc'[u] = pc[u]
  BY DEF TypeOK
<1>2. conn' # None
  BY NoneAssumption
<1> QED
  BY <1>1, <1>2 DEF Own, HandleIsCounted, OneConversation, Holding

LEMMA OwnInit == Init => Own
BY DEF Init, Own, HandleIsCounted, OneConversation, Holding

\* A task has a coroutine once somebody has asked for it.
Fresh ==
  \A t \in Task : /\ caller[t] = "idle" <=> pc[t] = "idle"
                  /\ pc[t] = "idle" => ~must[t] /\ t \notin tasks

LEMMA FreshInit == Init => Fresh
BY DEF Init, Fresh

LEMMA FreshStep == TypeOK /\ Fresh /\ [Next]_vars => Fresh'
<1> SUFFICES ASSUME TypeOK, Fresh, [Next]_vars PROVE Fresh'
  OBVIOUS
<1> USE DEF TypeOK, Fresh
<1>1. ASSUME NEW t \in Task, Execute(t) \/ Resume(t) PROVE Fresh'
  BY <1>1 DEF Execute, Resume, Reply, CallerRaises, CloseReturns, CloseTimedOut, force_close
<1>2. ASSUME NEW t \in Task, Expire(t) \/ Abort(t) \/ GetTaskResult(t) \/ CancelTask(t)
      PROVE  Fresh'
  BY <1>2 DEF Expire, TimeOut, CloseExpires, Abort, GetTaskResult, CancelTask
<1>3. ASSUME NEW t \in Task, LoopStep(t) \/ SpawnStep(t) PROVE Fresh'
  <2>1. CASE Enqueue(t) \/ UseWorker(t) \/ StartWorker(t) \/ RefuseWorker(t)
    BY <2>1 DEF Enqueue, UseWorker, StartWorker, RefuseWorker, Return, CanLock, Waiting
  <2>2. CASE Spawned(t) \/ Opened(t) \/ WorkerReady(t)
    BY <2>2 DEF Spawned, Opened, WorkerReady
  <2>3. CASE SpawnFails(t) \/ OpenFails(t)
    BY <2>3 DEF SpawnFails, OpenFails, Return
  <2>4. CASE Finish(t) \/ WorkerDead(t) \/ ConnectionReset(t)
    BY <2>4 DEF Finish, WorkerDead, ConnectionReset, Return
  <2>5. CASE Cancelled(t)
    BY <2>5 DEF Cancelled
  <2> QED
    BY <1>3, <2>1, <2>2, <2>3, <2>4, <2>5 DEF LoopStep, SpawnStep
<1>4. ASSUME NEW t \in Task, DelayedKill(t) PROVE Fresh'
  BY <1>4 DEF DelayedKill
<1>5. CASE ForceClose
  BY <1>5 DEF ForceClose, force_close
<1>6. ASSUME NEW w \in Worker, WorkerServes(w) \/ WorkerCrashes(w) PROVE Fresh'
  BY <1>6 DEF WorkerServes, WorkerCrashes
<1>7. CASE UNCHANGED vars
  BY <1>7 DEF vars
<1> QED
  BY <1>1, <1>2, <1>3, <1>4, <1>5, <1>6, <1>7 DEF Next

LEMMA OwnStep == TypeOK /\ Fresh /\ Own /\ [Next]_vars => Own'
<1> SUFFICES ASSUME TypeOK, Fresh, Own, [Next]_vars PROVE Own'
  OBVIOUS
<1>1. ASSUME NEW t \in Task, Execute(t) PROVE Own'
  BY <1>1, OwnQuiet DEF TypeOK, Fresh, Execute, workerVars, Holding
<1>2. ASSUME NEW t \in Task, LoopStep(t) PROVE Own'
  <2>1. CASE Enqueue(t)
    BY <2>1, OwnQuiet DEF TypeOK, Enqueue, workerVars, Holding
  <2>2. CASE UseWorker(t)
    <3>1. handle' = handle /\ slot' = slot /\ conn' = handle /\ handle \in Worker /\ slot
      BY <2>2, NoneAssumption DEF TypeOK, UseWorker, Own, HandleIsCounted
    <3>2. pc' = [pc EXCEPT ![t] = "running"] /\ \A u \in Task : pc[u] \notin Holding
      BY <2>2 DEF UseWorker, CanLock
    <3> QED
      BY <3>1, <3>2, OwnHold DEF Holding
  <2>3. CASE StartWorker(t)
    <3>1. handle' = None /\ conn' \in Worker
      BY <2>3 DEF StartWorker
    <3>2. pc' = [pc EXCEPT ![t] = "spawning"] /\ \A u \in Task : pc[u] \notin Holding
      BY <2>3 DEF StartWorker, CanLock
    <3> QED
      BY <3>1, <3>2, OwnHold DEF Holding
  <2>4. CASE RefuseWorker(t)
    <3>1. handle' = None /\ conn' = None /\ \A u \in Task : pc'[u] \notin Holding
      BY <2>4 DEF TypeOK, RefuseWorker, DropHandle, Return, CanLock, Holding,
                  Own, OneConversation
    <3> QED
      BY <3>1 DEF Own, HandleIsCounted, OneConversation, Holding
  <2>5. CASE Opened(t)
    <3>1. /\ pc[t] = "opening" /\ pc' = [pc EXCEPT ![t] = "init"]
          /\ conn' = conn /\ handle' = handle /\ slot' = slot
      BY <2>5 DEF Opened
    <3>2. conn \in Worker /\ handle = None /\ slot /\ \A u \in Task \ {t} : pc[u] \notin Holding
      BY <3>1 DEF TypeOK, Own, HandleIsCounted, OneConversation, Holding
    <3> QED
      BY <3>1, <3>2, OwnHold DEF Holding
  <2>6. CASE OpenFails(t)
    <3>1. /\ pc[t] \in Holding /\ pc' = [pc EXCEPT ![t] = "returned"]
          /\ conn' = None /\ handle' = handle
      BY <2>6 DEF OpenFails, Return, Holding
    <3>2. handle = None
      BY <2>6 DEF OpenFails, Own, OneConversation
    <3> QED
      BY <3>1, <3>2, OwnEnd DEF Ended
  <2>7. CASE WorkerReady(t)
    <3>1. /\ pc[t] = "init" /\ pc' = [pc EXCEPT ![t] = "running"]
          /\ conn' = conn /\ handle' = conn /\ slot' = slot
      BY <2>7 DEF WorkerReady
    <3>2. conn \in Worker /\ slot /\ \A u \in Task \ {t} : pc[u] \notin Holding
      BY <3>1 DEF TypeOK, Own, HandleIsCounted, OneConversation, Holding
    <3> QED
      BY <3>1, <3>2, OwnHold DEF Holding
  <2>8. CASE Finish(t) \/ ConnectionReset(t)
    <3>1. /\ pc[t] \in Holding /\ pc' = [pc EXCEPT ![t] = "returned"]
          /\ conn' = None /\ handle' = handle /\ slot' = slot
      BY <2>8 DEF Finish, ConnectionReset, Return, Holding
    <3> QED
      BY <3>1, OwnEnd DEF Ended, Own, HandleIsCounted
  <2>9. CASE WorkerDead(t)
    <3>1. /\ pc[t] \in Holding /\ pc' = [pc EXCEPT ![t] = "returned"]
          /\ conn' = None /\ handle' = None
      BY <2>9 DEF WorkerDead, DropHandle, Return, Holding
    <3> QED
      BY <3>1, OwnEnd DEF Ended
  <2>10. CASE Cancelled(t)
    <3>1. /\ pc' = [pc EXCEPT ![t] = "raised"] /\ handle' = handle /\ slot' = slot
          /\ conn' = IF pc[t] \in Holding THEN None ELSE conn
      BY <2>10 DEF Cancelled
    <3>2. CASE pc[t] \in Holding
      BY <3>1, <3>2, OwnEnd DEF Ended, Own, HandleIsCounted
    <3>3. CASE pc[t] \notin Holding
      BY <3>1, <3>3, OwnQuiet DEF TypeOK, Holding
    <3> QED
      BY <3>2, <3>3
  <2> QED
    BY <1>2, <2>1, <2>2, <2>3, <2>4, <2>5, <2>6, <2>7, <2>8, <2>9, <2>10 DEF LoopStep
<1>3. ASSUME NEW t \in Task, SpawnStep(t) PROVE Own'
  <2>1. CASE Spawned(t)
    <3>1. /\ pc[t] = "spawning" /\ pc' = [pc EXCEPT ![t] = "opening"]
          /\ conn' = conn /\ handle' = handle /\ slot'
      BY <2>1 DEF Spawned
    <3>2. conn \in Worker /\ handle = None /\ \A u \in Task \ {t} : pc[u] \notin Holding
      BY <3>1 DEF TypeOK, Own, OneConversation, Holding
    <3> QED
      BY <3>1, <3>2, OwnHold DEF Holding
  <2>2. CASE SpawnFails(t)
    <3>1. /\ pc[t] \in Holding /\ pc' = [pc EXCEPT ![t] = "returned"]
          /\ conn' = None /\ handle' = handle /\ slot' = slot
      BY <2>2 DEF SpawnFails, Return, Holding
    <3> QED
      BY <3>1, OwnEnd DEF Ended, Own, HandleIsCounted
  <2> QED
    BY <1>3, <2>1, <2>2 DEF SpawnStep
<1>4. ASSUME NEW t \in Task, Resume(t) PROVE Own'
  <2>1. CASE Reply(t) \/ CallerRaises(t)
    BY <2>1, OwnQuiet DEF Reply, CallerRaises, workerVars
  <2>2. CASE CloseReturns(t) \/ CloseTimedOut(t)
    BY <2>2, OwnDrop DEF CloseReturns, CloseTimedOut, force_close
  <2> QED
    BY <1>4, <2>1, <2>2 DEF Resume
<1>5. ASSUME NEW t \in Task, Expire(t) \/ Abort(t) \/ GetTaskResult(t) \/ CancelTask(t)
      PROVE  Own'
  BY <1>5, OwnQuiet DEF Expire, TimeOut, CloseExpires, Abort, GetTaskResult, CancelTask,
                        workerVars
<1>6. ASSUME NEW t \in Task, DelayedKill(t) PROVE Own'
  <2>1. CASE is_done(t)
    BY <1>6, <2>1, OwnQuiet DEF DelayedKill
  <2>2. CASE ~is_done(t)
    BY <1>6, <2>2, OwnDrop DEF DelayedKill
  <2> QED
    BY <2>1, <2>2
<1>7. CASE ForceClose
  BY <1>7, OwnDrop DEF ForceClose, force_close
<1>8. ASSUME NEW w \in Worker, WorkerServes(w) \/ WorkerCrashes(w) PROVE Own'
  BY <1>8, OwnQuiet DEF WorkerServes, WorkerCrashes
<1>9. CASE UNCHANGED vars
  BY <1>9, OwnQuiet DEF vars, workerVars
<1> QED
  BY <1>1, <1>2, <1>3, <1>4, <1>5, <1>6, <1>7, <1>8, <1>9 DEF Next

\* A project that has a worker, or is opening one, is counted by the Limiter,
\* whatever clients, timers and workers do (project.py, _exec_one, force_close and
\* _delayed_kill; session.py, close_database).
THEOREM HandleCounted == Spec => []HandleIsCounted
<1>1. Own => HandleIsCounted
  BY DEF Own
<1> QED
  BY <1>1, FreshInit, FreshStep, OwnInit, OwnStep, TypeCorrect, PTL DEF Spec

\* _exec_lock is enough to keep one conversation with one worker, although
\* force_close and the watchdog change the handle without it.
THEOREM SingleConversation == Spec => []OneConversation
<1>1. Own => OneConversation
  BY DEF Own
<1> QED
  BY <1>1, FreshInit, FreshStep, OwnInit, OwnStep, TypeCorrect, PTL DEF Spec
-----------------------------------------------------------------------------
(* Cancellation and answers. *)

\* Cancellation wins over a late answer: _exec_one looks at _cancel_requested
\* after the last await, and no other step completes a task.
THEOREM CancelledNotCompleted == Spec => []CancelNeverCompletes
<1>1. Init => CancelNeverCompletes
  BY DEF Init, CancelNeverCompletes
<1>2. TypeOK /\ CancelNeverCompletes /\ [Next]_vars => CancelNeverCompletes'
  <2> SUFFICES ASSUME TypeOK, CancelNeverCompletes, [Next]_vars PROVE CancelNeverCompletes'
    OBVIOUS
  <2> USE DEF TypeOK, CancelNeverCompletes
  <2>1. CASE UNCHANGED <<creq, status>>
    BY <2>1
  <2>2. ASSUME NEW t \in Task, LoopStep(t) \/ SpawnStep(t) PROVE CancelNeverCompletes'
    <3>1. CASE UseWorker(t) \/ RefuseWorker(t) \/ WorkerReady(t) \/ SpawnFails(t)
      BY <3>1 DEF UseWorker, RefuseWorker, WorkerReady, SpawnFails, Return
    <3>2. CASE OpenFails(t) \/ WorkerDead(t) \/ ConnectionReset(t)
      BY <3>2 DEF OpenFails, WorkerDead, ConnectionReset, Return
    <3>3. CASE Finish(t)
      BY <3>3 DEF Finish, Return
    <3>4. CASE Cancelled(t)
      BY <3>4 DEF Cancelled
    <3> QED
      BY <2>1, <2>2, <3>1, <3>2, <3>3, <3>4
      DEF LoopStep, SpawnStep, Enqueue, StartWorker, Opened, Spawned
  <2>3. ASSUME NEW t \in Task, CancelTask(t) PROVE CancelNeverCompletes'
    BY <2>3 DEF CancelTask
  <2>4. CASE ForceClose \/ \E t \in Task : CloseTimedOut(t)
    BY <2>4 DEF ForceClose, CloseTimedOut, force_close
  <2> QED
    BY <2>1, <2>2, <2>3, <2>4
    DEF Next, Execute, Resume, Reply, CallerRaises, CloseReturns, Expire, TimeOut,
        CloseExpires, Abort, GetTaskResult, DelayedKill, WorkerServes, WorkerCrashes, vars
<1> QED
  BY <1>1, <1>2, TypeCorrect, PTL DEF Spec

\* Who is answered with what: a task that ends has a terminal status, except a
\* save or a close whose own wait was cancelled before its first step, and nobody
\* hands those out.
HandedOut ==
  /\ \A t \in Task : is_done(t) /\ (t \in Tool \/ pc[t] = "returned") => status[t] \in Terminal
  /\ \A t \in Tool : must[t] => status[t] = "cancelled"
  /\ \A t \in Task : caller[t] = "pending" => t \in Tool
  /\ \A t \in Task : caller[t] = "expired" => t \in Close
  /\ \A t \in Task \ Close :
       caller[t] = "replied" => is_done(t) /\ (t \in Tool \/ pc[t] = "returned")

LEMMA HandedOutStep == TypeOK /\ Fresh /\ HandedOut /\ [Next]_vars => HandedOut'
<1> SUFFICES ASSUME TypeOK, Fresh, HandedOut, [Next]_vars PROVE HandedOut'
  OBVIOUS
<1> USE DEF TypeOK, HandedOut, is_done, Ended, Terminal
<1>1. ASSUME NEW t \in Task, Execute(t) PROVE HandedOut'
  BY <1>1 DEF Execute, Fresh
<1>2. ASSUME NEW t \in Task, Resume(t) PROVE HandedOut'
  <2>1. CASE Reply(t) \/ CallerRaises(t) \/ CloseReturns(t)
    BY <1>2, <2>1 DEF Reply, CallerRaises, CloseReturns
  <2>2. CASE CloseTimedOut(t)
    BY <2>2 DEF CloseTimedOut, force_close, Task
  <2> QED
    BY <1>2, <2>1, <2>2 DEF Resume
<1>3. ASSUME NEW t \in Task, Expire(t) \/ Abort(t) PROVE HandedOut'
  <2>1. CASE Expire(t)
    BY <2>1, TaskAssumption DEF Expire, TimeOut, CloseExpires, Task
  <2>2. CASE Abort(t)
    BY <2>2 DEF Abort, Task
  <2> QED
    BY <1>3, <2>1, <2>2
<1>4. ASSUME NEW t \in Task, GetTaskResult(t) \/ CancelTask(t) PROVE HandedOut'
  <2>1. CASE GetTaskResult(t)
    BY <2>1 DEF GetTaskResult, Task
  <2>2. CASE CancelTask(t)
    BY <2>2 DEF CancelTask, Task
  <2> QED
    BY <1>4, <2>1, <2>2
<1>5. ASSUME NEW t \in Task, LoopStep(t) \/ SpawnStep(t) PROVE HandedOut'
  <2>1. CASE Enqueue(t) \/ UseWorker(t) \/ StartWorker(t) \/ RefuseWorker(t)
    BY <2>1 DEF Enqueue, UseWorker, StartWorker, RefuseWorker, Return, CanLock, Waiting, Task
  <2>2. CASE Spawned(t) \/ Opened(t) \/ WorkerReady(t)
    BY <2>2 DEF Spawned, Opened, WorkerReady, Task
  <2>3. CASE SpawnFails(t) \/ OpenFails(t) \/ ConnectionReset(t) \/ WorkerDead(t)
    BY <2>3 DEF SpawnFails, OpenFails, ConnectionReset, WorkerDead, Return, Task
  <2>4. CASE Finish(t)
    BY <2>4 DEF Finish, Return, Task
  <2>5. CASE Cancelled(t)
    BY <2>5 DEF Cancelled, Task
  <2> QED
    BY <1>5, <2>1, <2>2, <2>3, <2>4, <2>5 DEF LoopStep, SpawnStep
<1>6. ASSUME NEW t \in Task, DelayedKill(t) PROVE HandedOut'
  BY <1>6 DEF DelayedKill
<1>7. CASE ForceClose
  BY <1>7 DEF ForceClose, force_close, Task
<1>8. ASSUME NEW w \in Worker, WorkerServes(w) \/ WorkerCrashes(w) PROVE HandedOut'
  BY <1>8 DEF WorkerServes, WorkerCrashes
<1>9. CASE UNCHANGED vars
  BY <1>9 DEF vars
<1> QED
  BY <1>1, <1>2, <1>3, <1>4, <1>5, <1>6, <1>7, <1>8, <1>9 DEF Next

\* What execute() and get_task_result() hand out is final, although force_close
\* and cancel_task may set the status of a task at any time.
THEOREM FinalAnswers == Spec => []AnswersAreFinal
<1>1. Init => HandedOut
  BY DEF Init, HandedOut, is_done, Ended, Task
<1>2. HandedOut => AnswersAreFinal
  BY DEF HandedOut, AnswersAreFinal
<1> QED
  BY <1>1, <1>2, HandedOutStep, FreshInit, FreshStep, TypeCorrect, PTL DEF Spec
-----------------------------------------------------------------------------
(* No worker and no count is lost but in one place. *)

\* A task that is running although the project has dropped its worker is talking
\* to a process that was killed.
Orphan == \A t \in Task : pc[t] = "running" /\ handle = None => conn \notin alive

\* The step keeps what the project owns.
Kept ==
  /\ \A w \in alive \cap alive' : Owned(w) => Owned(w)'
  /\ CountOwned /\ slot' => CountOwned'

Opening == \E t \in Task : must[t] /\ pc[t] \in {"opening", "init"}

LEMMA KeptQuiet ==
  ASSUME UNCHANGED <<handle, conn>>,
         \A u \in Task : pc'[u] = pc[u] \/ pc[u] \notin {"opening", "init"}
  PROVE  Kept
BY DEF Kept, Owned, CountOwned

LEMMA KeptDrop ==
  ASSUME Own, DropHandle, UNCHANGED <<conn, pc>>
  PROVE  Kept
BY DEF Kept, Owned, CountOwned, DropHandle, Kill

LEMMA OrphanInit == Init => Orphan
BY DEF Init, Orphan

LEMMA OwnedStep ==
  TypeOK /\ Fresh /\ Own /\ Orphan /\ [Next]_vars => Orphan' /\ (Kept \/ Opening)
<1> SUFFICES ASSUME TypeOK, Fresh, Own, Orphan, [Next]_vars
             PROVE  Orphan' /\ (Kept \/ Opening)
  OBVIOUS
<1> DEFINE Goal == Orphan' /\ (Kept \/ Opening)
<1>q. ASSUME UNCHANGED <<handle, conn>>, alive' \subseteq alive,
             \A u \in Task : \/ pc'[u] = pc[u]
                             \/ pc[u] \notin {"opening", "init"} /\ pc'[u] # "running"
      PROVE  Goal
  BY <1>q, KeptQuiet DEF Orphan
<1>d. ASSUME DropHandle, UNCHANGED <<conn, pc>> PROVE Goal
  <2>1. Orphan'
    BY <1>d DEF Orphan, Own, OneConversation, DropHandle, Kill, Holding, TypeOK
  <2> QED
    BY <1>d, <2>1, KeptDrop
<1>e. ASSUME NEW t \in Task, pc[t] \in Holding, NEW e \in Ended,
             pc' = [pc EXCEPT ![t] = e]
      PROVE  Orphan'
  BY <1>e DEF Orphan, TypeOK, Own, OneConversation, Holding, Ended
<1>1. ASSUME NEW t \in Task, Execute(t) PROVE Goal
  BY <1>1, <1>q DEF TypeOK, Fresh, Execute, workerVars, procVars
<1>2. ASSUME NEW t \in Task, LoopStep(t) \/ SpawnStep(t) PROVE Goal
  <2>1. CASE Enqueue(t)
    BY <2>1, <1>q DEF TypeOK, Enqueue, Waiting, workerVars, procVars
  <2>2. CASE UseWorker(t)
    <3>1. /\ handle' = handle /\ conn' = handle /\ alive' = alive /\ handle # None
          /\ conn = None
      BY <2>2, NoneAssumption DEF UseWorker, CanLock, TypeOK, Own, OneConversation
    <3> QED
      BY <3>1, NoneAssumption DEF Orphan, Kept, Owned, CountOwned, TypeOK
  <2>3. CASE StartWorker(t)
    <3>1. /\ handle \notin alive /\ conn = None /\ slot' = (slot /\ handle = None)
          /\ pc' = [pc EXCEPT ![t] = "spawning"] /\ \A u \in Task : pc[u] \notin Holding
      BY <2>3 DEF StartWorker, CanLock, Own, OneConversation
    <3> QED
      BY <3>1, NoneAssumption DEF Orphan, Kept, Owned, CountOwned, TypeOK, Holding
  <2>4. CASE RefuseWorker(t)
    <3>1. /\ handle \notin alive /\ conn' = conn /\ slot' = (slot /\ handle = None)
          /\ \A u \in Task : pc[u] \notin Holding
          /\ pc' = [pc EXCEPT ![t] = "returned"]
      BY <2>4 DEF RefuseWorker, DropHandle, CanLock, Return
    <3> QED
      BY <3>1, NoneAssumption DEF Orphan, Kept, Owned, CountOwned, TypeOK, Holding
  <2>5. CASE Spawned(t) \/ Opened(t)
    <3>1. /\ UNCHANGED <<handle, conn, alive>>
          /\ \E p \in {"opening", "init"} : pc' = [pc EXCEPT ![t] = p]
      BY <2>5 DEF Spawned, Opened
    <3> QED
      BY <3>1 DEF Orphan, Kept, Owned, CountOwned, TypeOK
  <2>6. CASE WorkerReady(t)
    <3>1. /\ conn' = conn /\ handle' = conn /\ handle = None /\ conn \in Worker
          /\ pc' = [pc EXCEPT ![t] = "running"]
      BY <2>6 DEF WorkerReady, TypeOK, Own, OneConversation, Holding
    <3> QED
      BY <3>1, NoneAssumption DEF Orphan, Kept, Owned, CountOwned, TypeOK
  <2>7. CASE SpawnFails(t) \/ OpenFails(t)
    <3>1. /\ handle' = handle /\ handle = None /\ pc[t] \in Holding
          /\ pc' = [pc EXCEPT ![t] = "returned"] /\ conn \notin alive'
          /\ pc[t] = "spawning" \/ ~slot'
      BY <2>7 DEF SpawnFails, OpenFails, Kill, Return, Own, OneConversation, Holding
    <3>2. Orphan'
      BY <3>1, <1>e DEF Ended
    <3>3. Kept
      BY <3>1, NoneAssumption DEF Kept, Owned, CountOwned, TypeOK, Own, OneConversation, Holding
    <3> QED
      BY <3>2, <3>3
  <2>8. CASE Finish(t) \/ ConnectionReset(t)
    <3>1. /\ handle' = handle /\ pc[t] = "running" /\ alive' = alive
          /\ pc' = [pc EXCEPT ![t] = "returned"]
      BY <2>8 DEF Finish, ConnectionReset, Return, procVars
    <3>2. Orphan'
      BY <3>1, <1>e DEF Ended, Holding
    <3>3. handle # None => conn = handle
      BY <3>1 DEF Own, OneConversation, Holding
    <3>4. Kept
      BY <3>1, <3>3 DEF Kept, Owned, CountOwned, TypeOK, Orphan
    <3> QED
      BY <3>2, <3>4
  <2>9. CASE WorkerDead(t)
    <3>1. /\ pc[t] = "running" /\ conn \notin alive /\ slot' = (slot /\ handle = None)
          /\ pc' = [pc EXCEPT ![t] = "returned"] /\ handle \notin alive'
      BY <2>9 DEF WorkerDead, AtEOF, DropHandle, Kill, Return
    <3>2. Orphan'
      BY <3>1, <1>e DEF Ended, Holding
    <3>3. Kept
      BY <3>1 DEF Kept, Owned, CountOwned, TypeOK
    <3> QED
      BY <3>2, <3>3
  <2>10. CASE Cancelled(t)
    <3>1. /\ handle' = handle /\ pc' = [pc EXCEPT ![t] = "raised"] /\ must[t]
          /\ conn' = IF pc[t] \in Holding THEN None ELSE conn
          /\ alive' \subseteq alive
      BY <2>10 DEF Cancelled, Kill, procVars
    <3>2. CASE pc[t] \in {"opening", "init"}
      BY <3>1, <3>2, <1>e DEF Opening, Ended, Holding
    <3>3. CASE pc[t] = "spawning"
      <4>1. conn \notin alive'
        BY <2>10, <3>3 DEF Cancelled, Kill
      <4>2. Orphan'
        BY <3>1, <3>3, <1>e DEF Ended, Holding
      <4>3. Kept
        BY <3>1, <3>3, <4>1 DEF Kept, Owned, CountOwned, TypeOK
      <4> QED
        BY <4>2, <4>3
    <3>4. CASE pc[t] = "running"
      <4>1. handle # None => conn = handle
        BY <3>4 DEF Own, OneConversation, Holding
      <4>2. Orphan'
        BY <3>1, <3>4, <1>e DEF Ended, Holding
      <4>3. Kept
        BY <3>1, <3>4, <4>1 DEF Kept, Owned, CountOwned, TypeOK, Orphan
      <4> QED
        BY <4>2, <4>3
    <3>5. CASE pc[t] \notin Holding
      BY <3>1, <3>5, <1>q DEF TypeOK, Holding
    <3> QED
      BY <3>2, <3>3, <3>4, <3>5 DEF Holding
  <2> QED
    BY <1>2, <2>1, <2>2, <2>3, <2>4, <2>5, <2>6, <2>7, <2>8, <2>9, <2>10
    DEF LoopStep, SpawnStep
<1>3. ASSUME NEW t \in Task, Resume(t) PROVE Goal
  <2>1. CASE Reply(t) \/ CallerRaises(t)
    BY <2>1, <1>q DEF Reply, CallerRaises, workerVars, procVars
  <2>2. CASE CloseReturns(t) \/ CloseTimedOut(t)
    BY <2>2, <1>d DEF CloseReturns, CloseTimedOut, force_close
  <2> QED
    BY <1>3, <2>1, <2>2 DEF Resume
<1>4. ASSUME NEW t \in Task, Expire(t) \/ Abort(t) \/ GetTaskResult(t) \/ CancelTask(t)
      PROVE  Goal
  BY <1>4, <1>q DEF Expire, TimeOut, CloseExpires, Abort, GetTaskResult, CancelTask,
                    workerVars, procVars
<1>5. ASSUME NEW t \in Task, DelayedKill(t) PROVE Goal
  BY <1>5, <1>d, <1>q DEF DelayedKill, procVars
<1>6. CASE ForceClose
  BY <1>6, <1>d DEF ForceClose, force_close
<1>7. ASSUME NEW w \in Worker, WorkerServes(w) \/ WorkerCrashes(w) PROVE Goal
  BY <1>7, <1>q DEF WorkerServes, WorkerCrashes
<1>8. CASE UNCHANGED vars
  BY <1>8, <1>q DEF vars, workerVars, procVars
<1> QED
  BY <1>1, <1>2, <1>3, <1>4, <1>5, <1>6, <1>7, <1>8 DEF Next

\* A living worker, or the count of one, is lost only by a cancellation between
\* on_spawned and `self._handle = handle` in _ensure_worker: crashes, timeouts,
\* force-closes and watchdogs lose none.
THEOREM LostWhileOpening == Spec => LostOnlyWhileOpening
<1>1. TypeOK /\ Fresh /\ Own /\ Orphan /\ [Next]_vars
      => [(\/ \E w \in alive \cap alive' : Owned(w) /\ ~Owned(w)'
           \/ CountOwned /\ slot' /\ ~CountOwned')
          => \E t \in Task : must[t] /\ pc[t] \in {"opening", "init"}]_vars
  BY OwnedStep DEF Kept, Opening
<1>2. TypeOK /\ Fresh /\ Own /\ Orphan /\ [Next]_vars => Orphan'
  BY OwnedStep
<1> QED
  BY <1>1, <1>2, OrphanInit, OwnInit, OwnStep, FreshInit, FreshStep, TypeCorrect, PTL
  DEF Spec, LostOnlyWhileOpening
-----------------------------------------------------------------------------
(* A Project implements TaskQueue. *)

\* The abstract state, named for the proof.
stage   == [t \in Task |-> Stage(t)]
outcome == [t \in Task |-> EndedAs(t)]

LEMMA QueueInit == Init => Queue!Init
BY DEF Init, Queue!Init, Stage, EndedAs, is_done, Ended

\* A step that moves no task from one stage to another is a stutter.
LEMMA QueueStutter ==
  ASSUME arrived' = arrived,
         \A u \in Task : Stage(u)' = Stage(u) /\ EndedAs(u)' = EndedAs(u)
  PROVE  UNCHANGED Queue!vars
BY DEF Queue!vars

\* A step that takes a set of tasks out by cancelling them.
LEMMA QueueWithdraw ==
  ASSUME arrived' = arrived, NEW S \in SUBSET Task,
         \A u \in S : Stage(u) \in {"waiting", "serving"},
         \A u \in S : Stage(u)' = "ended" /\ EndedAs(u)' = "cancelled",
         \A u \in Task \ S : Stage(u)' = Stage(u) /\ EndedAs(u)' = EndedAs(u)
  PROVE  Queue!Next
<1>1. Queue!Withdraw(S)
  BY DEF Queue!Withdraw
<1> QED
  BY <1>1 DEF Queue!Next

\* A step that moves one task, and tells how it ended.
LEMMA QueueMove ==
  ASSUME NEW t \in Task, NEW s, NEW o,
         Stage(t)' = s, EndedAs(t)' = o,
         \A u \in Task \ {t} : Stage(u)' = Stage(u) /\ EndedAs(u)' = EndedAs(u)
  PROVE  /\ stage' = [stage EXCEPT ![t] = s]
         /\ outcome' = [outcome EXCEPT ![t] = o]
BY DEF stage, outcome

LEMMA BeforeSame == \A u, t \in Task : Queue!Before(u, t) <=> Before(u, t)
BY DEF Queue!Before, Before

LEMMA StageNext ==
  ASSUME TypeOK, NEW t \in Task, CanLock(t)
  PROVE  Queue!IsNext(t)
<1>1. Stage(t) = "waiting"
  BY DEF CanLock, Stage, Waiting, Holding, is_done, Ended
<1>2. \A u \in Task : Stage(u) # "serving"
  BY DEF CanLock, Stage
<1>3. \A u \in Task : Before(u, t) => Stage(u) # "waiting"
  BY DEF CanLock, Stage, TypeOK, PC, is_done
<1> QED
  BY <1>1, <1>2, <1>3, BeforeSame DEF Queue!IsNext
\* A coroutine that is being cancelled has not ended.
Pursued == \A t \in Task : must[t] => ~is_done(t)

LEMMA PursuedInit == Init => Pursued
BY DEF Init, Pursued

LEMMA QueueStep ==
  TypeOK /\ Fresh /\ Pursued /\ [Next]_vars => Pursued' /\ [Queue!Next]_(Queue!vars)
<1> SUFFICES ASSUME TypeOK, Fresh, Pursued, [Next]_vars
             PROVE  Pursued' /\ [Queue!Next]_(Queue!vars)
  OBVIOUS
<1> DEFINE Goal == Pursued' /\ [Queue!Next]_(Queue!vars)
<1>q. ASSUME UNCHANGED <<pc, must, status, arrived>> PROVE Goal
  BY <1>q, QueueStutter DEF Pursued, Stage, EndedAs, is_done
<1>w. ASSUME UNCHANGED <<pc, arrived>>, NEW S \in SUBSET Task,
             \A u \in S : pc[u] # "idle" /\ ~is_done(u) /\ must'[u],
             \A u \in Task \ S : must'[u] = must[u] /\ status'[u] = status[u]
      PROVE  Goal
  <2> DEFINE S0 == {u \in S : ~must[u]}
  <2>1. Pursued'
    BY <1>w DEF Pursued, is_done
  <2>2. \A u \in S0 : Stage(u) \in {"waiting", "serving"}
    BY <1>w DEF Stage
  <2>3. \A u \in S0 : Stage(u)' = "ended" /\ EndedAs(u)' = "cancelled"
    BY <1>w DEF Stage, EndedAs, is_done, Ended
  <2>4. \A u \in Task \ S0 : Stage(u)' = Stage(u) /\ EndedAs(u)' = EndedAs(u)
    BY <1>w DEF Stage, EndedAs, is_done, Ended
  <2> HIDE DEF S0
  <2>5. S0 \in SUBSET Task
    BY DEF S0
  <2> QED
    BY <1>w, <2>1, <2>2, <2>3, <2>4, <2>5, QueueWithdraw
<1>h. ASSUME NEW t \in Task, NEW p \in Holding, pc[t] \in Holding, ~must[t],
             pc' = [pc EXCEPT ![t] = p], UNCHANGED <<must, arrived>>,
             \A u \in Task \ {t} : status'[u] = status[u]
      PROVE  Goal
  <2>1. /\ \A u \in Task \ {t} : pc'[u] = pc[u] /\ status'[u] = status[u]
        /\ pc'[t] = p
    BY <1>h DEF TypeOK
  <2>2. Pursued'
    BY <1>h, <2>1 DEF Pursued, is_done, Holding, Ended
  <2>3. \A u \in Task : Stage(u)' = Stage(u) /\ EndedAs(u)' = EndedAs(u)
    BY <1>h, <2>1 DEF Stage, EndedAs, is_done, Holding, Ended
  <2> QED
    BY <1>h, <2>2, <2>3, QueueStutter
<1>s. ASSUME NEW t \in Task, NEW p \in Holding, CanLock(t),
             pc' = [pc EXCEPT ![t] = p], UNCHANGED <<must, arrived>>,
             \A u \in Task \ {t} : status'[u] = status[u]
      PROVE  Goal
  <2>1. /\ \A u \in Task \ {t} : pc'[u] = pc[u] /\ status'[u] = status[u]
        /\ pc'[t] = p
    BY <1>s DEF TypeOK
  <2>2. Pursued'
    BY <1>s, <2>1 DEF Pursued, is_done, Holding, Ended
  <2>3. /\ Stage(t)' = "serving" /\ EndedAs(t)' = "none" /\ EndedAs(t) = "none"
        /\ \A u \in Task \ {t} : Stage(u)' = Stage(u) /\ EndedAs(u)' = EndedAs(u)
    BY <1>s, <2>1 DEF Stage, EndedAs, CanLock, is_done, Waiting, Holding, Ended
  <2>4. Queue!IsNext(t)
    BY <1>s, StageNext
  <2>5. /\ stage' = [stage EXCEPT ![t] = "serving"]
        /\ outcome' = [outcome EXCEPT ![t] = "none"]
    BY <2>3, QueueMove
  <2>6. outcome' = outcome
    BY <2>3, <2>5 DEF outcome
  <2>7. Queue!Serve(t)
    BY <1>s, <2>4, <2>5, <2>6 DEF Queue!Serve, stage, outcome
  <2> QED
    BY <2>2, <2>7 DEF Queue!Next
<1>e. ASSUME NEW t \in Task, NEW o \in Terminal, pc[t] \in Holding, ~must[t], Return(t, o),
             UNCHANGED <<must, arrived>>
      PROVE  Goal
  <2>1. /\ \A u \in Task \ {t} : pc'[u] = pc[u] /\ status'[u] = status[u]
        /\ pc'[t] = "returned" /\ status'[t] = o
    BY <1>e DEF TypeOK, Return
  <2>2. Pursued'
    BY <1>e, <2>1 DEF Pursued, is_done
  <2>3. /\ Stage(t)' = "ended" /\ EndedAs(t)' = o /\ Stage(t) = "serving"
        /\ \A u \in Task \ {t} : Stage(u)' = Stage(u) /\ EndedAs(u)' = EndedAs(u)
    BY <1>e, <2>1 DEF Stage, EndedAs, is_done, Holding, Ended
  <2>4. /\ stage' = [stage EXCEPT ![t] = "ended"]
        /\ outcome' = [outcome EXCEPT ![t] = o]
    BY <2>3, QueueMove
  <2>5. Queue!Finish(t, o)
    BY <1>e, <2>3, <2>4 DEF Queue!Finish, stage, outcome
  <2>6. o \in Queue!Outcome \ {"none"}
    BY DEF Queue!Outcome, Terminal
  <2> QED
    BY <2>2, <2>5, <2>6 DEF Queue!Next
<1>1. ASSUME NEW t \in Task, Execute(t) PROVE Goal
  <2>1. /\ pc[t] = "idle" /\ ~must[t] /\ pc'[t] = "new"
        /\ \A u \in Task \ {t} : pc'[u] = pc[u]
        /\ must' = must /\ status' = status /\ arrived' = Append(arrived, t)
    BY <1>1 DEF Execute, Fresh, TypeOK
  <2>2. Pursued'
    BY <2>1 DEF Pursued, is_done, Ended
  <2>3. /\ Stage(t) = "absent" /\ EndedAs(t) = "none"
        /\ Stage(t)' = "waiting" /\ EndedAs(t)' = "none"
        /\ \A u \in Task \ {t} : Stage(u)' = Stage(u) /\ EndedAs(u)' = EndedAs(u)
    BY <2>1 DEF Stage, EndedAs, is_done, Holding, Ended
  <2>4. /\ stage' = [stage EXCEPT ![t] = "waiting"]
        /\ outcome' = [outcome EXCEPT ![t] = "none"]
    BY <2>3, QueueMove
  <2>5. outcome' = outcome
    BY <2>3, <2>4 DEF outcome
  <2>6. Queue!Arrive(t)
    BY <2>1, <2>3, <2>4, <2>5 DEF Queue!Arrive, stage, outcome
  <2> QED
    BY <2>2, <2>6 DEF Queue!Next
<1>2. ASSUME NEW t \in Task, LoopStep(t) \/ SpawnStep(t) PROVE Goal
  <2>1. CASE Enqueue(t)
    <3>1. /\ \A u \in Task \ {t} : pc'[u] = pc[u]
          /\ pc[t] = "new" /\ pc'[t] = "queued"
          /\ UNCHANGED <<must, status, arrived>>
      BY <2>1 DEF Enqueue, TypeOK
    <3>2. Pursued'
      BY <3>1 DEF Pursued, is_done, Ended
    <3>3. \A u \in Task : Stage(u)' = Stage(u) /\ EndedAs(u)' = EndedAs(u)
      BY <3>1 DEF Stage, EndedAs, is_done, Holding, Ended
    <3> QED
      BY <3>1, <3>2, <3>3, QueueStutter
  <2>2. CASE UseWorker(t) \/ StartWorker(t)
    <3>1. \A u \in Task \ {t} : status'[u] = status[u]
      BY <2>2 DEF UseWorker, StartWorker, TypeOK
    <3>2. \E p \in Holding : pc' = [pc EXCEPT ![t] = p]
      BY <2>2 DEF UseWorker, StartWorker, Holding
    <3>3. CanLock(t) /\ UNCHANGED <<must, arrived>>
      BY <2>2 DEF UseWorker, StartWorker
    <3> QED
      BY <3>1, <3>2, <3>3, <1>s
  <2>3. CASE RefuseWorker(t)
    <3>1. /\ \A u \in Task \ {t} : pc'[u] = pc[u] /\ status'[u] = status[u]
          /\ pc'[t] = "returned" /\ status'[t] = "failed"
          /\ must' = must /\ arrived' = arrived /\ CanLock(t)
      BY <2>3 DEF RefuseWorker, Return, TypeOK
    <3>2. Pursued'
      BY <3>1 DEF Pursued, is_done, CanLock
    <3>3. /\ Stage(t)' = "ended" /\ EndedAs(t)' = "failed"
          /\ \A u \in Task \ {t} : Stage(u)' = Stage(u) /\ EndedAs(u)' = EndedAs(u)
      BY <3>1 DEF Stage, EndedAs, is_done, Ended
    <3>4. Queue!IsNext(t)
      BY <3>1, StageNext
    <3>5. /\ stage' = [stage EXCEPT ![t] = "ended"]
          /\ outcome' = [outcome EXCEPT ![t] = "failed"]
      BY <3>3, QueueMove
    <3>6. Queue!Refuse(t)
      BY <3>1, <3>4, <3>5 DEF Queue!Refuse, stage, outcome
    <3> QED
      BY <3>2, <3>6 DEF Queue!Next
  <2>4. CASE Spawned(t) \/ Opened(t) \/ WorkerReady(t)
    <3>1. \A u \in Task \ {t} : status'[u] = status[u]
      BY <2>4 DEF Spawned, Opened, WorkerReady, TypeOK
    <3>2. \E p \in Holding : pc' = [pc EXCEPT ![t] = p]
      BY <2>4 DEF Spawned, Opened, WorkerReady, Holding
    <3>3. pc[t] \in Holding /\ ~must[t] /\ UNCHANGED <<must, arrived>>
      BY <2>4 DEF Spawned, Opened, WorkerReady, Holding
    <3> QED
      BY <3>1, <3>2, <3>3, <1>h
  <2>5. CASE SpawnFails(t) \/ OpenFails(t) \/ ConnectionReset(t) \/ WorkerDead(t)
    <3>1. \E o \in Terminal : Return(t, o)
      BY <2>5 DEF SpawnFails, OpenFails, ConnectionReset, WorkerDead, Terminal
    <3>2. pc[t] \in Holding /\ ~must[t] /\ UNCHANGED <<must, arrived>>
      BY <2>5 DEF SpawnFails, OpenFails, ConnectionReset, WorkerDead, Holding
    <3> QED
      BY <3>1, <3>2, <1>e
  <2>6. CASE Finish(t)
    <3>1. \E o \in Terminal : Return(t, o)
      BY <2>6 DEF Finish, Terminal
    <3>2. pc[t] \in Holding /\ ~must[t] /\ UNCHANGED <<must, arrived>>
      BY <2>6 DEF Finish, Holding
    <3> QED
      BY <3>1, <3>2, <1>e
  <2>7. CASE Cancelled(t)
    <3>1. /\ \A u \in Task \ {t} : /\ pc'[u] = pc[u] /\ status'[u] = status[u]
                                   /\ must'[u] = must[u]
          /\ pc'[t] = "raised" /\ must[t] /\ ~is_done(t) /\ ~must'[t] /\ arrived' = arrived
      BY <2>7 DEF Cancelled, TypeOK
    <3>2. Pursued'
      BY <3>1 DEF Pursued, is_done
    <3>3. \A u \in Task : Stage(u)' = Stage(u) /\ EndedAs(u)' = EndedAs(u)
      BY <3>1 DEF Stage, EndedAs, is_done, Ended, Fresh
    <3> QED
      BY <3>1, <3>2, <3>3, QueueStutter
  <2> QED
    BY <1>2, <2>1, <2>2, <2>3, <2>4, <2>5, <2>6, <2>7 DEF LoopStep, SpawnStep
<1>3. ASSUME NEW t \in Task, Resume(t) PROVE Goal
  <2>1. CASE Reply(t) \/ CallerRaises(t) \/ CloseReturns(t)
    BY <2>1, <1>q DEF Reply, CallerRaises, CloseReturns
  <2>2. CASE CloseTimedOut(t)
    <3> DEFINE S == {u \in tasks : ~is_done(u)}
    <3>1. /\ S \in SUBSET Task /\ \A u \in S : pc[u] # "idle" /\ ~is_done(u) /\ must'[u]
          /\ \A u \in Task \ S : must'[u] = must[u] /\ status'[u] = status[u]
      BY <2>2 DEF CloseTimedOut, force_close, TypeOK, Fresh
    <3>2. UNCHANGED <<pc, arrived>>
      BY <2>2 DEF CloseTimedOut
    <3> QED
      BY <3>1, <3>2, <1>w
  <2> QED
    BY <1>3, <2>1, <2>2 DEF Resume
<1>4. ASSUME NEW t \in Task, Expire(t) \/ Abort(t) \/ CancelTask(t) PROVE Goal
  <2>1. ASSUME UNCHANGED <<pc, arrived>>, caller[t] # "idle", ~is_done(t), must'[t],
               \A u \in Task \ {t} : must'[u] = must[u] /\ status'[u] = status[u]
        PROVE  Goal
    <3>1. pc[t] # "idle" /\ {t} \in SUBSET Task
      BY <2>1 DEF Fresh
    <3> QED
      BY <2>1, <3>1, <1>w
  <2>2. CASE TimeOut(t)
    BY <2>2, <1>q DEF TimeOut
  <2>3. CASE CloseExpires(t)
    BY <2>1, <2>3 DEF CloseExpires, TypeOK
  <2>4. CASE Abort(t)
    <3>1. CASE t \notin Tool /\ ~is_done(t)
      BY <2>1, <2>4, <3>1 DEF Abort, TypeOK
    <3>2. CASE ~(t \notin Tool /\ ~is_done(t))
      <4>1. must' = must
        BY <2>4, <3>2 DEF Abort, TypeOK
      <4> QED
        BY <2>4, <4>1, <1>q DEF Abort
    <3> QED
      BY <3>1, <3>2
  <2>5. CASE CancelTask(t)
    <3>1. CASE status[t] = "running" /\ handle # None
      BY <2>5, <3>1, <1>q DEF CancelTask
    <3>2. CASE ~(status[t] = "running" /\ handle # None)
      BY <2>1, <2>5, <3>2 DEF CancelTask, TypeOK
    <3> QED
      BY <3>1, <3>2
  <2> QED
    BY <1>4, <2>2, <2>3, <2>4, <2>5 DEF Expire
<1>5. ASSUME NEW t \in Task, GetTaskResult(t) \/ DelayedKill(t) PROVE Goal
  BY <1>5, <1>q DEF GetTaskResult, DelayedKill
<1>6. CASE ForceClose
  <2> DEFINE S == {u \in tasks : ~is_done(u)}
  <2>1. /\ S \in SUBSET Task /\ \A u \in S : pc[u] # "idle" /\ ~is_done(u) /\ must'[u]
        /\ \A u \in Task \ S : must'[u] = must[u] /\ status'[u] = status[u]
    BY <1>6 DEF ForceClose, force_close, TypeOK, Fresh
  <2>2. UNCHANGED <<pc, arrived>>
    BY <1>6 DEF ForceClose
  <2> QED
    BY <2>1, <2>2, <1>w
<1>7. ASSUME NEW w \in Worker, WorkerServes(w) \/ WorkerCrashes(w) PROVE Goal
  BY <1>7, <1>q DEF WorkerServes, WorkerCrashes
<1>8. CASE UNCHANGED vars
  BY <1>8, <1>q DEF vars
<1> QED
  BY <1>1, <1>2, <1>3, <1>4, <1>5, <1>6, <1>7, <1>8 DEF Next

\* Commands are served one at a time in the order of their arrival, each ends at
\* most once and its outcome never changes: _exec_one under _exec_lock, with every
\* way in which cancel_task, close_database and the watchdog may interfere.
THEOREM ImplementsQueue == Spec => QueueSpec
<1>1. TypeOK /\ Fresh /\ Pursued /\ [Next]_vars => Pursued'
  BY QueueStep
<1>2. TypeOK /\ Fresh /\ Pursued /\ [Next]_vars => [Queue!Next]_(Queue!vars)
  BY QueueStep
<1> QED
  BY <1>1, <1>2, QueueInit, PursuedInit, FreshInit, FreshStep, TypeCorrect, PTL
  DEF Spec, QueueSpec, Queue!Spec
-----------------------------------------------------------------------------
(* What is in the sockets, and whose answer a task is given. *)

\* Nothing is on its way to worker w or from it.
Empty(w) == toWorker[w] = << >> /\ fromWorker[w] = << >>

\* Worker w was asked for req and for nothing else, and may have answered.
Asked(w, req) ==
  \/ toWorker[w] \in {<< >>, <<req>>} /\ fromWorker[w] = << >>
  \/ toWorker[w] = << >> /\ \E e \in BOOLEAN : fromWorker[w] = <<[of |-> req, err |-> e]>>

\* Only the project's worker and the one that is being started have anything in
\* their sockets, and a worker being started has one exchange at a time.
Sockets ==
  /\ \A w \in Worker : w # handle /\ w # conn => Empty(w)
  /\ \A t \in Task : /\ pc[t] = "spawning" => Empty(conn)
                     /\ pc[t] = "opening" => Asked(conn, "open")
                     /\ pc[t] = "init" => Asked(conn, "save_init")
                     /\ pc[t] = "running" /\ handle = None => Empty(conn)

LEMMA KillEmpties ==
  ASSUME NEW v, Kill(v), NEW w \in Worker
  PROVE  /\ w = v => Empty(w)'
         /\ w # v => toWorker'[w] = toWorker[w] /\ fromWorker'[w] = fromWorker[w]
         /\ Empty(w) => Empty(w)'
BY DEF Kill, Empty

LEMMA SocketsQuiet ==
  ASSUME Sockets, UNCHANGED <<handle, conn, toWorker, fromWorker>>,
         \A u \in Task : pc'[u] = pc[u] \/ (pc[u] \notin Holding /\ pc'[u] \notin Holding)
  PROVE  Sockets'
BY DEF Sockets, Empty, Asked, Holding

LEMMA SocketsDrop ==
  ASSUME TypeOK, Own, Sockets, DropHandle, UNCHANGED <<conn, pc>>
  PROVE  Sockets'
<1>1. Kill(handle) /\ handle' = None
  BY DEF DropHandle
<1>2. ASSUME NEW w \in Worker, w # conn PROVE Empty(w)'
  BY <1>1, <1>2, KillEmpties DEF Sockets
<1>3. ASSUME NEW t \in Task, pc[t] \in {"spawning", "opening", "init"}
      PROVE  /\ conn \in Worker
             /\ toWorker'[conn] = toWorker[conn] /\ fromWorker'[conn] = fromWorker[conn]
  <2>1. handle = None /\ conn \in Worker
    BY <1>3 DEF Own, OneConversation, Holding, TypeOK
  <2> QED
    BY <1>1, <2>1, NoneAssumption, KillEmpties
<1>4. ASSUME NEW t \in Task, pc[t] = "running" PROVE Empty(conn)'
  <2>1. conn \in Worker /\ handle \in {None, conn}
    BY <1>4 DEF Own, OneConversation, Holding, TypeOK
  <2> QED
    BY <1>1, <1>4, <2>1, KillEmpties DEF Sockets
<1> QED
  BY <1>1, <1>2, <1>3, <1>4 DEF Sockets, Empty, Asked

\* A step after which nobody holds the lock.
LEMMA SocketsEnd ==
  ASSUME TypeOK, Own, NEW t \in Task, NEW e \in Ended, pc[t] \in Holding,
         pc' = [pc EXCEPT ![t] = e], conn' = None,
         \A w \in Worker : w # handle' => Empty(w)'
  PROVE  Sockets'
<1>1. \A u \in Task : pc'[u] \notin Holding
  BY DEF Own, OneConversation, TypeOK, Ended, Holding
<1> QED
  BY <1>1 DEF Sockets, Holding

LEMMA SocketsStep == TypeOK /\ Fresh /\ Own /\ Sockets /\ [Next]_vars => Sockets'
<1> SUFFICES ASSUME TypeOK, Fresh, Own, Sockets, [Next]_vars PROVE Sockets'
  OBVIOUS
<1>h. ASSUME NEW t \in Task, pc[t] \in Holding
      PROVE  /\ \A u \in Task \ {t} : pc[u] \notin Holding
             /\ conn \in Worker /\ handle \in {None, conn}
             /\ pc[t] # "running" => handle = None
  BY <1>h DEF Own, OneConversation, Holding, TypeOK
<1>l. ASSUME NEW t \in Task, CanLock(t)
      PROVE  /\ \A u \in Task : pc[u] \notin Holding
             /\ \A w \in Worker : w # handle => Empty(w)
  BY <1>l, NoneAssumption DEF CanLock, Own, OneConversation, Sockets
<1>1. ASSUME NEW t \in Task, Execute(t) PROVE Sockets'
  BY <1>1, SocketsQuiet DEF TypeOK, Fresh, Execute, workerVars, procVars, Holding
<1>2. ASSUME NEW t \in Task, LoopStep(t) \/ SpawnStep(t) PROVE Sockets'
  <2>1. CASE Enqueue(t)
    BY <2>1, SocketsQuiet DEF TypeOK, Enqueue, workerVars, procVars, Holding
  <2>2. CASE UseWorker(t)
    <3>1. /\ handle' = handle /\ conn' = handle /\ handle # None /\ fromWorker' = fromWorker
          /\ \A w \in Worker : w # handle => toWorker'[w] = toWorker[w]
      BY <2>2, NoneAssumption DEF UseWorker, Send, TypeOK
    <3>2. \A u \in Task : pc'[u] \notin {"spawning", "opening", "init"}
      BY <2>2 DEF UseWorker, CanLock, TypeOK, Holding
    <3> QED
      BY <2>2, <1>l, <3>1, <3>2 DEF UseWorker, Sockets, Empty
  <2>3. CASE StartWorker(t)
    <3>1. /\ handle' = None /\ conn' \in Worker \ {handle}
          /\ \A w \in Worker : /\ w = handle => Empty(w)'
                               /\ w # handle =>
                                    toWorker'[w] = toWorker[w] /\ fromWorker'[w] = fromWorker[w]
      BY <2>3 DEF StartWorker, Empty
    <3>2. \A w \in Worker : Empty(w)'
      BY <2>3, <1>l, <3>1 DEF StartWorker, Empty
    <3>3. pc'[t] = "spawning" /\ \A u \in Task \ {t} : pc'[u] \notin Holding
      BY <2>3, <1>l DEF StartWorker, TypeOK
    <3> QED
      BY <3>1, <3>2, <3>3 DEF Sockets, Holding
  <2>4. CASE RefuseWorker(t)
    <3>1. \A w \in Worker : Empty(w)'
      BY <2>4, <1>l, KillEmpties DEF RefuseWorker, DropHandle
    <3>2. \A u \in Task : pc'[u] \notin Holding
      BY <2>4, <1>l DEF RefuseWorker, Return, TypeOK, Holding
    <3> QED
      BY <3>1, <3>2 DEF Sockets, Holding
  <2>5. CASE Spawned(t) \/ Opened(t)
    <3>1. /\ pc[t] \in Holding /\ pc[t] # "running" /\ handle' = handle /\ conn' = conn
      BY <2>5 DEF Spawned, Opened, Holding
    <3>2. /\ conn \in Worker /\ handle = None /\ \A u \in Task \ {t} : pc'[u] \notin Holding
          /\ \A w \in Worker : w # conn =>
               toWorker'[w] = toWorker[w] /\ fromWorker'[w] = fromWorker[w]
      BY <2>5, <1>h, <3>1 DEF Spawned, Opened, Send, Receive, TypeOK
    <3>3. CASE Spawned(t)
      <4>1. pc'[t] = "opening" /\ toWorker[conn] = << >> /\ fromWorker[conn] = << >>
        BY <3>3 DEF Spawned, Sockets, Empty, TypeOK
      <4>2. toWorker'[conn] = <<"open">> /\ fromWorker'[conn] = << >>
        BY <3>2, <3>3, <4>1 DEF Spawned, Send, TypeOK
      <4> QED
        BY <3>1, <3>2, <4>1, <4>2 DEF Sockets, Empty, Asked, Holding
    <3>4. CASE Opened(t)
      <4>1. /\ pc'[t] = "init" /\ toWorker[conn] = << >>
            /\ \E e \in BOOLEAN : fromWorker[conn] = <<[of |-> "open", err |-> e]>>
        BY <3>4 DEF Opened, Receive, Sockets, Asked, TypeOK
      <4>2. toWorker'[conn] = <<"save_init">> /\ fromWorker'[conn] = << >>
        BY <3>2, <3>4, <4>1 DEF Opened, Send, Receive, TypeOK
      <4> QED
        BY <3>1, <3>2, <4>1, <4>2 DEF Sockets, Empty, Asked, Holding
    <3> QED
      BY <2>5, <3>3, <3>4
  <2>6. CASE SpawnFails(t) \/ OpenFails(t)
    <3>1. /\ pc[t] \in Holding /\ pc[t] # "running" /\ handle' = handle /\ conn' = None
          /\ pc' = [pc EXCEPT ![t] = "returned"] /\ Kill(conn)
      BY <2>6 DEF SpawnFails, OpenFails, Return, Holding
    <3>2. \A w \in Worker : Empty(w)'
      BY <1>h, <3>1, KillEmpties, NoneAssumption DEF Sockets
    <3> QED
      BY <3>1, <3>2, SocketsEnd DEF Ended
  <2>7. CASE WorkerReady(t)
    <3>1. /\ pc[t] = "init" /\ handle' = conn /\ conn' = conn
          /\ \A w \in Worker : w # conn =>
               toWorker'[w] = toWorker[w] /\ fromWorker'[w] = fromWorker[w]
      BY <2>7 DEF WorkerReady, Send, Receive
    <3>2. conn \in Worker /\ handle = None /\ \A u \in Task \ {t} : pc[u] \notin Holding
      BY <1>h, <3>1 DEF Holding
    <3>3. conn # None /\ pc'[t] = "running" /\ \A u \in Task \ {t} : pc'[u] \notin Holding
      BY <2>7, <3>2, NoneAssumption DEF WorkerReady, TypeOK
    <3> QED
      BY <3>1, <3>2, <3>3, NoneAssumption DEF Sockets, Empty, Holding
  <2>8. CASE Finish(t) \/ ConnectionReset(t)
    <3>1. /\ pc[t] = "running" /\ pc' = [pc EXCEPT ![t] = "returned"]
          /\ conn' = None /\ handle' = handle
          /\ \A w \in Worker : w # conn =>
               toWorker'[w] = toWorker[w] /\ fromWorker'[w] = fromWorker[w]
      BY <2>8 DEF Finish, ConnectionReset, Return, Receive, procVars, TypeOK
    <3>2. conn \in Worker /\ handle \in {None, conn} /\ handle # None
      BY <1>h, <2>8, <3>1, NoneAssumption DEF Holding, Finish, ConnectionReset, Receive,
                         Sockets, Empty
    <3>3. \A w \in Worker : w # handle' => Empty(w)'
      BY <3>1, <3>2 DEF Sockets, Empty
    <3> QED
      BY <3>1, <3>3, SocketsEnd DEF Ended, Holding
  <2>9. CASE WorkerDead(t)
    <3>1. /\ pc[t] = "running" /\ pc' = [pc EXCEPT ![t] = "returned"] /\ conn' = None
          /\ handle' = None /\ Kill(handle)
      BY <2>9 DEF WorkerDead, Return, DropHandle
    <3>2. \A w \in Worker : Empty(w)'
      BY <1>h, <3>1, KillEmpties, NoneAssumption DEF Sockets, Holding
    <3> QED
      BY <3>1, <3>2, SocketsEnd DEF Ended, Holding
  <2>10. CASE Cancelled(t)
    <3>1. CASE pc[t] \notin Holding
      BY <2>10, <3>1, SocketsQuiet DEF Cancelled, Holding, TypeOK, procVars
    <3>2. CASE pc[t] \in Holding
      <4>1. /\ pc' = [pc EXCEPT ![t] = "raised"] /\ handle' = handle /\ conn' = None
            /\ conn \in Worker /\ handle \in {None, conn}
        BY <1>h, <2>10, <3>2 DEF Cancelled
      <4>2. \A w \in Worker : w # handle => Empty(w)'
        <5>1. CASE pc[t] = "running"
          <6>1. UNCHANGED procVars
            BY <2>10, <5>1 DEF Cancelled
          <6> QED
            BY <4>1, <5>1, <6>1 DEF Sockets, Empty, procVars
        <5>2. CASE Kill(conn)
          BY <4>1, <5>2, KillEmpties DEF Sockets
        <5>3. CASE /\ toWorker'   = [toWorker EXCEPT ![conn] = << >>]
                   /\ fromWorker' = [fromWorker EXCEPT ![conn] = << >>]
          BY <4>1, <5>3 DEF Sockets, Empty, TypeOK
        <5> QED
          BY <2>10, <3>2, <5>1, <5>2, <5>3 DEF Cancelled, Holding
      <4> QED
        BY <3>2, <4>1, <4>2, SocketsEnd DEF Ended
    <3> QED
      BY <3>1, <3>2
  <2> QED
    BY <1>2, <2>1, <2>2, <2>3, <2>4, <2>5, <2>6, <2>7, <2>8, <2>9, <2>10 DEF LoopStep, SpawnStep
<1>3. ASSUME NEW t \in Task, Resume(t) PROVE Sockets'
  <2>1. CASE Reply(t) \/ CallerRaises(t)
    BY <2>1, SocketsQuiet DEF Reply, CallerRaises, workerVars, procVars
  <2>2. CASE CloseReturns(t) \/ CloseTimedOut(t)
    BY <2>2, SocketsDrop DEF CloseReturns, CloseTimedOut, force_close
  <2> QED
    BY <1>3, <2>1, <2>2 DEF Resume
<1>4. ASSUME NEW t \in Task, Expire(t) \/ Abort(t) \/ GetTaskResult(t) \/ CancelTask(t)
      PROVE  Sockets'
  BY <1>4, SocketsQuiet DEF Expire, TimeOut, CloseExpires, Abort, GetTaskResult, CancelTask,
                            workerVars, procVars
<1>5. ASSUME NEW t \in Task, DelayedKill(t) PROVE Sockets'
  <2>1. CASE is_done(t)
    BY <1>5, <2>1, SocketsQuiet DEF DelayedKill, procVars
  <2>2. CASE ~is_done(t)
    BY <1>5, <2>2, SocketsDrop DEF DelayedKill
  <2> QED
    BY <2>1, <2>2
<1>6. CASE ForceClose
  BY <1>6, SocketsDrop DEF ForceClose, force_close
<1>7. ASSUME NEW w \in Worker, WorkerServes(w) PROVE Sockets'
  <2>1. /\ UNCHANGED <<handle, conn, pc>> /\ toWorker[w] # << >>
        /\ toWorker' = [toWorker EXCEPT ![w] = Tail(@)]
    BY <1>7 DEF WorkerServes
  <2>2. \A v \in Worker : v # w => toWorker'[v] = toWorker[v] /\ fromWorker'[v] = fromWorker[v]
    BY <1>7 DEF WorkerServes
  <2>3. ASSUME NEW req \in {"open", "save_init"}, Asked(w, req) PROVE Asked(w, req)'
    <3>1. toWorker[w] = <<req>> /\ fromWorker[w] = << >> /\ Head(toWorker[w]) = req
      BY <2>1, <2>3 DEF Asked
    <3>2. PICK s \in Lines(req) : fromWorker' = [fromWorker EXCEPT ![w] = @ \o s]
      BY <1>7, <3>1 DEF WorkerServes
    <3>3. PICK e \in BOOLEAN : s = <<[of |-> req, err |-> e]>>
      BY <2>3, <3>2, TaskAssumption DEF Lines, Task
    <3>4. fromWorker'[w] = <<[of |-> req, err |-> e]>>
      BY <3>1, <3>2, <3>3 DEF TypeOK
    <3>5. toWorker'[w] = << >>
      BY <2>1, <3>1 DEF TypeOK
    <3> QED
      BY <3>4, <3>5 DEF Asked
  <2>4. \A v \in Worker : Empty(v) => Empty(v)'
    BY <2>1, <2>2 DEF Empty
  <2>5. \A v \in Worker, req \in {"open", "save_init"} : Asked(v, req) => Asked(v, req)'
    BY <2>2, <2>3 DEF Asked
  <2> QED
    BY <1>h, <2>1, <2>4, <2>5 DEF Sockets, Holding
<1>8. ASSUME NEW w \in Worker, WorkerCrashes(w) PROVE Sockets'
  <2>1. \A v \in Worker : /\ toWorker'[v] \in {toWorker[v], << >>} /\ fromWorker'[v] = fromWorker[v]
    BY <1>8 DEF WorkerCrashes, TypeOK
  <2>2. \A v \in Worker : Empty(v) => Empty(v)'
    BY <2>1 DEF Empty
  <2>3. \A v \in Worker, req \in {"open", "save_init"} : Asked(v, req) => Asked(v, req)'
    BY <2>1 DEF Asked
  <2>4. UNCHANGED <<handle, conn, pc>>
    BY <1>8 DEF WorkerCrashes
  <2> QED
    BY <1>h, <2>2, <2>3, <2>4 DEF Sockets, Holding
<1>9. CASE UNCHANGED vars
  BY <1>9, SocketsQuiet DEF vars, workerVars, procVars
<1> QED
  BY <1>1, <1>2, <1>3, <1>4, <1>5, <1>6, <1>7, <1>8, <1>9 DEF Next

\* The project's worker w has nothing twice, neither as a request nor as an answer.
Once(w) ==
  /\ \A i \in 1..Len(toWorker[w]) : toWorker[w][i] \in Task
  /\ \A i \in 1..Len(fromWorker[w]) : fromWorker[w][i].of \in Task \cup {"junk"}
  /\ \A i, j \in 1..Len(toWorker[w]) : toWorker[w][i] = toWorker[w][j] => i = j
  /\ \A i, j \in 1..Len(fromWorker[w]) :
       fromWorker[w][i].of = fromWorker[w][j].of => i = j \/ fromWorker[w][i].of = "junk"
  /\ \A i \in 1..Len(toWorker[w]), j \in 1..Len(fromWorker[w]) :
       toWorker[w][i] # fromWorker[w][j].of

\* Command v is on its way to worker w, or its answer is on its way from it.
Pending(v, w) ==
  \/ \E i \in 1..Len(toWorker[w]) : toWorker[w][i] = v
  \/ \E i \in 1..Len(fromWorker[w]) : fromWorker[w][i].of = v

Sent(v) == pc[v] = "running" \/ is_done(v)

\* A task is answered when it ends, with something that was sent; and what is
\* pending in the project's worker was sent once, and answers nobody yet.
Answers ==
  \A t \in Task : /\ answer[t] \in Task \cup {"none", "junk"}
                  /\ answer[t] # "none" => pc[t] = "returned"
                  /\ answer[t] \in Task => Sent(answer[t])

Said ==
  /\ Answers /\ AnswerUsedOnce
  /\ handle # None => /\ Once(handle)
                      /\ \A v \in Task : Pending(v, handle) =>
                           Sent(v) /\ \A t \in Task : answer[t] # v

\* A step that sends nothing and reads nothing.
LEMMA SaidQuiet ==
  ASSUME TypeOK, Said, answer' = answer, handle' \in {None, handle},
         \A u \in Task : /\ Sent(u) => Sent(u)'
                         /\ pc[u] = "returned" => pc'[u] = "returned",
         handle' # None => /\ toWorker'[handle] \in {toWorker[handle], << >>}
                           /\ fromWorker'[handle] = fromWorker[handle]
  PROVE  Said'
<1>1. Answers' /\ AnswerUsedOnce'
  BY DEF Said, Answers, AnswerUsedOnce
<1>2. ASSUME handle' # None
      PROVE  /\ Once(handle)'
             /\ \A v \in Task : Pending(v, handle)' => Pending(v, handle)
  <2>1. handle' = handle /\ handle # None /\ Once(handle)
    BY <1>2 DEF Said
  <2>2. CASE toWorker'[handle] = toWorker[handle]
    BY <1>2, <2>1, <2>2 DEF Once, Pending
  <2>3. CASE toWorker'[handle] = << >>
    <3>1. Len(toWorker'[handle]) = 0
      BY <2>3
    <3> QED
      BY <1>2, <2>1, <3>1 DEF Once, Pending
  <2> QED
    BY <1>2, <2>2, <2>3
<1> QED
  BY <1>1, <1>2 DEF Said

\* A step that sends task t to the project's worker, which has no such task.
LEMMA SaidSend ==
  ASSUME TypeOK, Said, NEW t \in Task, answer' = answer, handle' \in Worker,
         pc' = [pc EXCEPT ![t] = "running"], ~Sent(t),
         toWorker' = [toWorker EXCEPT ![handle'] = Append(@, t)],
         \/ handle' = handle /\ fromWorker' = fromWorker
         \/ toWorker[handle'] = << >> /\ fromWorker'[handle'] = << >>
  PROVE  Said'
<1> DEFINE w == handle'
           s == toWorker[w]
<1>1. \A u \in Task : pc[u] # "returned" \/ u # t
  BY DEF Sent, is_done, Ended
<1>2. Answers' /\ AnswerUsedOnce'
  BY <1>1 DEF Said, Answers, AnswerUsedOnce, Sent, is_done, TypeOK
<1>3. /\ s \in Seq(Request) /\ Len(toWorker'[w]) = Len(s) + 1
      /\ \A i \in 1..Len(s) : toWorker'[w][i] = s[i]
      /\ toWorker'[w][Len(s) + 1] = t
  BY DEF TypeOK, Request
<1>4. handle' # None /\ t \notin {"junk"} /\ \A u \in Task : answer[u] # t
  BY NoneAssumption, TaskAssumption DEF Said, Answers
<1>5. CASE handle' = handle /\ fromWorker' = fromWorker
  <2>1. Once(handle) /\ ~Pending(t, handle)
    BY <1>4, <1>5 DEF Said
  <2>2. \A v \in Task : Pending(v, handle)' => v = t \/ Pending(v, handle)
    BY <1>3, <1>5 DEF Pending
  <2>3. Once(handle)'
    <3>1. /\ \A i \in 1..Len(s) + 1 : toWorker'[w][i] \in Task
          /\ \A i, j \in 1..Len(s) + 1 : toWorker'[w][i] = toWorker'[w][j] => i = j
      BY <1>3, <1>5, <2>1 DEF Once, Pending
    <3>2. \A i \in 1..Len(s) + 1, j \in 1..Len(fromWorker[w]) :
            toWorker'[w][i] # fromWorker[w][j].of
      BY <1>3, <1>5, <2>1 DEF Once, Pending
    <3> QED
      BY <1>3, <1>5, <2>1, <3>1, <3>2 DEF Once
  <2>4. \A v \in Task : Sent(v) \/ v = t => Sent(v)'
    BY DEF Sent, is_done, TypeOK
  <2> QED
    BY <1>2, <1>4, <1>5, <2>1, <2>2, <2>3, <2>4 DEF Said
<1>6. CASE s = << >> /\ fromWorker'[w] = << >>
  <2>1. Len(fromWorker'[w]) = 0 /\ Len(toWorker'[w]) = 1 /\ toWorker'[w][1] = t
    BY <1>3, <1>6
  <2>2. Once(handle)' /\ \A v \in Task : Pending(v, handle)' => v = t
    BY <2>1 DEF Once, Pending
  <2>3. Sent(t)'
    BY DEF Sent, TypeOK
  <2> QED
    BY <1>2, <1>4, <2>2, <2>3 DEF Said
<1> QED
  BY <1>5, <1>6

\* A step with which task t ends, with the next line of the project's worker.
LEMMA SaidReceive ==
  ASSUME TypeOK, Said, NEW t \in Task, NEW r \in Response, handle' = handle, handle \in Worker,
         pc[t] = "running", pc' = [pc EXCEPT ![t] = "returned"],
         answer' = [answer EXCEPT ![t] = r.of], Receive(handle, r), toWorker' = toWorker
  PROVE  Said'
<1> DEFINE s == fromWorker[handle]
<1>0. handle # None /\ Once(handle)
  BY NoneAssumption DEF Said
<1>1. /\ s \in Seq(Response) /\ s # << >> /\ r = s[1] /\ fromWorker'[handle] = Tail(s)
      /\ Len(Tail(s)) = Len(s) - 1 /\ Len(s) \in Nat \ {0}
      /\ \A i \in 1..Len(Tail(s)) : i + 1 \in 1..Len(s) /\ Tail(s)[i] = s[i + 1]
  BY DEF Receive, TypeOK
<1>2. r.of \in Task \cup {"junk"} /\ "junk" \notin Task
  BY <1>0, <1>1, TaskAssumption DEF Once
<1>3. r.of \in Task => Sent(r.of) /\ \A u \in Task : answer[u] # r.of
  BY <1>0, <1>1 DEF Said, Pending
<1>4. \A u \in Task : Sent(u) => Sent(u)'
  BY DEF Sent, is_done, Ended, TypeOK
<1>5. Answers'
  BY <1>2, <1>3, <1>4 DEF Said, Answers, TypeOK
<1>6. AnswerUsedOnce'
  BY <1>2, <1>3 DEF Said, AnswerUsedOnce, TypeOK
<1>7. Once(handle)'
  <2>1. /\ \A i \in 1..Len(Tail(s)) : Tail(s)[i].of \in Task \cup {"junk"}
        /\ \A i \in 1..Len(toWorker[handle]), j \in 1..Len(Tail(s)) :
             toWorker[handle][i] # Tail(s)[j].of
    BY <1>0, <1>1 DEF Once
  <2>2. ASSUME NEW i \in 1..Len(Tail(s)), NEW j \in 1..Len(Tail(s)), Tail(s)[i].of = Tail(s)[j].of
        PROVE  i = j \/ Tail(s)[i].of = "junk"
    <3>1. i + 1 = j + 1 \/ s[i + 1].of = "junk"
      BY <1>0, <1>1, <2>2 DEF Once
    <3> QED
      BY <1>1, <3>1
  <2> QED
    BY <1>0, <1>1, <2>1, <2>2 DEF Once
<1>8. \A v \in Task : Pending(v, handle)' => Pending(v, handle) /\ v # r.of
  BY <1>0, <1>1, <1>2 DEF Once, Pending
<1>9. ASSUME NEW v \in Task, Pending(v, handle)' PROVE Sent(v)' /\ \A u \in Task : answer'[u] # v
  <2>1. Pending(v, handle) /\ v # r.of
    BY <1>8, <1>9
  <2>2. Sent(v) /\ \A u \in Task : answer[u] # v
    BY <1>0, <2>1 DEF Said
  <2> QED
    BY <1>4, <2>1, <2>2 DEF TypeOK
<1> QED
  BY <1>5, <1>6, <1>7, <1>9 DEF Said

\* The project's worker answers its next request.
LEMMA SaidServes ==
  ASSUME TypeOK, Said, handle \in Worker, WorkerServes(handle)
  PROVE  Said'
<1> DEFINE s == toWorker[handle]
           a == fromWorker[handle]
           req == Head(s)
<1>0. /\ handle # None /\ Once(handle) /\ "junk" \notin Task
      /\ UNCHANGED <<pc, answer, handle>>
  BY NoneAssumption, TaskAssumption DEF Said, WorkerServes
<1>1. /\ s \in Seq(Request) /\ s # << >> /\ req = s[1] /\ toWorker'[handle] = Tail(s)
      /\ Len(Tail(s)) = Len(s) - 1 /\ Len(s) \in Nat \ {0}
      /\ \A i \in 1..Len(Tail(s)) : i + 1 \in 1..Len(s) /\ Tail(s)[i] = s[i + 1]
  BY DEF WorkerServes, TypeOK
<1>2. PICK l \in Lines(req) : fromWorker' = [fromWorker EXCEPT ![handle] = @ \o l]
  BY DEF WorkerServes
<1>3. req \in Task /\ req \in Request
  BY <1>0, <1>1 DEF Once, Request
<1>4. /\ l \in Seq(Response) /\ a \in Seq(Response) /\ fromWorker'[handle] = a \o l
      /\ Len(a \o l) = Len(a) + Len(l) /\ Len(a) \in Nat /\ Len(l) \in Nat
      /\ \A i \in 1..Len(a) : (a \o l)[i] = a[i]
      /\ \A i \in 1..Len(l) : (a \o l)[Len(a) + i] = l[i]
  BY <1>2, <1>3, LinesType DEF TypeOK
<1>5. \/ Len(l) = 1 /\ l[1].of = req
      \/ \A i \in 1..Len(l) : l[i].of = "junk"
  <2>1. CASE \E e \in BOOLEAN : l = <<[of |-> req, err |-> e]>>
    BY <2>1
  <2>2. CASE l \in {<<Junk>>, <<Junk, Junk>>}
    BY <2>2 DEF Junk
  <2> QED
    BY <1>2, <2>1, <2>2 DEF Lines
<1> HIDE DEF s, a, req
<1>6. \A i \in 1..Len(a \o l) :
        \/ i \in 1..Len(a) /\ (a \o l)[i] = a[i]
        \/ (a \o l)[i].of = "junk"
        \/ i = Len(a) + 1 /\ (a \o l)[i].of = req
  <2> SUFFICES ASSUME NEW i \in 1..Len(a \o l), i \notin 1..Len(a)
               PROVE  (a \o l)[i].of = "junk" \/ (i = Len(a) + 1 /\ (a \o l)[i].of = req)
    BY <1>4
  <2>1. i - Len(a) \in 1..Len(l) /\ (a \o l)[Len(a) + (i - Len(a))] = l[i - Len(a)]
    BY <1>4
  <2>2. (a \o l)[i] = l[i - Len(a)]
    BY <1>4, <2>1
  <2> QED
    BY <1>4, <1>5, <2>1, <2>2
<1>7. Once(handle)'
  <2>1. /\ \A i \in 1..Len(s) : s[i] \in Task
        /\ \A i, j \in 1..Len(s) : s[i] = s[j] => i = j
        /\ \A i \in 1..Len(a) : a[i].of \in Task \cup {"junk"}
        /\ \A i, j \in 1..Len(a) : a[i].of = a[j].of => i = j \/ a[i].of = "junk"
        /\ \A i \in 1..Len(s), j \in 1..Len(a) : s[i] # a[j].of
    BY <1>0 DEF Once, s, a
  <2>2. \A i \in 1..Len(Tail(s)) : Tail(s)[i] \in Task /\ Tail(s)[i] # req
    BY <1>1, <2>1
  <2>3. \A i, j \in 1..Len(Tail(s)) : Tail(s)[i] = Tail(s)[j] => i = j
    BY <1>1, <2>1
  <2>4. \A i \in 1..Len(a) : a[i].of # req
    BY <1>1, <2>1
  <2>5. \A i \in 1..Len(a \o l) : (a \o l)[i].of \in Task \cup {"junk"}
    BY <1>3, <1>6, <2>1
  <2>6. \A i, j \in 1..Len(a \o l) :
          (a \o l)[i].of = (a \o l)[j].of => i = j \/ (a \o l)[i].of = "junk"
    BY <1>6, <2>1, <2>4
  <2>7. \A i \in 1..Len(Tail(s)), j \in 1..Len(a \o l) : Tail(s)[i] # (a \o l)[j].of
    BY <1>0, <1>1, <1>6, <2>1, <2>2
  <2> QED
    BY <1>0, <1>1, <1>4, <2>2, <2>3, <2>5, <2>6, <2>7 DEF Once
<1>8. \A v \in Task : Pending(v, handle)' => Pending(v, handle)
  <2> SUFFICES ASSUME NEW v \in Task, Pending(v, handle)' PROVE Pending(v, handle)
    OBVIOUS
  <2>1. CASE \E i \in 1..Len(Tail(s)) : Tail(s)[i] = v
    BY <1>1, <2>1 DEF Pending, s
  <2>2. CASE \E i \in 1..Len(a \o l) : (a \o l)[i].of = v
    <3>1. (\E i \in 1..Len(a) : a[i].of = v) \/ v = s[1]
      BY <1>0, <1>1, <1>6, <2>2
    <3> QED
      BY <1>1, <3>1 DEF Pending, s, a
  <2> QED
    BY <1>0, <1>1, <1>4, <2>1, <2>2 DEF Pending
<1> QED
  BY <1>0, <1>7, <1>8 DEF Said, Answers, Sent, is_done, AnswerUsedOnce

LEMMA SaidInit == Init => Said
BY TaskAssumption DEF Init, Said, Answers, AnswerUsedOnce

LEMMA SaidDrop ==
  ASSUME TypeOK, Said, DropHandle, UNCHANGED <<answer, pc>>
  PROVE  Said'
BY SaidQuiet DEF DropHandle, Sent, is_done

LEMMA SaidStep == TypeOK /\ Fresh /\ Own /\ Sockets /\ Said /\ [Next]_vars => Said'
<1> SUFFICES ASSUME TypeOK, Fresh, Own, Sockets, Said, [Next]_vars PROVE Said'
  OBVIOUS
<1>h. ASSUME NEW t \in Task, pc[t] \in Holding
      PROVE  /\ conn \in Worker /\ handle \in {None, conn}
             /\ pc[t] # "running" => handle = None
  BY <1>h DEF Own, OneConversation, Holding, TypeOK
<1>q. ASSUME UNCHANGED <<answer, handle, toWorker, fromWorker>>,
             \A u \in Task : pc'[u] = pc[u] \/ (~Sent(u) /\ pc[u] # "returned")
      PROVE  Said'
  BY <1>q, SaidQuiet DEF Sent, is_done
<1>1. ASSUME NEW t \in Task, Execute(t) PROVE Said'
  BY <1>1, <1>q DEF TypeOK, Fresh, Execute, workerVars, procVars, Sent, is_done, Ended
<1>2. ASSUME NEW t \in Task, LoopStep(t) \/ SpawnStep(t) PROVE Said'
  <2>1. CASE Enqueue(t)
    BY <2>1, <1>q DEF TypeOK, Enqueue, workerVars, procVars, Sent, is_done, Ended
  <2>2. CASE UseWorker(t)
    <3>1. /\ handle \in Worker /\ ~Sent(t) /\ handle' = handle
          /\ toWorker' = [toWorker EXCEPT ![handle'] = Append(@, t)]
      BY <2>2 DEF UseWorker, CanLock, Waiting, Sent, is_done, Ended, TypeOK, Send
    <3> QED
      BY <2>2, <3>1, SaidSend DEF UseWorker
  <2>3. CASE StartWorker(t) \/ RefuseWorker(t)
    <3>1. /\ answer' = answer /\ handle' = None
          /\ \A u \in Task : pc'[u] = pc[u] \/ (~Sent(u) /\ pc[u] # "returned")
      BY <2>3 DEF StartWorker, RefuseWorker, CanLock, Waiting, Sent, is_done, Ended, TypeOK,
                  DropHandle, Return
    <3> QED
      BY <3>1, SaidQuiet DEF Sent, is_done
  <2>4. CASE Spawned(t) \/ Opened(t) \/ SpawnFails(t) \/ OpenFails(t)
    <3>1. pc[t] \in Holding /\ pc[t] # "running" /\ answer' = answer /\ handle' = handle
      BY <2>4 DEF Spawned, Opened, SpawnFails, OpenFails, Holding
    <3>2. \A u \in Task : pc'[u] = pc[u] \/ (~Sent(u) /\ pc[u] # "returned")
      BY <2>4 DEF Spawned, Opened, SpawnFails, OpenFails, Return, TypeOK, Sent, is_done, Ended
    <3> QED
      BY <1>h, <3>1, <3>2, SaidQuiet DEF Sent, is_done
  <2>5. CASE WorkerReady(t)
    <3>1. /\ pc[t] = "init" /\ handle' = conn /\ conn \in Worker /\ ~Sent(t)
          /\ toWorker[conn] = << >>
          /\ \E e \in BOOLEAN : fromWorker[conn] = <<[of |-> "save_init", err |-> e]>>
      BY <1>h, <2>5 DEF WorkerReady, Holding, Sent, is_done, Ended, Sockets, Asked, Receive
    <3>2. fromWorker'[conn] = << >> /\ toWorker' = [toWorker EXCEPT ![handle'] = Append(@, t)]
      BY <2>5, <3>1 DEF WorkerReady, Receive, Send, TypeOK
    <3> QED
      BY <2>5, <3>1, <3>2, SaidSend DEF WorkerReady
  <2>6. CASE Finish(t)
    <3>1. conn \in Worker /\ handle = conn
      BY <1>h, <2>6 DEF Finish, Holding, Receive, Sockets, Empty
    <3>2. PICK r \in Response : Receive(conn, r) /\ answer' = [answer EXCEPT ![t] = r.of]
      BY <2>6 DEF Finish
    <3>3. /\ pc[t] = "running" /\ pc' = [pc EXCEPT ![t] = "returned"]
          /\ handle' = handle /\ toWorker' = toWorker
      BY <2>6 DEF Finish, Return
    <3> QED
      BY <3>1, <3>2, <3>3, SaidReceive
  <2>7. CASE WorkerDead(t) \/ ConnectionReset(t)
    <3>1. /\ answer' = answer /\ handle' \in {None, handle}
          /\ handle' # None => toWorker' = toWorker /\ fromWorker' = fromWorker
          /\ pc' = [pc EXCEPT ![t] = "returned"]
      BY <2>7 DEF WorkerDead, ConnectionReset, Return, DropHandle, procVars
    <3> QED
      BY <3>1, SaidQuiet DEF TypeOK, Sent, is_done, Ended
  <2>8. CASE Cancelled(t)
    <3>1. /\ answer' = answer /\ handle' = handle
          /\ pc' = [pc EXCEPT ![t] = "raised"] /\ pc[t] # "returned"
      BY <2>8 DEF Cancelled, is_done, Ended
    <3>2. handle # None =>
            toWorker'[handle] = toWorker[handle] /\ fromWorker'[handle] = fromWorker[handle]
      <4>1. pc[t] \in {"spawning", "opening", "init"} => handle = None
        BY <1>h DEF Holding
      <4> QED
        BY <2>8, <4>1 DEF Cancelled, procVars
    <3> QED
      BY <3>1, <3>2, SaidQuiet DEF TypeOK, Sent, is_done, Ended
  <2> QED
    BY <1>2, <2>1, <2>2, <2>3, <2>4, <2>5, <2>6, <2>7, <2>8 DEF LoopStep, SpawnStep
<1>3. ASSUME NEW t \in Task, Resume(t) PROVE Said'
  <2>1. CASE Reply(t) \/ CallerRaises(t)
    BY <2>1, <1>q DEF Reply, CallerRaises, workerVars, procVars
  <2>2. CASE CloseReturns(t) \/ CloseTimedOut(t)
    BY <2>2, SaidDrop DEF CloseReturns, CloseTimedOut, force_close
  <2> QED
    BY <1>3, <2>1, <2>2 DEF Resume
<1>4. ASSUME NEW t \in Task, Expire(t) \/ Abort(t) \/ GetTaskResult(t) \/ CancelTask(t)
      PROVE  Said'
  BY <1>4, <1>q DEF Expire, TimeOut, CloseExpires, Abort, GetTaskResult, CancelTask,
                    workerVars, procVars
<1>5. ASSUME NEW t \in Task, DelayedKill(t) PROVE Said'
  BY <1>5, <1>q, SaidDrop DEF DelayedKill, procVars
<1>6. CASE ForceClose
  BY <1>6, SaidDrop DEF ForceClose, force_close
<1>7. ASSUME NEW w \in Worker, WorkerServes(w) \/ WorkerCrashes(w) PROVE Said'
  <2>1. CASE w = handle /\ WorkerServes(w)
    BY <2>1, SaidServes
  <2>2. CASE w # handle \/ WorkerCrashes(w)
    <3>1. /\ UNCHANGED <<pc, answer, handle>>
          /\ handle # None => /\ toWorker'[handle] \in {toWorker[handle], << >>}
                              /\ fromWorker'[handle] = fromWorker[handle]
      BY <1>7, <2>2 DEF WorkerServes, WorkerCrashes, TypeOK
    <3> QED
      BY <3>1, SaidQuiet DEF Sent, is_done
  <2> QED
    BY <1>7, <2>1, <2>2
<1>8. CASE UNCHANGED vars
  BY <1>8, <1>q DEF vars, workerVars, procVars
<1> QED
  BY <1>1, <1>2, <1>3, <1>4, <1>5, <1>6, <1>7, <1>8 DEF Next

LEMMA SocketsInit == Init => Sockets
BY DEF Init, Sockets, Empty

\* No response of a worker is given to two tasks, whatever is cancelled, killed or
\* restarted between the request and the response (Project._exec_one,
\* WorkerHandle.execute: the id of a response is not looked at).
THEOREM ResponsesUsedOnce == Spec => []AnswerUsedOnce
<1>1. Said => AnswerUsedOnce
  BY DEF Said
<1> QED
  BY <1>1, SaidInit, SaidStep, SocketsInit, SocketsStep, FreshInit, FreshStep, OwnInit, OwnStep,
     TypeCorrect, PTL DEF Spec

\* A task that runs in the project's worker is only cancelled if its caller gave up.
GivenUp ==
  \A t \in Task : pc[t] = "running" /\ handle # None =>
    /\ status[t] = "running"
    /\ must[t] => t \in Save \cup Close /\ caller[t] \in {"gone", "expired"}

Excused == \E u \in Task : Abandoned(u) \/ answer[u] = "junk"

\* Unless there is an excuse, whoever runs has the worker for itself, and who ends
\* leaves nothing behind.
OwnAnswers == \A t \in Task : answer[t] \in {"none", t}
ForItself ==
  \A t \in Task : pc[t] = "running" /\ handle # None =>
    \/ Asked(handle, t)
    \/ toWorker[handle] = << >> /\ fromWorker[handle] \in {<<Junk>>, <<Junk, Junk>>}
LeftClean ==
  (\A t \in Task : pc[t] \notin Holding) /\ handle # None =>
    fromWorker[handle] = << >> /\ (handle \in alive => toWorker[handle] = << >>)

Pure == Excused \/ (OwnAnswers /\ ForItself /\ LeftClean)

LEMMA PureInit == Init => GivenUp /\ Pure
BY DEF Init, GivenUp, Pure, OwnAnswers, ForItself, LeftClean

\* A step that changes neither who runs nor the caller of one who does.
LEMMA GivenUpQuiet ==
  ASSUME GivenUp, handle' \in {None, handle},
         \A u \in Task : pc'[u] = "running" /\ handle' # None =>
           /\ pc[u] = "running" /\ status'[u] = status[u]
           /\ caller'[u] = caller[u] \/ caller'[u] \in {"gone", "expired"}
           /\ must'[u] => must[u] \/ (u \in Save \cup Close /\ caller'[u] \in {"gone", "expired"})
  PROVE  GivenUp'
BY DEF GivenUp

LEMMA GivenUpStep == TypeOK /\ Fresh /\ Own /\ GivenUp /\ [Next]_vars => GivenUp'
<1> SUFFICES ASSUME TypeOK, Fresh, Own, GivenUp, [Next]_vars PROVE GivenUp'
  OBVIOUS
<1>1. ASSUME NEW t \in Task, Execute(t) PROVE GivenUp'
  BY <1>1, GivenUpQuiet DEF TypeOK, Fresh, Execute, workerVars
<1>2. ASSUME NEW t \in Task, LoopStep(t) \/ SpawnStep(t) PROVE GivenUp'
  <2>1. CASE UseWorker(t) \/ WorkerReady(t)
    <3>1. /\ \A u \in Task \ {t} : pc'[u] # "running"
          /\ status'[t] = "running" /\ ~must'[t]
      BY <2>1 DEF UseWorker, WorkerReady, CanLock, Holding, Own, OneConversation, TypeOK
    <3> QED
      BY <3>1 DEF GivenUp
  <2>2. CASE \/ Enqueue(t) \/ StartWorker(t) \/ RefuseWorker(t) \/ Spawned(t) \/ SpawnFails(t)
             \/ Opened(t) \/ OpenFails(t)
    <3>1. /\ \A u \in Task \ {t} : pc'[u] = pc[u] /\ status'[u] = status[u]
          /\ pc'[t] # "running" /\ UNCHANGED <<caller, must>> /\ handle' \in {None, handle}
      BY <2>2 DEF Enqueue, StartWorker, RefuseWorker, Spawned, SpawnFails, Opened, OpenFails,
                  Return, DropHandle, workerVars, TypeOK
    <3> QED
      BY <3>1, GivenUpQuiet
  <2>3. CASE Finish(t) \/ WorkerDead(t) \/ ConnectionReset(t)
    <3>1. /\ \A u \in Task \ {t} : pc'[u] = pc[u] /\ status'[u] = status[u]
          /\ pc'[t] # "running" /\ UNCHANGED <<caller, must>> /\ handle' \in {None, handle}
      BY <2>3 DEF Finish, WorkerDead, ConnectionReset, Return, DropHandle, TypeOK
    <3> QED
      BY <3>1, GivenUpQuiet
  <2>4. CASE Cancelled(t)
    <3>1. /\ \A u \in Task \ {t} : /\ pc'[u] = pc[u] /\ status'[u] = status[u]
                                   /\ must'[u] = must[u]
          /\ pc'[t] # "running" /\ UNCHANGED <<caller, handle>>
      BY <2>4 DEF Cancelled, TypeOK
    <3> QED
      BY <3>1, GivenUpQuiet
  <2> QED
    BY <1>2, <2>1, <2>2, <2>3, <2>4 DEF LoopStep, SpawnStep
<1>3. ASSUME NEW t \in Task, Resume(t) PROVE GivenUp'
  <2>1. CASE Reply(t) \/ CallerRaises(t)
    <3>1. /\ UNCHANGED <<pc, status, must, handle>> /\ pc[t] # "running"
          /\ \A u \in Task \ {t} : caller'[u] = caller[u]
      BY <2>1 DEF Reply, CallerRaises, workerVars, TypeOK
    <3> QED
      BY <3>1, GivenUpQuiet
  <2>2. CASE CloseReturns(t) \/ CloseTimedOut(t)
    BY <2>2, GivenUpQuiet DEF CloseReturns, CloseTimedOut, force_close, DropHandle
  <2> QED
    BY <1>3, <2>1, <2>2 DEF Resume
<1>4. ASSUME NEW t \in Task, Expire(t) \/ Abort(t) PROVE GivenUp'
  <2>1. /\ UNCHANGED <<pc, status, handle>> /\ caller[t] = "waiting"
        /\ \A u \in Task \ {t} : caller'[u] = caller[u] /\ must'[u] = must[u]
        /\ must'[t] # must[t] => t \in Save \cup Close /\ caller'[t] \in {"gone", "expired"}
    BY <1>4 DEF Expire, TimeOut, CloseExpires, Abort, workerVars, TypeOK, Task
  <2> QED
    BY <2>1 DEF GivenUp
<1>5. ASSUME NEW t \in Task, GetTaskResult(t) PROVE GivenUp'
  <2>1. /\ UNCHANGED <<pc, status, must, handle>> /\ caller[t] = "pending"
        /\ \A u \in Task \ {t} : caller'[u] = caller[u]
    BY <1>5 DEF GetTaskResult, workerVars, TypeOK
  <2> QED
    BY <2>1 DEF GivenUp
<1>6. ASSUME NEW t \in Task, CancelTask(t) PROVE GivenUp'
  <2>1. /\ UNCHANGED <<caller, pc, handle>>
        /\ \A u \in Task \ {t} : status'[u] = status[u] /\ must'[u] = must[u]
        /\ status[t] = "running" /\ handle # None => status'[t] = status[t] /\ must'[t] = must[t]
    BY <1>6 DEF CancelTask, workerVars, TypeOK
  <2> QED
    BY <2>1 DEF GivenUp
<1>7. ASSUME NEW t \in Task, DelayedKill(t) PROVE GivenUp'
  BY <1>7, GivenUpQuiet DEF DelayedKill, DropHandle
<1>8. CASE ForceClose
  BY <1>8, GivenUpQuiet DEF ForceClose, force_close, DropHandle
<1>9. ASSUME NEW w \in Worker, WorkerServes(w) \/ WorkerCrashes(w) PROVE GivenUp'
  BY <1>9, GivenUpQuiet DEF WorkerServes, WorkerCrashes
<1>10. CASE UNCHANGED vars
  BY <1>10, GivenUpQuiet DEF vars, workerVars
<1> QED
  BY <1>1, <1>2, <1>3, <1>4, <1>5, <1>6, <1>7, <1>8, <1>9, <1>10 DEF Next

\* What ended stays ended, and who gave up does not come back.
LEMMA ExcusedStays == TypeOK /\ Fresh /\ Said /\ Excused /\ [Next]_vars => Excused'
<1> SUFFICES ASSUME TypeOK, Fresh, Said, [Next]_vars,
                     NEW v \in Task, Abandoned(v) \/ answer[v] = "junk"
             PROVE  Abandoned(v)' \/ answer'[v] = "junk"
  BY DEF Excused
<1> DEFINE Stays == /\ pc'[v] = pc[v] /\ answer'[v] = answer[v]
                    /\ caller[v] \in {"gone", "expired", "replied"} =>
                         caller'[v] \in {"gone", "expired", "replied"}
<1>e. pc[v] \in Ended
  BY DEF Said, Answers, Abandoned, Ended
<1>1. ASSUME NEW t \in Task, Execute(t) \/ Resume(t) PROVE Stays
  BY <1>1, <1>e DEF Execute, Resume, Reply, CallerRaises, CloseReturns, CloseTimedOut, force_close,
                    TypeOK, Fresh, Ended
<1>2. ASSUME NEW t \in Task, LoopStep(t) \/ SpawnStep(t) PROVE Stays
  <2>1. CASE Enqueue(t) \/ UseWorker(t) \/ StartWorker(t) \/ RefuseWorker(t)
    BY <2>1, <1>e DEF Enqueue, UseWorker, StartWorker, RefuseWorker, Return,
                  CanLock, Waiting, Ended, TypeOK
  <2>2. CASE Spawned(t) \/ SpawnFails(t) \/ Opened(t) \/ OpenFails(t) \/ WorkerReady(t)
    BY <2>2, <1>e DEF Spawned, SpawnFails, Opened, OpenFails, WorkerReady, Return, Ended, TypeOK
  <2>3. CASE Finish(t) \/ WorkerDead(t) \/ ConnectionReset(t)
    BY <2>3, <1>e DEF Finish, WorkerDead, ConnectionReset, Return, Ended, TypeOK
  <2>4. CASE Cancelled(t)
    BY <2>4, <1>e DEF Cancelled, is_done, TypeOK
  <2> QED
    BY <1>2, <2>1, <2>2, <2>3, <2>4 DEF LoopStep, SpawnStep
<1>3. ASSUME NEW t \in Task, Expire(t) \/ Abort(t) \/ GetTaskResult(t) \/ CancelTask(t) PROVE Stays
  BY <1>3 DEF Expire, TimeOut, CloseExpires, Abort, GetTaskResult, CancelTask, TypeOK
<1>4. ASSUME NEW t \in Task, DelayedKill(t) PROVE Stays
  BY <1>4 DEF DelayedKill
<1>5. ASSUME ForceClose PROVE Stays
  BY <1>5 DEF ForceClose
<1>6. ASSUME NEW w \in Worker, WorkerServes(w) \/ WorkerCrashes(w) PROVE Stays
  BY <1>6 DEF WorkerServes, WorkerCrashes
<1>7. ASSUME UNCHANGED vars PROVE Stays
  BY <1>7 DEF vars
<1> QED
  BY <1>1, <1>2, <1>3, <1>4, <1>5, <1>6, <1>7 DEF Next, Abandoned

LEMMA PureQuiet ==
  ASSUME OwnAnswers, ForItself, LeftClean, answer' = answer, handle' \in {None, handle},
         handle' # None =>
           /\ UNCHANGED <<toWorker, fromWorker, alive>>
           /\ \A u \in Task : pc'[u] = "running" => pc[u] = "running"
           /\ (\A u \in Task : pc'[u] \notin Holding) => (\A u \in Task : pc[u] \notin Holding)
  PROVE  Pure'
<1>1. OwnAnswers'
  BY DEF OwnAnswers
<1>2. ForItself' /\ LeftClean'
  BY DEF ForItself, LeftClean, Asked
<1> QED
  BY <1>1, <1>2 DEF Pure

LEMMA PureStep ==
  TypeOK /\ Fresh /\ Own /\ Sockets /\ Said /\ GivenUp /\ Pure /\ [Next]_vars => Pure'
<1> SUFFICES ASSUME TypeOK, Fresh, Own, Sockets, Said, GivenUp, ~Excused, Pure, [Next]_vars
             PROVE  Pure'
  BY ExcusedStays DEF Pure
<1>p. OwnAnswers /\ ForItself /\ LeftClean
  BY DEF Pure
<1>h. ASSUME NEW t \in Task, pc[t] \in Holding
      PROVE  /\ conn \in Worker /\ handle \in {None, conn}
             /\ pc[t] # "running" => handle = None
             /\ \A u \in Task \ {t} : pc[u] \notin Holding
  BY <1>h DEF Own, OneConversation, Holding, TypeOK
<1>q. ASSUME UNCHANGED <<pc, answer, handle, alive, toWorker, fromWorker>> PROVE Pure'
  BY <1>p, <1>q, PureQuiet
<1>d. ASSUME DropHandle, UNCHANGED <<pc, answer>> PROVE Pure'
  BY <1>p, <1>d, PureQuiet DEF DropHandle
<1>1. ASSUME NEW t \in Task, Execute(t) PROVE Pure'
  BY <1>1, <1>p, PureQuiet DEF TypeOK, Fresh, Execute, workerVars, procVars, Holding
<1>2. ASSUME NEW t \in Task, LoopStep(t) \/ SpawnStep(t) PROVE Pure'
  <2>1. CASE Enqueue(t)
    BY <2>1, <1>p, PureQuiet DEF TypeOK, Enqueue, workerVars, procVars, Holding
  <2>2. CASE UseWorker(t)
    <3>1. /\ handle \in Worker /\ toWorker[handle] = << >> /\ fromWorker[handle] = << >>
          /\ \A u \in Task : pc[u] \notin Holding
      BY <2>2, <1>p, NoneAssumption DEF UseWorker, CanLock, LeftClean, TypeOK
    <3>2. /\ handle' = handle /\ toWorker'[handle] = <<t>> /\ fromWorker'[handle] = << >>
          /\ pc'[t] = "running" /\ \A u \in Task \ {t} : pc'[u] # "running"
          /\ answer' = answer
      BY <2>2, <3>1 DEF UseWorker, Send, TypeOK, Holding
    <3> QED
      BY <1>p, <3>2 DEF Pure, OwnAnswers, ForItself, LeftClean, Asked, Holding
  <2>3. CASE StartWorker(t) \/ RefuseWorker(t) \/ WorkerDead(t)
    BY <2>3, <1>p, PureQuiet DEF StartWorker, RefuseWorker, WorkerDead, DropHandle
  <2>4. CASE Spawned(t) \/ SpawnFails(t) \/ Opened(t) \/ OpenFails(t)
    <3>1. answer' = answer /\ handle' = handle /\ pc[t] \in Holding /\ pc[t] # "running"
      BY <2>4 DEF Spawned, SpawnFails, Opened, OpenFails, Holding
    <3> QED
      BY <1>h, <1>p, <3>1, PureQuiet
  <2>5. CASE WorkerReady(t)
    <3>1. /\ pc[t] = "init" /\ conn \in Worker /\ toWorker[conn] = << >>
          /\ \E e \in BOOLEAN : fromWorker[conn] = <<[of |-> "save_init", err |-> e]>>
      BY <1>h, <2>5 DEF WorkerReady, Holding, Sockets, Asked, Receive
    <3>2. /\ handle' = conn /\ toWorker'[conn] = <<t>> /\ fromWorker'[conn] = << >>
          /\ answer' = answer
      BY <2>5, <3>1 DEF WorkerReady, Receive, Send, TypeOK
    <3>3. pc'[t] = "running" /\ \A u \in Task \ {t} : pc'[u] # "running"
      BY <1>h, <2>5, <3>1 DEF WorkerReady, Holding, TypeOK
    <3> QED
      BY <1>p, <3>2, <3>3 DEF Pure, OwnAnswers, ForItself, LeftClean, Asked, Holding
  <2>6. CASE Finish(t)
    <3>1. conn \in Worker /\ handle = conn /\ handle # None
      BY <1>h, <2>6, NoneAssumption DEF Finish, Holding, Receive, Sockets, Empty
    <3>2. PICK r \in Response : Receive(conn, r) /\ answer' = [answer EXCEPT ![t] = r.of]
      BY <2>6 DEF Finish
    <3>3. /\ pc[t] = "running" /\ handle' = handle /\ toWorker' = toWorker
          /\ \A u \in Task : pc'[u] \notin Holding
      BY <1>h, <2>6 DEF Finish, Return, TypeOK, Holding
    <3>4. CASE Asked(handle, t)
      <4>1. /\ toWorker[handle] = << >>
            /\ \E e \in BOOLEAN : fromWorker[handle] = <<[of |-> t, err |-> e]>>
        BY <3>1, <3>2, <3>4 DEF Asked, Receive
      <4>2. r.of = t /\ fromWorker'[handle] = << >>
        BY <3>1, <3>2, <4>1 DEF Receive, TypeOK
      <4>3. OwnAnswers'
        BY <1>p, <3>2, <4>2 DEF OwnAnswers, TypeOK
      <4> QED
        BY <3>3, <4>1, <4>2, <4>3 DEF Pure, ForItself, LeftClean, Holding
    <3>5. CASE fromWorker[handle] \in {<<Junk>>, <<Junk, Junk>>}
      <4>1. r.of = "junk"
        BY <3>1, <3>2, <3>5 DEF Receive, Junk
      <4>2. answer'[t] = "junk"
        BY <3>2, <4>1 DEF TypeOK
      <4> QED
        BY <4>2 DEF Pure, Excused
    <3> QED
      BY <1>p, <3>1, <3>3, <3>4, <3>5 DEF ForItself
  <2>7. CASE ConnectionReset(t)
    <3>1. /\ fromWorker[handle] = << >> /\ handle \notin alive
          /\ UNCHANGED <<answer, handle, alive, fromWorker>>
          /\ pc[t] = "running" /\ \A u \in Task : pc'[u] \notin Holding
      BY <1>h, <2>7 DEF ConnectionReset, AtEOF, Return, procVars, TypeOK, Holding
    <3> QED
      BY <1>p, <3>1 DEF Pure, OwnAnswers, ForItself, LeftClean, Holding
  <2>8. CASE Cancelled(t)
    <3>1. /\ answer' = answer /\ handle' = handle /\ caller' = caller /\ must[t]
          /\ pc'[t] = "raised" /\ \A u \in Task \ {t} : pc'[u] = pc[u]
      BY <2>8 DEF Cancelled, TypeOK
    <3>2. CASE pc[t] = "running" /\ handle # None
      <4>1. Abandoned(t)'
        BY <3>1, <3>2 DEF GivenUp, Abandoned
      <4> QED
        BY <4>1 DEF Pure, Excused
    <3>3. CASE handle = None
      BY <1>p, <3>1, <3>3, PureQuiet
    <3>4. CASE pc[t] \notin Holding
      BY <1>p, <2>8, <3>1, <3>4, PureQuiet DEF Cancelled, procVars, Holding
    <3> QED
      BY <1>h, <3>2, <3>3, <3>4
  <2> QED
    BY <1>2, <2>1, <2>2, <2>3, <2>4, <2>5, <2>6, <2>7, <2>8 DEF LoopStep, SpawnStep
<1>3. ASSUME NEW t \in Task, Resume(t) PROVE Pure'
  <2>1. CASE Reply(t) \/ CallerRaises(t)
    BY <2>1, <1>q DEF Reply, CallerRaises, workerVars, procVars
  <2>2. CASE CloseReturns(t) \/ CloseTimedOut(t)
    BY <2>2, <1>d DEF CloseReturns, CloseTimedOut, force_close
  <2> QED
    BY <1>3, <2>1, <2>2 DEF Resume
<1>4. ASSUME NEW t \in Task, Expire(t) \/ Abort(t) \/ GetTaskResult(t) \/ CancelTask(t)
      PROVE  Pure'
  BY <1>4, <1>q DEF Expire, TimeOut, CloseExpires, Abort, GetTaskResult, CancelTask,
                    workerVars, procVars
<1>5. ASSUME NEW t \in Task, DelayedKill(t) PROVE Pure'
  BY <1>5, <1>q, <1>d DEF DelayedKill, procVars
<1>6. CASE ForceClose
  BY <1>6, <1>d DEF ForceClose, force_close
<1>7. ASSUME NEW w \in Worker, WorkerServes(w) PROVE Pure'
  <2>1. CASE w # handle
    <3>1. /\ UNCHANGED <<pc, answer, handle, alive>>
          /\ toWorker'[handle] = toWorker[handle] /\ fromWorker'[handle] = fromWorker[handle]
      BY <1>7, <2>1 DEF WorkerServes, TypeOK
    <3> QED
      BY <1>p, <3>1 DEF Pure, OwnAnswers, ForItself, LeftClean, Asked
  <2>2. CASE w = handle
    <3>1. /\ handle \in Worker /\ handle # None /\ handle \in alive /\ toWorker[handle] # << >>
          /\ UNCHANGED <<pc, answer, handle, alive>>
      BY <1>7, <2>2, NoneAssumption DEF WorkerServes
    <3>2. PICK t \in Task : pc[t] = "running"
      BY <1>h, <1>p, <3>1 DEF LeftClean
    <3>3. toWorker[handle] = <<t>> /\ fromWorker[handle] = << >>
      BY <1>p, <3>1, <3>2 DEF ForItself, Asked
    <3>4. PICK l \in Lines(t) : fromWorker' = [fromWorker EXCEPT ![w] = @ \o l]
      <4>1. Head(toWorker[w]) = t
        BY <2>2, <3>3
      <4> QED
        BY <1>7, <4>1 DEF WorkerServes
    <3>5. l \in {<<Junk>>, <<Junk, Junk>>} \/ \E e \in BOOLEAN : l = <<[of |-> t, err |-> e]>>
      BY <3>4 DEF Lines
    <3>6. l \in Seq(Response)
      BY <3>4, LinesType DEF Request
    <3>7. fromWorker'[handle] = l
      BY <2>2, <3>1, <3>3, <3>4, <3>6 DEF TypeOK
    <3>8. toWorker'[handle] = << >>
      BY <1>7, <2>2, <3>1, <3>3 DEF WorkerServes, TypeOK
    <3>9. ForItself'
      <4>1. \A u \in Task : pc[u] = "running" => u = t
        BY <3>2 DEF Own, OneConversation, Holding
      <4> QED
        BY <3>1, <3>5, <3>7, <3>8, <4>1 DEF ForItself, Asked
    <3>10. OwnAnswers' /\ LeftClean'
      BY <1>p, <3>1, <3>2 DEF OwnAnswers, LeftClean, Holding
    <3> QED
      BY <3>9, <3>10 DEF Pure
  <2> QED
    BY <2>1, <2>2
<1>8. ASSUME NEW w \in Worker, WorkerCrashes(w) PROVE Pure'
  <2>1. /\ UNCHANGED <<pc, answer, handle, fromWorker>> /\ alive' \subseteq alive
        /\ \A v \in Worker : toWorker'[v] \in {toWorker[v], << >>}
    BY <1>8 DEF WorkerCrashes, TypeOK
  <2>2. ForItself' /\ LeftClean'
    BY <1>p, <2>1 DEF ForItself, LeftClean, Asked, TypeOK
  <2> QED
    BY <1>p, <2>1, <2>2 DEF Pure, OwnAnswers
<1>9. CASE UNCHANGED vars
  BY <1>9, <1>q DEF vars, workerVars, procVars
<1> QED
  BY <1>1, <1>2, <1>3, <1>4, <1>5, <1>6, <1>7, <1>8, <1>9 DEF Next

\* A task is only given another one's response after an unshielded wait was given up
\* or a line was too long: not by cancel_task, which signals a running task instead of
\* cancelling its read, nor by the watchdog, a force-close or a crash.
THEOREM OwnResponses == Spec => []OwnAnswerUnlessAbandoned
<1>1. Pure => OwnAnswerUnlessAbandoned
  BY TaskAssumption DEF Pure, Excused, OwnAnswers, OwnAnswerUnlessAbandoned
<1> QED
  BY <1>1, PureInit, PureStep, GivenUpStep, SaidInit, SaidStep, SocketsInit, SocketsStep,
     FreshInit, FreshStep, OwnInit, OwnStep, TypeCorrect, PTL DEF Spec
=============================================================================
