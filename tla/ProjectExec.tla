---------------------------- MODULE ProjectExec ----------------------------
(***************************************************************************)
(* One Project and its workers: ramune_ida/project.py with the             *)
(* WorkerHandle it owns and the session tools that drive it.               *)
(*                                                                         *)
(* The server is a single asyncio event loop, so a handler runs without    *)
(* interruption from one await to the next: each action below is one such  *)
(* step.  What interleaves is the order of the steps of different tasks,   *)
(* of the callers awaiting them, of the watchdogs, and of the workers,     *)
(* which are processes of their own.                                       *)
(*                                                                         *)
(* A task's coroutine (_exec_one) goes through                             *)
(*   new -> queued -> spawning -> opening -> init -> running               *)
(* and ends "returned" (normally) or "raised" (CancelledError).  It holds  *)
(* _exec_lock from spawning, or from running, to its end.                  *)
(***************************************************************************)
EXTENDS Naturals, Sequences

CONSTANTS
  Tool,     \* commands of execute(cmd, timeout): shielded from their caller
  Save,     \* saves of the auto-save loop, which awaits execute() itself
  Close,    \* commands of close_database: wait_for(execute(CloseDatabase()), 30)
  Worker,   \* identities of worker processes; one is reused once it is free
  None,     \* no worker
  Env       \* what the environment may do, a subset of EnvEvents

EnvEvents == {"crash",    \* a worker process dies by itself
              "junk",     \* a response line is longer than the reader's limit
              "cancel",   \* the client calls cancel_task
              "force",    \* the client calls close_database(force=True)
              "expire",   \* close_database's 30 s run out
              "abort"}    \* the asyncio task of a caller is cancelled

Task == Tool \cup Save \cup Close

ASSUME NoneAssumption == None \notin Worker
ASSUME EnvAssumption  == Env \subseteq EnvEvents
ASSUME TaskAssumption ==
  /\ Tool \cap Save = {} /\ Tool \cap Close = {} /\ Save \cap Close = {}
  /\ Task \cap {"open", "save_init", "junk", "none"} = {}

VARIABLES
  caller,   \* [Task]: what has become of the caller of execute()
  pc,       \* [Task]: where its coroutine is
  status,   \* [Task]: Task._status
  creq,     \* [Task]: Task._cancel_requested
  must,     \* [Task]: its coroutine was cancelled and has not yet noticed
  answer,   \* [Task]: history, whose response ended the task
  arrived,  \* all tasks in the order of their creation
  tasks,    \* Project._tasks
  watch,    \* the tasks with a _delayed_kill sleeping
  handle,   \* Project._handle
  conn,     \* the worker the lock holder is talking to
  slot,     \* this project is in Limiter._active
  alive,    \* the worker processes that are running
  closed,   \* the workers that have closed their database
  toWorker,   \* [Worker]: requests in the socket
  fromWorker  \* [Worker]: responses in the socket

procVars   == <<alive, closed, toWorker, fromWorker>>
workerVars == <<handle, conn, slot, procVars>>
vars == <<caller, pc, status, creq, must, answer, arrived, tasks, watch, workerVars>>

Caller   == {"idle", "waiting",
             "pending",   \* timed out and was given the task_id
             "expired",   \* close_database's wait_for is cancelling the task
             "replied",   \* got its answer, at once or by polling
             "lost",      \* polled and was told not_found
             "raised",    \* got the task's CancelledError
             "gone"}      \* was itself cancelled
Terminal == {"completed", "failed", "cancelled"}
Status   == {"pending", "running"} \cup Terminal
Waiting  == {"new", "queued"}
Holding  == {"spawning", "opening", "init", "running"}
Ended    == {"returned", "raised"}
PC       == {"idle"} \cup Waiting \cup Holding \cup Ended
Request  == Task \cup {"open", "save_init"}
Response == [of : Request \cup {"junk"}, err : BOOLEAN]

is_done(t) == pc[t] \in Ended

\* u was created before t.  asyncio starts coroutines in order of creation, and
\* asyncio.Lock wakes its waiters in order of arrival.
Before(u, t) ==
  \E i, j \in 1..Len(arrived) : i < j /\ arrived[i] = u /\ arrived[j] = t

\* Faulty variant: without _exec_lock.
CanLock_Unlocked(t) ==
  /\ pc[t] \in Waiting /\ ~must[t]
  /\ \A u \in Task : Before(u, t) => ~(pc[u] \in Waiting /\ ~must[u])

\* Faulty variant: a lock that wakes any of its waiters.
CanLock_Unordered(t) ==
  /\ pc[t] \in Waiting /\ ~must[t]
  /\ \A u \in Task : pc[u] \notin Holding

\* _exec_lock is free and t is the first to want it.  A waiter that has been
\* cancelled does not hold up those behind it.
CanLock(t) ==
  /\ pc[t] \in Waiting /\ ~must[t]
  /\ \A u \in Task : pc[u] \notin Holding
  /\ \A u \in Task : Before(u, t) => ~(pc[u] \in Waiting /\ ~must[u])

Init ==
  /\ caller = [t \in Task |-> "idle"]
  /\ pc     = [t \in Task |-> "idle"]
  /\ status = [t \in Task |-> "pending"]
  /\ creq   = [t \in Task |-> FALSE]
  /\ must   = [t \in Task |-> FALSE]
  /\ answer = [t \in Task |-> "none"]
  /\ arrived = << >>
  /\ tasks  = {}
  /\ watch  = {}
  /\ handle = None
  /\ conn   = None
  /\ slot   = FALSE
  /\ alive  = {}
  /\ closed = {}
  /\ toWorker   = [w \in Worker |-> << >>]
  /\ fromWorker = [w \in Worker |-> << >>]

-----------------------------------------------------------------------------
(* Parts of steps. *)

\* WorkerHandle.kill on worker w, or on nothing: the process is gone and the
\* socket closed.  (A line the StreamReader had buffered can still be read after
\* it, which has the effect of reading it before the kill.)
Kill(w) ==
  /\ alive'  = alive \ {w}
  /\ closed' = closed \ {w}
  /\ toWorker'   = [v \in Worker |-> IF v = w THEN << >> ELSE toWorker[v]]
  /\ fromWorker' = [v \in Worker |-> IF v = w THEN << >> ELSE fromWorker[v]]

\* kill(); self._handle = None; limiter.on_destroyed(): wherever the project
\* drops its worker these three go together, if there is one.
DropHandle ==
  /\ Kill(handle)
  /\ handle' = None
  /\ slot'   = (slot /\ handle = None)

\* WorkerHandle._send
Send(w, req) == toWorker' = [toWorker EXCEPT ![w] = Append(@, req)]

\* Faulty variant: the line stays in the buffer.
Receive_Peeks(w, r) ==
  /\ fromWorker[w] # << >> /\ r = Head(fromWorker[w])
  /\ UNCHANGED fromWorker

\* The next line from worker w, for a coroutine awaiting it.
Receive(w, r) ==
  /\ fromWorker[w] # << >> /\ r = Head(fromWorker[w])
  /\ fromWorker' = [fromWorker EXCEPT ![w] = Tail(@)]

\* The coroutine of t runs to its end, which releases the lock.
Return(t, s) ==
  /\ pc'     = [pc EXCEPT ![t] = "returned"]
  /\ status' = [status EXCEPT ![t] = s]

-----------------------------------------------------------------------------
(* Callers. *)

\* execute() up to its first await.  The auto-save loop and close_database look
\* for a worker first, and the loop awaits each save before the next.
Execute(t) ==
  /\ caller[t] = "idle"
  /\ t \in Save \cup Close => handle # None
  /\ t \in Save => \A u \in Save : caller[u] \in {"idle", "replied"}
  /\ caller'  = [caller EXCEPT ![t] = "waiting"]
  /\ pc'      = [pc EXCEPT ![t] = "new"]
  /\ arrived' = Append(arrived, t)
  /\ tasks'   = tasks \cup {t}
  /\ UNCHANGED <<status, creq, must, answer, watch, workerVars>>

\* execute() resumes with the task done: the task leaves _tasks.
Reply(t) ==
  /\ t \in Tool \cup Save /\ caller[t] = "waiting" /\ pc[t] = "returned"
  /\ caller' = [caller EXCEPT ![t] = "replied"]
  /\ tasks'  = tasks \ {t}
  /\ UNCHANGED <<pc, status, creq, must, answer, arrived, watch, workerVars>>

\* The task's coroutine ended with CancelledError, which execute() passes on
\* to its caller; the task stays in _tasks.  close_database catches Exception
\* only, so it neither kills the worker nor answers.
CallerRaises(t) ==
  /\ caller[t] = "waiting" /\ pc[t] = "raised"
  /\ caller' = [caller EXCEPT ![t] = "raised"]
  /\ UNCHANGED <<pc, status, creq, must, answer, arrived, tasks, watch, workerVars>>

\* The wait_for around shield(task._coro) runs out: the client gets the task_id.
TimeOut(t) ==
  /\ t \in Tool /\ caller[t] = "waiting" /\ ~is_done(t)
  /\ caller' = [caller EXCEPT ![t] = "pending"]
  /\ UNCHANGED <<pc, status, creq, must, answer, arrived, tasks, watch, workerVars>>

\* Faulty variant: hands out a task that is not done.
GetTaskResult_Early(t) ==
  /\ caller[t] = "pending"
  /\ \/ t \in tasks /\ caller' = [caller EXCEPT ![t] = "replied"]
     \/ t \notin tasks /\ caller' = [caller EXCEPT ![t] = "lost"]
  /\ tasks' = tasks \ {t}
  /\ UNCHANGED <<pc, status, creq, must, answer, arrived, watch, workerVars>>

\* The tool get_task_result, once it can tell: done, or not_found.
GetTaskResult(t) ==
  /\ caller[t] = "pending"
  /\ \/ t \in tasks /\ is_done(t) /\ caller' = [caller EXCEPT ![t] = "replied"]
     \/ t \notin tasks /\ caller' = [caller EXCEPT ![t] = "lost"]
  /\ tasks' = tasks \ {t}
  /\ UNCHANGED <<pc, status, creq, must, answer, arrived, watch, workerVars>>

\* Faulty variant: cancels the coroutine of a running task too.
CancelTask_StopsReading(t) ==
  /\ "cancel" \in Env
  /\ caller[t] = "pending" /\ t \in tasks /\ ~is_done(t)
  /\ status' = [status EXCEPT ![t] = "cancelled"]
  /\ must'   = [must EXCEPT ![t] = TRUE]
  /\ UNCHANGED <<caller, pc, creq, answer, arrived, tasks, watch, workerVars>>

\* cancel_task on a task whose id the client was given.  A running task is
\* signalled and watched; any other one has its coroutine cancelled.
CancelTask(t) ==
  /\ "cancel" \in Env
  /\ caller[t] = "pending" /\ t \in tasks /\ ~is_done(t)
  /\ IF status[t] = "running" /\ handle # None
     THEN /\ creq'  = [creq EXCEPT ![t] = TRUE]
          /\ watch' = watch \cup {t}
          /\ UNCHANGED <<status, must>>
     ELSE /\ status' = [status EXCEPT ![t] = "cancelled"]
          /\ must'   = [must EXCEPT ![t] = TRUE]
          /\ UNCHANGED <<creq, watch>>
  /\ UNCHANGED <<caller, pc, answer, arrived, tasks, workerVars>>

\* Project.force_close
force_close ==
  LET ended == {t \in tasks : ~is_done(t)} IN
  /\ DropHandle
  /\ status' = [t \in Task |-> IF t \in ended THEN "cancelled" ELSE status[t]]
  /\ must'   = [t \in Task |-> must[t] \/ t \in ended]
  /\ tasks'  = {}

\* close_database(force=True)
ForceClose ==
  /\ "force" \in Env /\ handle # None
  /\ force_close
  /\ UNCHANGED <<caller, pc, creq, answer, arrived, watch, conn>>

\* close_database resumes with its CloseDatabase task done, and kills the worker
\* that the project has by now.
CloseReturns(t) ==
  /\ t \in Close /\ caller[t] = "waiting" /\ pc[t] = "returned"
  /\ DropHandle
  /\ caller' = [caller EXCEPT ![t] = "replied"]
  /\ tasks'  = tasks \ {t}
  /\ UNCHANGED <<pc, status, creq, must, answer, arrived, watch, conn>>

\* close_database's wait_for runs out: it cancels execute(), hence the task...
CloseExpires(t) ==
  /\ "expire" \in Env
  /\ t \in Close /\ caller[t] = "waiting" /\ ~is_done(t)
  /\ caller' = [caller EXCEPT ![t] = "expired"]
  /\ must'   = [must EXCEPT ![t] = TRUE]
  /\ UNCHANGED <<pc, status, creq, answer, arrived, tasks, watch, workerVars>>

\* ... and raises TimeoutError once the task has ended: force_close.
CloseTimedOut(t) ==
  /\ caller[t] = "expired" /\ pc[t] = "raised"
  /\ force_close
  /\ caller' = [caller EXCEPT ![t] = "replied"]
  /\ UNCHANGED <<pc, creq, answer, arrived, watch, conn>>

\* The asyncio task of a waiting caller is cancelled: the request was cancelled,
\* or the auto-save loop by shutdown().  Only the tool's wait is shielded.
Abort(t) ==
  /\ "abort" \in Env /\ caller[t] = "waiting"
  /\ caller' = [caller EXCEPT ![t] = "gone"]
  /\ must'   = [must EXCEPT ![t] = @ \/ (t \notin Tool /\ ~is_done(t))]
  /\ UNCHANGED <<pc, status, creq, answer, arrived, tasks, watch, workerVars>>

\* Faulty variant: the watchdog only logs.
DelayedKill_OnlyLogs(t) ==
  /\ t \in watch
  /\ watch' = watch \ {t}
  /\ UNCHANGED <<caller, pc, status, creq, must, answer, arrived, tasks, workerVars>>

\* _delayed_kill wakes up after its grace period.
DelayedKill(t) ==
  /\ t \in watch
  /\ watch' = watch \ {t}
  /\ IF is_done(t) THEN UNCHANGED <<handle, slot, procVars>> ELSE DropHandle
  /\ UNCHANGED <<caller, pc, status, creq, must, answer, arrived, tasks, conn>>

-----------------------------------------------------------------------------
(* The coroutine _exec_one. *)

\* It starts, in order of creation, and finds the lock taken.
Enqueue(t) ==
  /\ pc[t] = "new" /\ ~must[t] /\ ~CanLock(t)
  /\ \A u \in Task : Before(u, t) => pc[u] # "new"
  /\ pc' = [pc EXCEPT ![t] = "queued"]
  /\ UNCHANGED <<caller, status, creq, must, answer, arrived, tasks, watch, workerVars>>

\* _ensure_worker finds the worker alive; the command is sent.
UseWorker(t) ==
  /\ CanLock(t) /\ handle \in alive
  /\ pc'     = [pc EXCEPT ![t] = "running"]
  /\ status' = [status EXCEPT ![t] = "running"]
  /\ conn'   = handle
  /\ Send(handle, t)
  /\ UNCHANGED <<caller, creq, must, answer, arrived, tasks, watch,
                 handle, slot, alive, closed, fromWorker>>

\* _ensure_worker finds no worker, or a dead one that it clears away, and
\* starts a process.
StartWorker(t) ==
  /\ CanLock(t) /\ handle \notin alive
  /\ \E w \in Worker \ (alive \cup {handle}) : conn' = w /\ alive' = alive \cup {w}
  /\ handle' = None
  /\ slot'   = (slot /\ handle = None)
  /\ closed' = closed \ {handle}
  /\ toWorker'   = [v \in Worker |-> IF v = handle THEN << >> ELSE toWorker[v]]
  /\ fromWorker' = [v \in Worker |-> IF v = handle THEN << >> ELSE fromWorker[v]]
  /\ pc'     = [pc EXCEPT ![t] = "spawning"]
  /\ UNCHANGED <<caller, status, creq, must, answer, arrived, tasks, watch>>

\* No database path, or no instance left in the Limiter: RuntimeError.
RefuseWorker(t) ==
  /\ CanLock(t) /\ handle \notin alive
  /\ DropHandle
  /\ Return(t, "failed")
  /\ UNCHANGED <<caller, creq, must, answer, arrived, tasks, watch, conn>>

\* Faulty variant: on_spawned is forgotten.
Spawned_Uncounted(t) ==
  /\ pc[t] = "spawning" /\ ~must[t] /\ conn \in alive
  /\ pc' = [pc EXCEPT ![t] = "opening"]
  /\ Send(conn, "open")
  /\ UNCHANGED <<caller, status, creq, must, answer, arrived, tasks, watch,
                 handle, conn, slot, alive, closed, fromWorker>>

\* spawn() returns: the instance is counted and the database is opened.
Spawned(t) ==
  /\ pc[t] = "spawning" /\ ~must[t] /\ conn \in alive
  /\ pc'   = [pc EXCEPT ![t] = "opening"]
  /\ slot' = TRUE
  /\ Send(conn, "open")
  /\ UNCHANGED <<caller, status, creq, must, answer, arrived, tasks, watch,
                 handle, conn, alive, closed, fromWorker>>

\* spawn() raises: it has killed the process, which was not counted yet.
SpawnFails(t) ==
  /\ pc[t] = "spawning" /\ ~must[t]
  /\ Kill(conn)
  /\ conn' = None
  /\ Return(t, "failed")
  /\ UNCHANGED <<caller, creq, must, answer, arrived, tasks, watch, handle, slot>>

\* The database is open; the worker is told to save it.
Opened(t) ==
  /\ pc[t] = "opening" /\ ~must[t]
  /\ \E r \in Response : Receive(conn, r) /\ ~r.err
  /\ pc' = [pc EXCEPT ![t] = "init"]
  /\ Send(conn, "save_init")
  /\ UNCHANGED <<caller, status, creq, must, answer, arrived, tasks, watch,
                 handle, conn, slot, alive, closed>>

\* The worker's end of the socket is closed and all it wrote was read.
AtEOF(w) == w \notin alive /\ fromWorker[w] = << >>

\* Faulty variant: on_destroyed is forgotten.
OpenFails_StaysCounted(t) ==
  /\ ~must[t]
  /\ \/ pc[t] = "opening" /\ fromWorker[conn] # << >> /\ Head(fromWorker[conn]).err
     \/ pc[t] \in {"opening", "init"} /\ AtEOF(conn)
  /\ Kill(conn)
  /\ conn' = None
  /\ Return(t, "failed")
  /\ UNCHANGED <<caller, creq, must, answer, arrived, tasks, watch, handle, slot>>

\* The open request is answered with an error, or the worker dies during it or
\* the first save: kill, on_destroyed, and the task fails.
OpenFails(t) ==
  /\ ~must[t]
  /\ \/ pc[t] = "opening" /\ fromWorker[conn] # << >> /\ Head(fromWorker[conn]).err
     \/ pc[t] \in {"opening", "init"} /\ AtEOF(conn)
  /\ Kill(conn)
  /\ conn' = None
  /\ slot' = FALSE
  /\ Return(t, "failed")
  /\ UNCHANGED <<caller, creq, must, answer, arrived, tasks, watch, handle>>

\* The first save is answered, well or not: the worker becomes the project's,
\* and the command is sent.
WorkerReady(t) ==
  /\ pc[t] = "init" /\ ~must[t]
  /\ \E r \in Response : Receive(conn, r)
  /\ handle' = conn
  /\ pc'     = [pc EXCEPT ![t] = "running"]
  /\ status' = [status EXCEPT ![t] = "running"]
  /\ Send(conn, t)
  /\ UNCHANGED <<caller, creq, must, answer, arrived, tasks, watch,
                 conn, slot, alive, closed>>

\* Faulty variant: _cancel_requested is not looked at.
Finish_IgnoresCancel(t) ==
  /\ pc[t] = "running" /\ ~must[t]
  /\ \E r \in Response :
       /\ Receive(conn, r)
       /\ answer' = [answer EXCEPT ![t] = r.of]
       /\ Return(t, IF r.of = "junk" \/ r.err THEN "failed" ELSE "completed")
  /\ conn' = None
  /\ UNCHANGED <<caller, creq, must, arrived, tasks, watch,
                 handle, slot, alive, closed, toWorker>>

\* A line arrives for the running task.  Its id is not looked at.
Finish(t) ==
  /\ pc[t] = "running" /\ ~must[t]
  /\ \E r \in Response :
       /\ Receive(conn, r)
       /\ answer' = [answer EXCEPT ![t] = r.of]
       /\ Return(t, IF r.of = "junk" THEN "failed"
                    ELSE IF status[t] = "cancelled" \/ creq[t] THEN "cancelled"
                    ELSE IF r.err THEN "failed" ELSE "completed")
  /\ conn' = None
  /\ UNCHANGED <<caller, creq, must, arrived, tasks, watch,
                 handle, slot, alive, closed, toWorker>>

\* Faulty variant: expects the handle to be still there.
WorkerDead_OnlyCurrent(t) ==
  /\ pc[t] = "running" /\ ~must[t] /\ AtEOF(conn) /\ handle = conn
  /\ DropHandle
  /\ conn' = None
  /\ Return(t, IF creq[t] THEN "cancelled" ELSE "failed")
  /\ UNCHANGED <<caller, creq, must, answer, arrived, tasks, watch>>

\* WorkerDead: drop the handle; the task is cancelled if that was asked for.
WorkerDead(t) ==
  /\ pc[t] = "running" /\ ~must[t] /\ AtEOF(conn)
  /\ DropHandle
  /\ conn' = None
  /\ Return(t, IF creq[t] \/ status[t] = "cancelled" THEN "cancelled" ELSE "failed")
  /\ UNCHANGED <<caller, creq, must, answer, arrived, tasks, watch>>

\* ConnectionResetError, when the worker died with the request unread: the
\* task fails and the handle is left for the next _ensure_worker.
ConnectionReset(t) ==
  /\ pc[t] = "running" /\ ~must[t] /\ AtEOF(conn) /\ handle = conn
  /\ conn' = None
  /\ Return(t, "failed")
  /\ UNCHANGED <<caller, creq, must, answer, arrived, tasks, watch,
                 handle, slot, procVars>>

\* Faulty variant: it is caught where the answer is awaited, which goes on.
Cancelled_ReadsOn(t) ==
  /\ must[t] /\ ~is_done(t)
  /\ pc'     = [pc EXCEPT ![t] = IF @ = "running" THEN @ ELSE "raised"]
  /\ must'   = [must EXCEPT ![t] = FALSE]
  /\ status' = [status EXCEPT ![t] = IF pc[t] = "new" THEN @ ELSE "cancelled"]
  /\ IF pc[t] \in Holding \ {"running"}
     THEN Kill(conn) /\ conn' = None ELSE UNCHANGED <<procVars, conn>>
  /\ UNCHANGED <<caller, creq, answer, arrived, tasks, watch, handle, slot>>

\* CancelledError is thrown into the coroutine.  Before its first step it has
\* no handler.  In spawn() the process is killed; between on_spawned and
\* `self._handle = handle` it is not, because that handler is for Exception: the
\* WorkerHandle is forgotten, and its process and its count stay.
Cancelled(t) ==
  /\ must[t] /\ ~is_done(t)
  /\ pc'     = [pc EXCEPT ![t] = "raised"]
  /\ must'   = [must EXCEPT ![t] = FALSE]
  /\ status' = [status EXCEPT ![t] = IF pc[t] = "new" THEN @ ELSE "cancelled"]
  /\ conn'   = IF pc[t] \in Holding THEN None ELSE conn
  /\ \/ pc[t] = "spawning" /\ Kill(conn)
     \/ /\ pc[t] \in {"opening", "init"}
        /\ toWorker'   = [toWorker EXCEPT ![conn] = << >>]
        /\ fromWorker' = [fromWorker EXCEPT ![conn] = << >>]
        /\ UNCHANGED <<alive, closed>>
     \/ pc[t] \notin {"spawning", "opening", "init"} /\ UNCHANGED procVars
  /\ UNCHANGED <<caller, creq, answer, arrived, tasks, watch, handle, slot>>

-----------------------------------------------------------------------------
(* Worker processes: the loop of worker/main.py. *)

\* The lines that answering req may put into the socket.  A tool's answer may be
\* too long for the reader, which then raises, and may raise once more on the
\* rest of the line.
Junk == [of |-> "junk", err |-> TRUE]
Lines(req) ==
  {<<[of |-> req, err |-> e]>> : e \in BOOLEAN} \cup
  {s \in {<<Junk>>, <<Junk, Junk>>} : "junk" \in Env /\ req \in Tool}

\* The worker serves its next request and answers it.
WorkerServes(w) ==
  LET req == Head(toWorker[w]) IN
  /\ w \in alive /\ toWorker[w] # << >>
  /\ toWorker' = [toWorker EXCEPT ![w] = Tail(@)]
  /\ \E s \in Lines(req) : fromWorker' = [fromWorker EXCEPT ![w] = @ \o s]
  /\ closed' = IF req \in Close THEN closed \cup {w} ELSE closed
  /\ UNCHANGED <<caller, pc, status, creq, must, answer, arrived, tasks, watch,
                 handle, conn, slot, alive>>

\* The process dies; what it wrote before can still be read.
WorkerCrashes(w) ==
  /\ "crash" \in Env /\ w \in alive
  /\ alive'    = alive \ {w}
  /\ toWorker' = [toWorker EXCEPT ![w] = << >>]
  /\ UNCHANGED <<caller, pc, status, creq, must, answer, arrived, tasks, watch,
                 handle, conn, slot, closed, fromWorker>>

-----------------------------------------------------------------------------
\* A step of the coroutine of t that only the event loop has to take ...
LoopStep(t) ==
  \/ Enqueue(t) \/ UseWorker(t) \/ StartWorker(t) \/ RefuseWorker(t)
  \/ Opened(t) \/ OpenFails(t) \/ WorkerReady(t)
  \/ Finish(t) \/ WorkerDead(t) \/ ConnectionReset(t) \/ Cancelled(t)

\* ... and one that the start of a process decides.
SpawnStep(t) == Spawned(t) \/ SpawnFails(t)

\* A caller resumes because its task has ended, or because its time is over.
Resume(t) == Reply(t) \/ CallerRaises(t) \/ CloseReturns(t) \/ CloseTimedOut(t)
Expire(t) == TimeOut(t) \/ CloseExpires(t)

Next ==
  \/ \E t \in Task : Execute(t) \/ LoopStep(t) \/ SpawnStep(t)
  \/ \E t \in Task : Resume(t) \/ Expire(t) \/ Abort(t) \/ DelayedKill(t)
  \/ \E t \in Task : GetTaskResult(t) \/ CancelTask(t)
  \/ ForceClose
  \/ \E w \in Worker : WorkerServes(w) \/ WorkerCrashes(w)

Spec == Init /\ [][Next]_vars

\* The event loop runs what is ready, and its timers fire.  Nothing is assumed of
\* clients and of workers, which may hang.
LoopFairness ==
  \A t \in Task : /\ WF_vars(LoopStep(t)) /\ WF_vars(Resume(t))
                  /\ WF_vars(Expire(t)) /\ WF_vars(DelayedKill(t))
FairSpec == Spec /\ LoopFairness

\* A worker process comes up or fails to, and answers what it is asked.
WorkerFairness ==
  /\ \A t \in Task : WF_vars(SpawnStep(t))
  /\ \A w \in Worker : WF_vars(WorkerServes(w))

-----------------------------------------------------------------------------
(* Properties. *)

\* Every variable has its type.
TypeOK ==
  /\ caller \in [Task -> Caller]
  /\ pc     \in [Task -> PC]
  /\ status \in [Task -> Status]
  /\ creq   \in [Task -> BOOLEAN]
  /\ must   \in [Task -> BOOLEAN]
  /\ answer \in [Task -> Request \cup {"none", "junk"}]
  /\ arrived \in Seq(Task)
  /\ tasks  \in SUBSET Task
  /\ watch  \in SUBSET Task
  /\ handle \in Worker \cup {None}
  /\ conn   \in Worker \cup {None}
  /\ slot   \in BOOLEAN
  /\ alive  \in SUBSET Worker
  /\ closed \in SUBSET Worker
  /\ toWorker   \in [Worker -> Seq(Request)]
  /\ fromWorker \in [Worker -> Seq(Response)]

\* A project that has a worker, or is opening its database in one, is counted by
\* the Limiter.  Five places clear the count while others may be awaiting the
\* worker; none may do so for a worker that another one has made current since.
HandleIsCounted ==
  /\ handle # None => slot
  /\ \A t \in Task : pc[t] \in {"opening", "init"} => slot

\* At most one task is talking to a worker, and if the project has a worker,
\* that is the one, except that a task starting a worker has the project without
\* one: no two commands are ever sent side by side.
OneConversation ==
  /\ \A t, u \in Task : pc[t] \in Holding /\ pc[u] \in Holding => t = u
  /\ (\E t \in Task : pc[t] \in Holding) <=> conn # None
  /\ handle # None /\ conn # None => handle = conn
  /\ \A t \in Task : pc[t] \in {"spawning", "opening", "init"} => handle = None

\* Worker w belongs to the project or to the task that is starting it, and the
\* count of the Limiter stands for such a worker.
Owned(w)   == w = handle \/ w = conn
CountOwned == handle # None \/ \E t \in Task : pc[t] \in {"opening", "init"}

\* The project forgets a living worker, or the count of one, only where a
\* coroutine is cancelled between on_spawned and `self._handle = handle`: no
\* crash, timeout, force-close or watchdog loses one in any other way.
LostOnlyWhileOpening ==
  [][(\/ \E w \in alive \cap alive' : Owned(w) /\ ~Owned(w)'
      \/ CountOwned /\ slot' /\ ~CountOwned')
     => \E t \in Task : must[t] /\ pc[t] \in {"opening", "init"}]_vars

\* No response is given to two tasks.
AnswerUsedOnce ==
  \A t, u \in Task : t # u /\ answer[t] = answer[u] => answer[t] \in {"none", "junk"}

\* A task that stopped reading: its caller was cancelled or ran out of time.
Abandoned(t) ==
  t \in Save \cup Close /\ pc[t] = "raised" /\ caller[t] \in {"gone", "expired", "replied"}

\* A task is answered with another one's response only after an unshielded wait
\* was given up with the request sent, or a response line was too long; never
\* because of cancel_task, the watchdog, a force-close or a crash.
OwnAnswerUnlessAbandoned ==
  \A t \in Task :
    answer[t] \in Task \ {t} => \E u \in Task : Abandoned(u) \/ answer[u] = "junk"

\* A task the client asked to cancel while it ran is never reported completed,
\* even if the worker's answer was on its way.
CancelNeverCompletes == \A t \in Task : creq[t] => status[t] # "completed"

\* What execute() or get_task_result() answers is final: the task's status is a
\* terminal one, though force_close and the client may cancel it at any time.
\* (close_database answers "killed" whatever its task's status.)
AnswersAreFinal ==
  \A t \in Task \ Close : caller[t] = "replied" => status[t] \in Terminal

\* What a Project promises, in terms of its tasks: see TaskQueue.  A task whose
\* coroutine is being cancelled has ended for everyone but its own coroutine.
Stage(t) ==
  IF pc[t] = "idle" THEN "absent"
  ELSE IF must[t] \/ is_done(t) THEN "ended"
  ELSE IF pc[t] \in Holding THEN "serving" ELSE "waiting"
EndedAs(t) ==
  IF is_done(t) \/ must[t]
  THEN IF pc[t] = "returned" THEN status[t] ELSE "cancelled"
  ELSE "none"
Queue == INSTANCE TaskQueue WITH stage   <- [t \in Task |-> Stage(t)],
                                 outcome <- [t \in Task |-> EndedAs(t)]
QueueSpec == Queue!Spec

\* An accepted cancellation takes effect, even on a worker that hangs: the
\* coroutine is cancelled, or the watchdog kills the worker.
CancelTakesEffect == \A t \in Task : creq[t] \/ must[t] ~> is_done(t)

\* A client's call and close_database are answered, even if the worker hangs: a call
\* with its result, its task_id or an error, close_database with what it got or,
\* when its 30 s are over, after its task has ended and the worker was killed.
Answered(t) == caller[t] \in {"pending", "replied", "raised", "gone"}
CallersAnswered ==
  \A t \in Tool \cup Close : caller[t] \in {"waiting", "expired"} ~> Answered(t)

\* If workers answer, every task ends, whatever else is cancelled or crashes.
TasksEnd == WorkerFairness => \A t \in Task : pc[t] # "idle" ~> is_done(t)

\* What the code's comments say, and the code does not do.

\* "Each Project owns one WorkerHandle (1:1)": never two processes.
OneWorker == \A v, w \in alive : v = w

\* A request's id "pairs it with its response".
OwnAnswer == \A t \in Task : answer[t] \in {"none", "junk", t}

\* After CloseDatabase the worker exits on its own, and "the next execute() will
\* spawn a fresh worker": no command is sent to one that closed its database.
NothingAfterClose == \A w \in closed : toWorker[w] = << >>
=============================================================================
