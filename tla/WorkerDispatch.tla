---------------------------- MODULE WorkerDispatch ----------------------------
(***************************************************************************)
(* The worker process from the inside: the message loop of worker/main.py, *)
(* dispatch() with its sys.setprofile hook, the cancel flag, and           *)
(* execute_python's capture of stdout, against SIGUSR1 arriving anywhere.  *)
(*                                                                         *)
(* The interpreter runs a signal's handler between two bytecodes; calling  *)
(* it fires the profile hook, so a handler that runs while the hook is set *)
(* raises CancelledError on the spot.  Raising unsets the hook.  Each pc   *)
(* below is a stretch of code where such an exception has the same effect: *)
(*   entry    before cancel.reset()       ok      Response.ok, in the try  *)
(*   setup    before sys.setprofile       except  an except clause         *)
(*   body     the handler                 caught  except CancelledError    *)
(*   script   execute_python's exec       finally before setprofile(None)  *)
(*   cleanup  execute_python's finally    send    before io.send           *)
(*   reset    before the last reset                                        *)
(* A SIGKILL, which ends the worker anywhere, is in ProjectExec.  Scripts  *)
(* do not touch sys.stdout or the hook themselves.                         *)
(***************************************************************************)
EXTENDS Naturals, Sequences, FiniteSets

CONSTANTS
  Python,    \* execute_python requests: these capture stdout
  Tool,      \* requests for other handlers
  Unknown,   \* requests for a method without a handler
  Ping, Shutdown,
  Stubborn,  \* those whose code may sit in a call into C, where no signal handler
             \* runs, or catch the BaseException that a cancellation is
  None,      \* no request
  MaxSent    \* bound on the requests sent

Request == Python \cup Tool \cup Unknown \cup Ping \cup Shutdown

ASSUME NoneAssumption == None \notin Request
ASSUME KindAssumption ==
  /\ Python \cap (Tool \cup Unknown \cup Ping \cup Shutdown) = {}
  /\ Tool \cap (Unknown \cup Ping \cup Shutdown) = {}
  /\ Unknown \cap (Ping \cup Shutdown) = {} /\ Ping \cap Shutdown = {}
ASSUME StubbornAssumption == Stubborn \subseteq Python \cup Tool

VARIABLES
  sent,       \* the requests the server has sent
  waiting,    \* the one it awaits the answer of
  abandoned,  \* history: those it stopped waiting for
  aimed,      \* history: those it sent SIGUSR1 for
  hungup,     \* its end of the socket is closed
  inbox,      \* the socket: requests,
  outbox,     \* and answers
  pc, cur,    \* where the worker is, with which request
  verdict,    \* how that request ends
  flag,       \* cancel._cancel_requested
  pend,       \* SIGUSR1 has arrived and its handler has not run (they merge)
  profiled,   \* the profile hook is set
  stdout,     \* sys.stdout: the buffer of an execute_python, or None: the process's
  old,        \* old_stdout, which the execute_python that runs found
  cancelled   \* history: the requests answered CANCELLED

serverVars == <<sent, waiting, abandoned, aimed, hungup>>
outVars == <<stdout, old>>
dispatchVars == <<pc, cur, verdict, flag, profiled, outVars, cancelled>>
vars == <<serverVars, inbox, outbox, pend, dispatchVars>>

PC      == {"recv", "entry", "setup", "body", "script", "cleanup", "ok", "except", "caught",
            "finally", "reset", "send", "closing", "exited", "dead"}
Verdict == {"none", "ok", "fail", "cancelled",
            "escapes"}   \* an exception that dispatch does not catch
alive   == pc \notin {"exited", "dead"}

Init ==
  /\ sent = {} /\ waiting = None /\ abandoned = {} /\ aimed = {} /\ hungup = FALSE
  /\ inbox = << >> /\ outbox = << >>
  /\ pc = "recv" /\ cur = None /\ verdict = "none"
  /\ flag = FALSE /\ pend = FALSE /\ profiled = FALSE
  /\ stdout = None /\ old = None /\ cancelled = {}

-----------------------------------------------------------------------------
(* The server, as Project uses a worker. *)

\* WorkerHandle.execute sends a request, under _exec_lock.
SendRequest(r) ==
  /\ alive /\ ~hungup /\ waiting = None /\ r \notin sent /\ Cardinality(sent) < MaxSent
  /\ sent'    = sent \cup {r}
  /\ inbox'   = Append(inbox, r)
  /\ waiting' = r
  /\ UNCHANGED <<abandoned, aimed, hungup, outbox, pend, dispatchVars>>

\* It takes the next line for the answer.
ReadAnswer ==
  /\ ~hungup /\ waiting # None /\ outbox # << >>
  /\ outbox'  = Tail(outbox)
  /\ waiting' = None
  /\ UNCHANGED <<sent, abandoned, aimed, hungup, inbox, pend, dispatchVars>>

\* The coroutine is cancelled while it awaits the line.
Abandon ==
  /\ ~hungup /\ waiting # None
  /\ abandoned' = abandoned \cup {waiting}
  /\ waiting'   = None
  /\ UNCHANGED <<sent, aimed, hungup, inbox, outbox, pend, dispatchVars>>

\* Project.cancel_task signals the worker for its running command.
Cancel ==
  /\ alive /\ ~hungup /\ waiting \in Python \cup Tool \cup Unknown /\ waiting \notin aimed
  /\ aimed' = aimed \cup {waiting}
  /\ pend'  = TRUE
  /\ UNCHANGED <<sent, waiting, abandoned, hungup, inbox, outbox, dispatchVars>>

\* The server's process ends, with whatever is under way.
HangUp ==
  /\ ~hungup
  /\ hungup' = TRUE
  /\ UNCHANGED <<sent, waiting, abandoned, aimed, inbox, outbox, pend, dispatchVars>>

-----------------------------------------------------------------------------
(* The message loop. *)

\* A request is read.  A signal that came before it is handled first.
Recv ==
  /\ pc = "recv" /\ ~pend /\ inbox # << >> /\ Head(inbox) \notin Ping \cup Shutdown
  /\ inbox' = Tail(inbox)
  /\ cur'   = Head(inbox)
  /\ pc'    = "entry"
  /\ UNCHANGED <<serverVars, outbox, pend, verdict, flag, profiled, outVars, cancelled>>

\* Faulty variant: a Ping goes on into dispatch.
RecvLifecycle_FallsThrough ==
  /\ pc = "recv" /\ ~pend /\ inbox # << >> /\ Head(inbox) \in Ping \cup Shutdown
  /\ inbox'  = Tail(inbox)
  /\ outbox' = Append(outbox, [of |-> Head(inbox), verdict |-> "ok"])
  /\ pc'     = IF Head(inbox) \in Ping THEN "entry" ELSE "closing"
  /\ cur'    = IF Head(inbox) \in Ping THEN Head(inbox) ELSE cur
  /\ UNCHANGED <<serverVars, pend, verdict, flag, profiled, outVars, cancelled>>

\* Ping and Shutdown are answered by the loop itself; nothing catches the failure
\* of a send to a server that is gone.
RecvLifecycle ==
  /\ pc = "recv" /\ ~pend /\ inbox # << >> /\ Head(inbox) \in Ping \cup Shutdown
  /\ inbox' = Tail(inbox)
  /\ IF hungup
     THEN pc' = "dead" /\ cur' = Head(inbox) /\ UNCHANGED outbox
     ELSE /\ outbox' = Append(outbox, [of |-> Head(inbox), verdict |-> "ok"])
          /\ pc' = IF Head(inbox) \in Ping THEN "recv" ELSE "closing"
          /\ UNCHANGED cur
  /\ UNCHANGED <<serverVars, pend, verdict, flag, profiled, outVars, cancelled>>

\* recv() returns None or raises: the server has closed its end.
EndOfFile ==
  /\ pc = "recv" /\ hungup /\ inbox = << >>
  /\ pc' = "closing"
  /\ UNCHANGED <<serverVars, inbox, outbox, pend, cur, verdict, flag, profiled, outVars,
                 cancelled>>

\* idapro.close_database(save=True), and the process ends.
CloseDatabase ==
  /\ pc = "closing"
  /\ pc' = "exited"
  /\ UNCHANGED <<serverVars, inbox, outbox, pend, cur, verdict, flag, profiled, outVars,
                 cancelled>>

\* What a handler made goes into its answer, and orjson may refuse it (_result is
\* whatever the script left there).
HandlersOwn == cur \in Python \cup Tool /\ verdict \in {"ok", "fail"}

\* The response goes out.
SendAnswer ==
  /\ pc = "send" /\ ~hungup
  /\ outbox'  = Append(outbox, [of |-> cur, verdict |-> verdict])
  /\ pc'      = "recv"
  /\ cur'     = None
  /\ verdict' = "none"
  /\ cancelled' = IF verdict = "cancelled" THEN cancelled \cup {cur} ELSE cancelled
  /\ UNCHANGED <<serverVars, inbox, pend, flag, profiled, outVars>>

\* io.send raises, outside any try: the process ends with its database open.
SendFails ==
  /\ pc = "send" /\ (hungup \/ HandlersOwn)
  /\ pc' = "dead"
  /\ UNCHANGED <<serverVars, inbox, outbox, pend, cur, verdict, flag, profiled, outVars,
                 cancelled>>

-----------------------------------------------------------------------------
(* dispatch(). *)

\* Steps of dispatch touch neither the socket nor the signal.
Inside == UNCHANGED <<serverVars, inbox, outbox, pend, cur, cancelled>>

\* Faulty variant: the flag is only cleared on the way out.
Entry_NoReset ==
  /\ pc = "entry"
  /\ pc'      = IF cur \in Unknown THEN "send" ELSE "setup"
  /\ verdict' = IF cur \in Unknown THEN "fail" ELSE verdict
  /\ Inside /\ UNCHANGED <<flag, profiled, outVars>>

\* cancel.reset(); a method without a handler is answered at once.
Entry ==
  /\ pc = "entry"
  /\ flag'    = FALSE
  /\ pc'      = IF cur \in Unknown THEN "send" ELSE "setup"
  /\ verdict' = IF cur \in Unknown THEN "fail" ELSE verdict
  /\ Inside /\ UNCHANGED <<profiled, outVars>>

\* The undo point, the hook, and the call of the handler: with the flag set since
\* the reset, that call is the first event the hook sees.
Begin ==
  /\ pc = "setup"
  /\ profiled' = ~flag
  /\ pc'       = IF flag THEN "caught" ELSE "body"
  /\ Inside /\ UNCHANGED <<verdict, flag, outVars>>

\* Faulty variant: dispatch has no clause for the errors of a handler.
BodyEnds_Uncaught ==
  /\ pc = "body"
  /\ \/ cur \in Tool /\ verdict' = "ok" /\ pc' = "ok"
     \/ verdict' = "escapes" /\ pc' = "finally"
  /\ Inside /\ UNCHANGED <<flag, profiled, outVars>>

\* A handler returns, or fails; execute_python fails before its script if there is
\* no code.
BodyEnds ==
  /\ pc = "body"
  /\ \/ cur \in Tool /\ verdict' = "ok" /\ pc' = "ok"
     \/ verdict' = "fail" /\ pc' = "except"
  /\ Inside /\ UNCHANGED <<flag, profiled, outVars>>

\* Faulty variant: sys.stdout is remembered when it has been replaced.
Capture_TooLate ==
  /\ pc = "body" /\ cur \in Python
  /\ stdout' = cur /\ old' = stdout'
  /\ pc' = "script"
  /\ Inside /\ UNCHANGED <<verdict, flag, profiled>>

\* execute_python replaces sys.stdout, and runs the code.
Capture ==
  /\ pc = "body" /\ cur \in Python
  /\ old' = stdout /\ stdout' = cur
  /\ pc' = "script"
  /\ Inside /\ UNCHANGED <<verdict, flag, profiled>>

\* The code ends.  Its Exceptions become a result, the SystemExit of a sys.exit()
\* does not.
ScriptEnds ==
  /\ pc = "script"
  /\ \E v \in {"ok", "escapes"} : verdict' = v
  /\ pc' = "cleanup"
  /\ Inside /\ UNCHANGED <<flag, profiled, outVars>>

\* execute_python's finally: sys.stdout is what it was before.
Cleanup ==
  /\ pc = "cleanup"
  /\ stdout' = old /\ old' = None
  /\ pc' = CASE verdict = "ok" -> "ok"
             [] verdict = "cancelled" -> "caught"
             [] OTHER -> "finally"
  /\ Inside /\ UNCHANGED <<verdict, flag, profiled>>

\* Response.ok, or the Response.fail of one of the except clauses.
Respond ==
  /\ pc \in {"ok", "except", "caught"}
  /\ verdict' = CASE pc = "ok" -> "ok" [] pc = "except" -> "fail" [] OTHER -> "cancelled"
  /\ pc' = "finally"
  /\ Inside /\ UNCHANGED <<flag, profiled, outVars>>

\* sys.setprofile(None) ...
Finally ==
  /\ pc = "finally"
  /\ profiled' = FALSE
  /\ pc' = "reset"
  /\ Inside /\ UNCHANGED <<verdict, flag, outVars>>

\* ... and cancel.reset().  What dispatch does not catch ends the process: the
\* loop has no try around it, so the database is not closed.
Reset ==
  /\ pc = "reset"
  /\ flag' = FALSE
  /\ pc'   = IF verdict = "escapes" THEN "dead" ELSE "send"
  /\ Inside /\ UNCHANGED <<verdict, profiled, outVars>>

-----------------------------------------------------------------------------
(* The signal. *)

\* CancelledError comes out of the stretch the worker is in.
Raised ==
  \/ /\ pc = "body"
     /\ verdict' = "cancelled" /\ pc' = "caught"
     /\ UNCHANGED outVars
  \/ /\ pc = "script"
     /\ verdict' = "cancelled" /\ pc' = "cleanup"
     /\ UNCHANGED outVars
  \/ \* the code catches it (a bare except, a callback from C) and goes on
     /\ pc \in {"body", "script"} /\ cur \in Stubborn
     /\ UNCHANGED <<verdict, pc, outVars>>
  \/ \* the restoring of stdout is cut short, or was about to be over
     /\ pc = "cleanup"
     /\ verdict' = "cancelled" /\ pc' = "caught"
     /\ stdout' \in {stdout, old} /\ old' = None
  \/ /\ pc = "ok"
     /\ pc' = "caught"
     /\ UNCHANGED <<verdict, outVars>>
  \/ \* no clause catches what an except clause raises
     /\ pc = "except"
     /\ verdict' = "escapes" /\ pc' = "finally"
     /\ UNCHANGED outVars
  \/ /\ pc = "finally"
     /\ verdict' = "escapes" /\ pc' = "dead"
     /\ UNCHANGED outVars

\* Faulty variant: the handler does not set the flag, so the hook does not raise.
HandleSignal_NoFlag ==
  /\ pend /\ alive
  /\ pend' = FALSE
  /\ UNCHANGED <<serverVars, inbox, outbox, dispatchVars>>

\* The handler calls cancel.request(); if the hook is set, that call's return
\* raises, and the hook is gone.
HandleSignal ==
  /\ pend /\ alive
  /\ pend' = FALSE
  /\ flag' = TRUE
  /\ profiled' = FALSE
  /\ IF profiled THEN Raised ELSE UNCHANGED <<pc, verdict, outVars>>
  /\ UNCHANGED <<serverVars, inbox, outbox, cur, cancelled>>

-----------------------------------------------------------------------------
Loop     == Recv \/ RecvLifecycle \/ CloseDatabase \/ SendAnswer \/ SendFails
Dispatch == Entry \/ Begin \/ Cleanup \/ Respond \/ Finally \/ Reset
Handler  == BodyEnds \/ Capture \/ ScriptEnds

Next ==
  \/ \E r \in Request : SendRequest(r)
  \/ ReadAnswer \/ Abandon \/ Cancel \/ HangUp
  \/ Loop \/ EndOfFile \/ Dispatch \/ Handler \/ HandleSignal

\* Where the interpreter is sure to come to its next bytecode.
Interruptible == ~(pc \in {"body", "script"} /\ cur \in Stubborn)

\* The interpreter goes on in the loop and in dispatch; a handler may run for ever.
\* Signals are handled between bytecodes, if there is a next one.
Spec ==
  /\ Init /\ [][Next]_vars
  /\ WF_vars(Loop) /\ WF_vars(Dispatch) /\ WF_vars(Interruptible /\ HandleSignal)

-----------------------------------------------------------------------------
(* Properties. *)

\* Every variable has its type.
TypeOK ==
  /\ sent \in SUBSET Request /\ abandoned \in SUBSET Request /\ aimed \in SUBSET Request
  /\ waiting \in Request \cup {None} /\ cur \in Request \cup {None}
  /\ inbox \in Seq(Request) /\ outbox \in Seq([of : Request, verdict : Verdict])
  /\ pc \in PC /\ verdict \in Verdict
  /\ hungup \in BOOLEAN /\ flag \in BOOLEAN /\ pend \in BOOLEAN /\ profiled \in BOOLEAN
  /\ stdout \in Python \cup {None} /\ old \in Python \cup {None}
  /\ cancelled \in SUBSET Request

\* A request is answered CANCELLED only if the client asked for it: a signal that
\* comes too late for its request never hits the next one.  (Once the server has
\* stopped waiting for a request it takes answers for those of later ones, and
\* may aim at another request than the one being served.)
OnlyWantedCancelled ==
  \A i \in 1..Len(outbox) :
    outbox[i].verdict = "cancelled" => outbox[i].of \in aimed \/ abandoned # {}

\* Between two requests the hook is unset, and stdout is the process's own, or the
\* buffer of a script that was answered CANCELLED: one whose cancellation struck the
\* restoration.  Scripts that run later put back what they found, that buffer too.
CleanBetweenCommands ==
  /\ pc \in {"recv", "send", "closing"} => ~profiled
  /\ pc = "recv" => stdout \in cancelled \cup {None}

\* The process ends without closing its database only if the server is gone, if an
\* answer that a handler made cannot be encoded, if a script exits, or if a
\* cancellation strikes where nothing catches it, and then it was the one meant for
\* this request (or the server has lost count, having stopped waiting for another).
DeathsHaveACause ==
  pc = "dead" =>
    \/ hungup
    \/ HandlersOwn
    \/ verdict = "escapes" /\ (cur \in Python \cup aimed \/ abandoned # {})

\* Seen from the socket, the worker is WorkerPort.
Port == INSTANCE WorkerPort WITH
  queue   <- IF cur = None THEN inbox ELSE <<cur>> \o inbox,
  answers <- [i \in 1..Len(outbox) |-> outbox[i].of],
  up      <- alive
PortSpec == Port!Spec

\* A signal that is there once dispatch has reset the flag ends the command, however
\* long its handler would have run, unless that handler catches BaseException or
\* stays in C.
CancelStopsCommand ==
  \A r \in (Python \cup Tool) \ Stubborn :
    pend /\ cur = r /\ pc # "entry" ~> cur # r \/ pc = "dead"

\* What the README says of a cancellation, and the code does not do: it is
\* graceful, no cancelled command takes the worker with it.
CancelIsGraceful == pc = "dead" /\ verdict = "escapes" => cur \in Python

\* What one would expect, and the code does not do: a signal for the request that is
\* being read ends it (it may be handled before the reset, and then it is forgotten).
CancelIsNeverForgotten ==
  \A r \in (Python \cup Tool) \ Stubborn : r \in aimed ~> cur # r \/ pc = "dead"

\* Another: between two requests stdout is always the process's own.
StdoutComesBack == pc = "recv" => stdout = None
=============================================================================
