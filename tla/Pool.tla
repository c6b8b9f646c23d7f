-------------------------------- MODULE Pool --------------------------------
(***************************************************************************)
(* The projects of a server: AppState (server/state.py) with the Limiter,  *)
(* open_project, close_project, the auto-save loop and shutdown().         *)
(*                                                                         *)
(* Each Project object runs its commands as ProjectExec describes in full. *)
(* Here it is taken in the stages that matter to the others: the commands  *)
(* in its hands in their order, how far the first one has got, and whether *)
(* it has a worker.  A cancelled coroutine is taken to unwind at once.     *)
(***************************************************************************)
EXTENDS Naturals, FiniteSets

CONSTANTS
  Id,         \* project ids
  Object,     \* Project objects; a closed project may be opened again as another
  None,
  HardLimit,  \* Limiter._hard_limit; 0 = unlimited
  Env         \* what may happen, a subset of EnvEvents

EnvEvents == {"crash",    \* a worker process dies by itself
              "cancel",   \* a client cancels a tool call (cancel_task)
              "leave",    \* a client calls close_database
             "force",    \* a client calls close_database(force=True)
              "save",     \* auto_save_interval > 0
              "shutdown"} \* the server is shut down

ASSUME IdAssumption    == None \notin Id /\ None \notin Object
ASSUME LimitAssumption == HardLimit \in Nat
ASSUME EnvAssumption   == Env \subseteq EnvEvents

VARIABLES
  projects,   \* AppState.projects
  obj,        \* [Object]: a Project and the coroutines in it
  active,     \* Limiter._active
  closing,    \* the object whose close_project holds _project_lock
  saver,      \* the auto-save loop
  saving,     \* the object whose save it awaits
  todo,       \* the ids it has still to visit
  server,     \* how far shutdown() has got
  ending,     \* [Object]: its _graceful_close
  raced       \* history: two workers were being started at the same time

vars == <<projects, obj, active, closing, saver, saving, todo, server, ending, raced>>

\* "work" stands for the calls of tools.
Cmd   == {"work",   \* a tool's command
          "leave",  \* CloseDatabase of close_database
          "save",   \* the auto-save loop's
          "close",  \* CloseDatabase of close_project
          "end",    \* CloseDatabase of shutdown()
          "stop"}   \* Shutdown of shutdown()
Awaited == Cmd \ {"work"}   \* those whose end matters here
Fate  == {"absent", "open", "closed",
          "orphaned"}  \* closed while some command was still in hand or to come
Phase == {"free", "spawning", "opening", "serving"}
Proj  == [id : Id \cup {None}, fate : Fate,
          hand : SUBSET Cmd,           \* the commands that have not ended
          ahead : [Cmd -> SUBSET Cmd], \* those of them that came before it
          phase : Phase,               \* how far the first of them has got
          handle : {"none", "live", "dead"},
          told : [Awaited -> {"no", "done", "raised"}],  \* how the task of it ended
          lost : BOOLEAN]  \* history: it forgot a living worker

Saver  == {"off", "sleep", "wait", "dead"}
Server == {"up", "stopping", "closing", "down"}
Ending == {"no", "end", "stop", "over"}

Registered(o) == obj[o].fate = "open"

\* c is the command that holds _exec_lock, or that will have it next.
First(o, c) == c \in obj[o].hand /\ obj[o].ahead[c] = {}

Absent == [id |-> None, fate |-> "absent", hand |-> {}, ahead |-> [c \in Cmd |-> {}],
           phase |-> "free", handle |-> "none", told |-> [c \in Awaited |-> "no"], lost |-> FALSE]

Init ==
  /\ projects = [i \in Id |-> None]
  /\ obj      = [o \in Object |-> Absent]
  /\ active   = {}
  /\ closing  = None
  /\ saver    = IF "save" \in Env THEN "sleep" ELSE "off"
  /\ saving   = None
  /\ todo     = {}
  /\ server   = "up"
  /\ ending   = [o \in Object |-> "no"]
  /\ raced    = FALSE

-----------------------------------------------------------------------------
(* Parts of steps: what they make of a Project p. *)

\* Project.execute: the command is queued.
Submit(p, c) == [p EXCEPT !.hand = @ \cup {c}, !.ahead[c] = p.hand]

\* The commands in C are out of the project's hands.
Without(p, C) ==
  [p EXCEPT !.hand  = @ \ C,
            !.ahead = [c \in Cmd |-> IF c \in C THEN {} ELSE p.ahead[c] \ C]]

\* The coroutine that awaits c resumes, and has been told how it ended.
Resume(p, c) == [p EXCEPT !.told[c] = "no"]

\* The command c ends, well or not, and gives back the lock.
End(p, c) == [Without(p, {c}) EXCEPT !.phase = "free", !.told[c] = "done"]

\* The commands in C are cancelled.  One that was starting a worker loses it if
\* it was counted already.
Cancel(p, C) ==
  LET first == \E c \in C \cap p.hand : p.ahead[c] = {}
  IN  [Without(p, C) EXCEPT
         !.phase = IF first THEN "free" ELSE @,
         !.told  = [c \in Awaited |-> IF c \in C \cap p.hand THEN "raised" ELSE p.told[c]],
         !.lost  = @ \/ (first /\ p.phase = "opening")]

\* The worker is killed and the handle cleared.
Drop(p) == [p EXCEPT !.handle = "none"]

\* Project.force_close
force_close(p) == Cancel(Drop(p), Cmd)

\* Faulty variant: a dead worker is thought to have been uncounted already.
Uncounted_LiveOnly(S) == active \ {obj[o].id : o \in {x \in S : obj[x].handle = "live"}}

\* on_destroyed for the projects in S that have a handle.
Uncounted(S) == active \ {obj[o].id : o \in {x \in S : obj[x].handle # "none"}}

\* Faulty variant: off by one.
can_spawn_OffByOne(counted) == HardLimit = 0 \/ Cardinality(counted) <= HardLimit

can_spawn(counted) == HardLimit = 0 \/ Cardinality(counted) < HardLimit

-----------------------------------------------------------------------------
(* Clients. *)

\* open_project of an id that is not open, or the recovery of its work_dir when
\* the server starts.
OpenProject(i) ==
  /\ server # "down" /\ closing = None /\ projects[i] = None
  /\ \E o \in Object :
       /\ obj[o].fate = "absent"
       /\ projects' = [projects EXCEPT ![i] = o]
       /\ obj'      = [obj EXCEPT ![o].id = i, ![o].fate = "open"]
  /\ UNCHANGED <<active, closing, saver, saving, todo, server, ending, raced>>

\* A tool calls execute().
Work(o) ==
  /\ server # "down" /\ Registered(o) /\ "work" \notin obj[o].hand
  /\ obj' = [obj EXCEPT ![o] = Submit(@, "work")]
  /\ UNCHANGED <<projects, active, closing, saver, saving, todo, server, ending, raced>>

\* Faulty variant: it cancels whatever the project has in hand.
CancelWork_All(o) ==
  /\ "cancel" \in Env /\ server # "down" /\ Registered(o) /\ "work" \in obj[o].hand
  /\ ~(obj[o].phase = "serving" /\ First(o, "work"))
  /\ obj' = [obj EXCEPT ![o] = Cancel(@, Cmd)]
  /\ UNCHANGED <<projects, active, closing, saver, saving, todo, server, ending, raced>>

\* cancel_task, when the command is not running.
CancelWork(o) ==
  /\ "cancel" \in Env /\ server # "down" /\ Registered(o) /\ "work" \in obj[o].hand
  /\ ~(obj[o].phase = "serving" /\ First(o, "work"))
  /\ obj' = [obj EXCEPT ![o] = Cancel(@, {"work"})]
  /\ UNCHANGED <<projects, active, closing, saver, saving, todo, server, ending, raced>>

\* cancel_task of the running command, whose worker does not react: the watchdog.
DelayedKill(o) ==
  /\ "cancel" \in Env /\ server # "down" /\ obj[o].handle # "none"
  /\ obj[o].phase = "serving" /\ First(o, "work")
  /\ obj'    = [obj EXCEPT ![o] = Drop(@)]
  /\ active' = Uncounted({o})
  /\ UNCHANGED <<projects, closing, saver, saving, todo, server, ending, raced>>

\* close_database(force=True)
ForceClose(o) ==
  /\ "force" \in Env /\ server # "down" /\ Registered(o) /\ obj[o].handle # "none"
  /\ obj'    = [obj EXCEPT ![o] = force_close(@)]
  /\ active' = Uncounted({o})
  /\ UNCHANGED <<projects, closing, saver, saving, todo, server, ending, raced>>

\* close_database: it queues its command ...
CloseDatabase(o) ==
  /\ "leave" \in Env /\ server # "down" /\ Registered(o) /\ obj[o].handle # "none"
  /\ "leave" \notin obj[o].hand /\ obj[o].told["leave"] = "no"
  /\ obj' = [obj EXCEPT ![o] = Submit(@, "leave")]
  /\ UNCHANGED <<projects, active, closing, saver, saving, todo, server, ending, raced>>

\* ... and, when that has ended, kills the worker, whoever it is working for by then ...
DatabaseClosed(o) ==
  /\ server # "down" /\ obj[o].told["leave"] = "done"
  /\ obj'    = [obj EXCEPT ![o] = Resume(Drop(@), "leave")]
  /\ active' = Uncounted({o})
  /\ UNCHANGED <<projects, closing, saver, saving, todo, server, ending, raced>>

\* ... or, after 30 s, closes by force ...
DatabaseClosedByForce(o) ==
  /\ server # "down" /\ "leave" \in obj[o].hand
  /\ obj'    = [obj EXCEPT ![o] = Resume(force_close(@), "leave")]
  /\ active' = Uncounted({o})
  /\ UNCHANGED <<projects, closing, saver, saving, todo, server, ending, raced>>

\* ... or fails, if somebody else has cancelled its command.
CloseDatabaseRaises(o) ==
  /\ server # "down" /\ obj[o].told["leave"] = "raised"
  /\ obj' = [obj EXCEPT ![o] = Resume(@, "leave")]
  /\ UNCHANGED <<projects, active, closing, saver, saving, todo, server, ending, raced>>

\* The end of close_project: p, which was o's state, is taken out.
Removed(o, p) ==
  [p EXCEPT !.fate = IF p.hand = {} /\ ending[o] # "end" THEN "closed" ELSE "orphaned"]

\* close_project of a project without a handle, whatever its coroutines are doing.
CloseAtOnce(o) ==
  /\ server # "down" /\ closing = None /\ Registered(o) /\ obj[o].handle = "none"
  /\ projects' = [projects EXCEPT ![obj[o].id] = None]
  /\ obj'      = [obj EXCEPT ![o] = Removed(o, @)]
  /\ UNCHANGED <<active, closing, saver, saving, todo, server, ending, raced>>

\* close_project of one with a handle, under _project_lock.
CloseProject(o) ==
  /\ server # "down" /\ closing = None /\ Registered(o) /\ obj[o].handle # "none"
  /\ closing' = o
  /\ obj'     = [obj EXCEPT ![o] = Submit(@, "close")]
  /\ UNCHANGED <<projects, active, saver, saving, todo, server, ending, raced>>

\* It resumes with CloseDatabase done, or after 30 s.
CloseEnds ==
  LET o == closing IN
  /\ server # "down" /\ closing # None /\ obj[o].told["close"] # "raised"
  /\ projects' = [projects EXCEPT ![obj[o].id] = None]
  /\ obj'      = [obj EXCEPT ![o] = Removed(o, Resume(force_close(@), "close"))]
  /\ active'   = Uncounted({o})
  /\ closing'  = None
  /\ UNCHANGED <<saver, saving, todo, server, ending, raced>>

\* Faulty variant: the lock is given back at the end of the normal path only.
CloseRaises_KeepsLock ==
  /\ server # "down" /\ closing # None /\ obj[closing].told["close"] = "raised"
  /\ UNCHANGED vars

\* Its task was cancelled by somebody else: CancelledError is no Exception, so
\* close_project fails and the project stays.
CloseRaises ==
  /\ server # "down" /\ closing # None /\ obj[closing].told["close"] = "raised"
  /\ closing' = None
  /\ obj'     = [obj EXCEPT ![closing] = Resume(@, "close")]
  /\ UNCHANGED <<projects, active, saver, saving, todo, server, ending, raced>>

-----------------------------------------------------------------------------
(* The coroutine at the head of a project's queue: _exec_one, _ensure_worker. *)

\* It has the lock and finds the worker alive.
UseWorker(o) ==
  /\ server # "down" /\ obj[o].phase = "free" /\ \E c \in Cmd : First(o, c)
  /\ obj[o].handle = "live"
  /\ obj' = [obj EXCEPT ![o].phase = "serving"]
  /\ UNCHANGED <<projects, active, closing, saver, saving, todo, server, ending, raced>>

\* It finds no worker, or clears away a dead one, and the Limiter lets it start
\* another.  The count is raised only when that one has come up.
StartWorker(o) ==
  /\ server # "down" /\ obj[o].phase = "free" /\ \E c \in Cmd : First(o, c)
  /\ obj[o].handle # "live" /\ can_spawn(Uncounted({o}))
  /\ obj'    = [obj EXCEPT ![o] = [Drop(@) EXCEPT !.phase = "spawning"]]
  /\ active' = Uncounted({o})
  /\ raced'  = (raced \/ \E x \in Object : obj[x].phase = "spawning")
  /\ UNCHANGED <<projects, closing, saver, saving, todo, server, ending>>

\* It may not, or there is no database to open.
RefuseWorker(o) ==
  /\ server # "down" /\ obj[o].phase = "free" /\ obj[o].handle # "live"
  /\ \E c \in Cmd : First(o, c) /\ obj' = [obj EXCEPT ![o] = End(Drop(@), c)]
  /\ active' = Uncounted({o})
  /\ UNCHANGED <<projects, closing, saver, saving, todo, server, ending, raced>>

\* Faulty variant: on_spawned is forgotten.
Spawned_Uncounted(o) ==
  /\ server # "down" /\ obj[o].phase = "spawning"
  /\ obj' = [obj EXCEPT ![o].phase = "opening"]
  /\ UNCHANGED <<projects, active, closing, saver, saving, todo, server, ending, raced>>

\* spawn() returns: on_spawned.
Spawned(o) ==
  /\ server # "down" /\ obj[o].phase = "spawning"
  /\ obj'    = [obj EXCEPT ![o].phase = "opening"]
  /\ active' = active \cup {obj[o].id}
  /\ UNCHANGED <<projects, closing, saver, saving, todo, server, ending, raced>>

\* spawn() raises.
SpawnFails(o) ==
  /\ server # "down" /\ obj[o].phase = "spawning"
  /\ \E c \in Cmd : First(o, c) /\ obj' = [obj EXCEPT ![o] = End(@, c)]
  /\ UNCHANGED <<projects, active, closing, saver, saving, todo, server, ending, raced>>

\* The database cannot be opened, or the worker dies over it: on_destroyed.
OpenFails(o) ==
  /\ server # "down" /\ obj[o].phase = "opening"
  /\ \E c \in Cmd : First(o, c) /\ obj' = [obj EXCEPT ![o] = End(@, c)]
  /\ active' = active \ {obj[o].id}
  /\ UNCHANGED <<projects, closing, saver, saving, todo, server, ending, raced>>

\* The worker has opened the database and becomes the project's.
WorkerReady(o) ==
  /\ server # "down" /\ obj[o].phase = "opening"
  /\ obj' = [obj EXCEPT ![o].phase = "serving", ![o].handle = "live"]
  /\ UNCHANGED <<projects, active, closing, saver, saving, todo, server, ending, raced>>

\* The worker answers.  After Shutdown it exits.
Served(o) ==
  /\ server # "down" /\ obj[o].phase = "serving" /\ obj[o].handle = "live"
  /\ \E c \in Cmd : /\ First(o, c)
                   /\ obj' = [obj EXCEPT ![o] =
                        [End(@, c) EXCEPT !.handle = IF c = "stop" THEN "dead" ELSE "live"]]
  /\ UNCHANGED <<projects, active, closing, saver, saving, todo, server, ending, raced>>

\* Faulty variant: expects the handle to be still there.
WorkerDead_OnlyWithHandle(o) ==
  /\ server # "down" /\ obj[o].phase = "serving" /\ obj[o].handle = "dead"
  /\ \E c \in Cmd : First(o, c) /\ obj' = [obj EXCEPT ![o] = End(Drop(@), c)]
  /\ active' = Uncounted({o})
  /\ UNCHANGED <<projects, closing, saver, saving, todo, server, ending, raced>>

\* The worker was killed or has died: WorkerDead clears the handle, if there is one.
WorkerDead(o) ==
  /\ server # "down" /\ obj[o].phase = "serving" /\ obj[o].handle # "live"
  /\ \E c \in Cmd : First(o, c) /\ obj' = [obj EXCEPT ![o] = End(Drop(@), c)]
  /\ active' = Uncounted({o})
  /\ UNCHANGED <<projects, closing, saver, saving, todo, server, ending, raced>>

\* ConnectionResetError: the dead handle stays.
ConnectionReset(o) ==
  /\ server # "down" /\ obj[o].phase = "serving" /\ obj[o].handle = "dead"
  /\ \E c \in Cmd : First(o, c) /\ obj' = [obj EXCEPT ![o] = End(@, c)]
  /\ UNCHANGED <<projects, active, closing, saver, saving, todo, server, ending, raced>>

Crash(o) ==
  /\ "crash" \in Env /\ server # "down" /\ obj[o].handle = "live"
  /\ obj' = [obj EXCEPT ![o].handle = "dead"]
  /\ UNCHANGED <<projects, active, closing, saver, saving, todo, server, ending, raced>>

-----------------------------------------------------------------------------
(* The auto-save loop. *)

\* The project of id i is open and has a handle, dead or alive.
Saveable(i) == projects[i] # None /\ obj[projects[i]].handle # "none"

\* The loop goes through the ids in T, in no particular order, skips what it finds
\* not saveable, and awaits the save of the first that is.  ob is obj as it resumes.
NextSave(T, ob) ==
  \/ /\ \A i \in T : ~Saveable(i)
     /\ saver' = "sleep" /\ saving' = None /\ todo' = {}
     /\ obj' = ob
  \/ \E i \in T, S \in SUBSET T :
       /\ Saveable(i) /\ \A j \in S : ~Saveable(j)
       /\ saver' = "wait" /\ saving' = projects[i] /\ todo' = T \ (S \cup {i})
       /\ obj'   = [ob EXCEPT ![projects[i]] = Submit(@, "save")]

\* The interval has passed.
SaverWakes ==
  /\ saver = "sleep" /\ server = "up"
  /\ NextSave(active, obj)
  /\ UNCHANGED <<projects, active, closing, server, ending, raced>>

\* The save has ended, well or not.
SaverGoesOn ==
  /\ saver = "wait" /\ server = "up" /\ obj[saving].told["save"] = "done"
  /\ NextSave(todo, [obj EXCEPT ![saving] = Resume(@, "save")])
  /\ UNCHANGED <<projects, active, closing, server, ending, raced>>

\* The save was cancelled: `except Exception` lets CancelledError through.
SaverDies ==
  /\ saver = "wait" /\ server = "up" /\ obj[saving].told["save"] = "raised"
  /\ saver' = "dead" /\ saving' = None /\ todo' = {}
  /\ obj'   = [obj EXCEPT ![saving] = Resume(@, "save")]
  /\ UNCHANGED <<projects, active, closing, server, ending, raced>>

-----------------------------------------------------------------------------
(* shutdown(). *)

\* The auto-save loop is cancelled, and with it the save it awaits.
ShutdownStarts ==
  /\ "shutdown" \in Env /\ server = "up"
  /\ server' = "stopping"
  /\ obj'    = IF saver = "wait" THEN [obj EXCEPT ![saving] = Resume(Cancel(@, {"save"}), "save")]
                ELSE obj
  /\ saver'  = "off" /\ saving' = None /\ todo' = {}
  /\ UNCHANGED <<projects, active, closing, ending, raced>>

\* _graceful_close of every project with a living worker.
GracefulClose ==
  LET live == {o \in Object : Registered(o) /\ obj[o].handle = "live"} IN
  /\ server = "stopping"
  /\ server' = "closing"
  /\ ending' = [o \in Object |-> IF o \in live THEN "end" ELSE "no"]
  /\ obj'    = [o \in Object |-> IF o \in live THEN Submit(obj[o], "end") ELSE obj[o]]
  /\ UNCHANGED <<projects, active, closing, saver, saving, todo, raced>>

\* CloseDatabase has ended, well or not: the worker is told to exit.
EndToStop(o) ==
  /\ server = "closing" /\ ending[o] = "end" /\ obj[o].told["end"] = "done"
  /\ ending' = [ending EXCEPT ![o] = "stop"]
  /\ obj'    = [obj EXCEPT ![o] = Submit(Resume(@, "end"), "stop")]
  /\ UNCHANGED <<projects, active, closing, saver, saving, todo, server, raced>>

\* Faulty variant: no time limit.
EndOver_NoTimeout(o) ==
  /\ server = "closing" /\ ending[o] \in {"end", "stop"}
  /\ IF ending[o] = "end" THEN obj[o].told["end"] = "raised" ELSE obj[o].told["stop"] # "no"
  /\ ending' = [ending EXCEPT ![o] = "over"]
  /\ UNCHANGED <<projects, obj, active, closing, saver, saving, todo, server, raced>>

\* The command it awaits has ended or was cancelled, or its 10 or 5 s are over.
EndOver(o) ==
  /\ server = "closing" /\ ending[o] \in {"end", "stop"}
  /\ ~(ending[o] = "end" /\ obj[o].told["end"] = "done")
  /\ ending' = [ending EXCEPT ![o] = "over"]
  /\ obj'    = [obj EXCEPT ![o] = Resume(Cancel(@, {ending[o]}), ending[o])]
  /\ UNCHANGED <<projects, active, closing, saver, saving, todo, server, raced>>

\* Faulty variant: the projects are forgotten, not force-closed.
ShutdownEnds_NoForce ==
  LET left == {o \in Object : Registered(o)} IN
  /\ server = "closing" /\ \A o \in Object : ending[o] \in {"no", "over"}
  /\ server'   = "down"
  /\ projects' = [i \in Id |-> None]
  /\ obj'      = [o \in Object |-> IF o \in left THEN [obj[o] EXCEPT !.fate = "closed"] ELSE obj[o]]
  /\ UNCHANGED <<active, closing, saver, saving, todo, ending, raced>>

\* All have returned: what is left is force-closed, and the server is down.
ShutdownEnds ==
  LET left == {o \in Object : Registered(o)} IN
  /\ server = "closing" /\ \A o \in Object : ending[o] \in {"no", "over"}
  /\ server'   = "down"
  /\ projects' = [i \in Id |-> None]
  /\ obj'      = [o \in Object |-> IF o \in left THEN Removed(o, force_close(obj[o])) ELSE obj[o]]
  /\ active'   = Uncounted(left)
  /\ UNCHANGED <<closing, saver, saving, todo, ending, raced>>

-----------------------------------------------------------------------------
\* What the event loop runs ...
LoopStep(o)   == UseWorker(o) \/ StartWorker(o) \/ RefuseWorker(o) \/ WorkerDead(o)
\* ... and what a worker decides.
WorkerStep(o) ==
  Spawned(o) \/ SpawnFails(o) \/ OpenFails(o) \/ WorkerReady(o) \/ Served(o) \/ ConnectionReset(o)

LeaverStep(o) == DatabaseClosed(o) \/ DatabaseClosedByForce(o) \/ CloseDatabaseRaises(o)
SaverStep    == SaverGoesOn \/ SaverDies
CloserStep   == CloseEnds \/ CloseRaises
ShutdownStep == GracefulClose \/ ShutdownEnds \/ \E o \in Object : EndToStop(o) \/ EndOver(o)

Next ==
  \/ \E i \in Id : OpenProject(i)
  \/ \E o \in Object : Work(o) \/ CancelWork(o) \/ DelayedKill(o) \/ ForceClose(o)
  \/ \E o \in Object : CloseDatabase(o) \/ LeaverStep(o)
  \/ \E o \in Object : CloseAtOnce(o) \/ CloseProject(o)
  \/ \E o \in Object : LoopStep(o) \/ WorkerStep(o) \/ Crash(o)
  \/ SaverWakes \/ SaverStep \/ CloserStep
  \/ ShutdownStarts \/ ShutdownStep

Spec == Init /\ [][Next]_vars

\* The event loop runs what is ready and its timers fire; workers may hang.
FairSpec ==
  /\ Spec
  /\ \A o \in Object : WF_vars(LoopStep(o)) /\ WF_vars(LeaverStep(o))
  /\ WF_vars(SaverStep) /\ WF_vars(CloserStep) /\ WF_vars(ShutdownStep)

WorkerFairness == \A o \in Object : WF_vars(WorkerStep(o))

-----------------------------------------------------------------------------
(* Properties. *)

\* Every variable has its type, and the table of projects names what is open.
TypeOK ==
  /\ projects \in [Id -> Object \cup {None}]
  /\ obj \in [Object -> Proj]
  /\ active \in SUBSET Id
  /\ closing \in Object \cup {None}
  /\ saver \in Saver /\ saving \in Object \cup {None} /\ todo \in SUBSET Id
  /\ server \in Server /\ ending \in [Object -> Ending]
  /\ raced \in BOOLEAN

\* More instances than hard_limit are counted only after two projects were starting
\* a worker at the same time: the check and the count are an await apart.
LimitUnlessRaced == HardLimit # 0 /\ Cardinality(active) > HardLimit => raced

\* The worker of an open project is counted, unless an earlier project of the same
\* id was closed with commands in hand: the Limiter counts ids, not workers.
WorkersCounted ==
  \A o \in Object :
    /\ obj[o].fate = "open" /\ (obj[o].handle # "none" \/ obj[o].phase = "opening")
    /\ ~\E x \in Object : obj[x].fate = "orphaned" /\ obj[x].id = obj[o].id
    => obj[o].id \in active

\* No id stays counted without a worker: capacity is lost only where a worker is.
CountsAreReal ==
  \A i \in active : \E o \in Object :
    /\ obj[o].id = i
    /\ obj[o].handle # "none" \/ obj[o].phase = "opening" \/ obj[o].lost

\* A project that was closed, or shut down, has no worker and no command in hand,
\* unless it was closed while it was opening a worker or being shut down.
NothingOutlives ==
  /\ server = "down" => \A o \in Object : obj[o].fate # "open"
  /\ \A o \in Object : obj[o].fate = "closed" =>
       obj[o].handle = "none" /\ obj[o].phase = "free" /\ obj[o].hand = {}

\* close_project gives back _project_lock, whatever the worker does and whoever
\* else closes the database meanwhile.
ProjectLockFreed == closing # None ~> closing = None \/ server = "down"

\* A shutdown completes, even if every worker hangs.
ShutdownCompletes == server = "stopping" ~> server = "down"

\* The save that the loop awaits was cancelled, which will end the loop.
SaveCancelled == saver = "wait" /\ obj[saving].told["save"] = "raised"

\* If workers answer, the auto-save loop gets to the end of its round over the
\* projects, or to its shutdown, whatever fails or dies on the way, unless the save
\* it awaits is itself cancelled.
SaveRoundsEnd ==
  WorkerFairness => (saver = "wait" ~> saver \in {"sleep", "off"} \/ SaveCancelled)

\* Only a forced close of the very project that is being saved cancels its save: a
\* cancel_task, a watchdog, a crash or a close_database in time never ends the loop.
OnlyForceEndsSaves ==
  [][SaveCancelled' /\ ~SaveCancelled =>
       obj'[saving].handle = "none" /\ obj'[saving].hand = {}]_vars

\* What the code's comments and docs say, and the code does not do.

\* "spawn refused at this count"
HardLimitKept == HardLimit # 0 => Cardinality(active) <= HardLimit

\* The server "periodically" saves each active project.
AutoSaveRuns == "save" \in Env /\ server = "up" => saver # "dead"

\* ... and a worker that hangs does not keep it from saving the others.
SavesEndAnyway == saver = "wait" ~> saver # "wait"

\* close_project destroys the project and its resources.
ClosedHasNoWorker ==
  \A o \in Object : obj[o].fate \in {"closed", "orphaned"} => obj[o].handle = "none"
=============================================================================
