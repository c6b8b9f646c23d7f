# Ramune-ida in TLA+

Ramune-ida is an MCP server that lets AI agents work on binaries in IDA. An
asyncio server keeps *projects*; each project owns one worker process with an IDA
database, talks to it over a socket, one command at a time, and kills and restarts
it when it must. This directory models that machinery in TLA+, checks it with TLC
and proves its central invariants with TLAPS.

## 1. Inventory

Paths are relative to `src/src/ramune_ida/` unless they say otherwise.

| Component | State | Operations | Talks to | Hard behaviour | What makes it correct |
|---|---|---|---|---|---|
| `Project` (`project.py`) | `_handle`, `_exec_lock`, `_tasks`, paths; per task: status, coroutine, `_cancel_requested` | `execute`, `get_task_result`, `cancel_task`, `force_close`, `_delayed_kill`, `_exec_one`, `_ensure_worker` | worker by socket and signals, Limiter by callbacks | `force_close`, watchdog and `close_database` change the handle without the lock; cancellation at any await; time limits racing answers | one conversation with one worker; own answers; cancellation wins and takes effect; FIFO; no worker lost |
| `WorkerHandle` (`worker_handle.py`) | process, reader, writer | `spawn`, `execute`, `kill`, `send_signal` | worker | half-open sockets, lines over 16 MiB, dead processes noticed late | a response goes to the task that asked |
| Worker (`worker/main.py`, `dispatch.py`, `cancel.py`, `socket_io.py`) | the loop, the current command, cancel flag, profile hook, redirected stdout | serve, cancel, shut down | server, IDA | SIGUSR1 between any two bytecodes, answers that cannot be sent | one answer per request, in order; only the command meant is cancelled; nothing is left behind for the next |
| Database session (`worker/handlers/session.py`, `Project.set_database`) | open database, paths the project is bound to, component files and packed file on disk | open (with recovery of residual files), save, close, bind to another database | IDA, file system | crash between component files and the packed file; writes that IDA refuses unnoticed; the path changes under a living worker | what was saved survives any crash; the database asked for is the one opened |
| `Limiter` (`limiter.py`) | set of counted projects | `can_spawn`, `on_spawned`, `on_destroyed` | all projects | check and count are an await apart | never more than `hard_limit`; every living worker counted |
| `AppState` (`server/state.py`) | projects, `_project_lock`, auto-save task | open/close project, auto-save, shutdown | projects, Limiter, OutputStore | closing while opening; one hanging save stops all, one cancelled save ends the loop; shutdown during anything | nothing survives its project; rounds of saves end |
| Session tools (`server/tools/session.py`) | none of their own | `open_database`, `close_database`, `get_task_result`, `cancel_task`, ... | AppState, Project | 30 s limit around an unshielded wait; checks before awaits | every call is answered, and truthfully |
| `OutputStore` (`server/output.py`) | index per project, a process-wide counter, files | truncate, get, evict, discard | tools, resources, `AppState` | eviction of ids a client still holds; restarts and second servers over the same files | bounded per project; a URL names one text; nothing is left on disk |
| Server application (`server/app.py`, `web/app.py`, `cli.py`) | the shared state, its owner | lifespan, `ensure_state`, startup, signals | AppState | overlapping sessions, a signal during the startup, the 5 s after it | one state at a time, closed when the server stops |
| Activity (`web/activity.py`, `src/web-ui/src/stores/activityStore.ts`), overview cache (`web/api/overview.py`) | ring buffer, pending ids, subscribers, capture of the current call, cache | record, complete, subscribe, history, scan | MCP application, browser | calls in flight share an attribute; history against broadcasts; stale cache | an event ends with its call; the browser shows each event once, as it is |
| Web client (`src/web-ui/src/stores/`, `panels/`) | lines shown, requests in flight; channels, navigation history | jump, scroll; navigate, back, forward | web API | answers out of order | a panel shows one stretch without hole; the view shows the last target asked for |
| Handlers that write (`core/annotate`, `types`, `execution`, `undo`) | IDA's database, undo points | rename, comment, set and define types, run a script, undo | IDA | refusal and cancellation between two calls into IDA | answers tell what the database says; undo goes back to where it says |
| Handlers that page (`core/webview/handlers.py`) | none | `hex_view`, `linear_view`, `overview_scan` | IDA, panels | gaps, odd segment ends, unexplored bytes | pages cover the database without hole or repetition |
| Handlers that query (`core/analysis`, `search`, ...) | none | decompile, xrefs, search, list | IDA | none of their own | limits |

Interaction in one paragraph. A tool call resolves a `Project` in `AppState` and
awaits `Project.execute`. That creates an asyncio task running `_exec_one`, which
takes `_exec_lock`, makes sure there is a worker (spawning a process, asking the
`Limiter`, opening the database and saving it once), sends one JSON line and awaits
one. A tool's wait is shielded and limited in time: when it runs out the client
gets a task id to poll or to cancel. `cancel_task` signals a running worker and
leaves a watchdog behind; `close_database`, `close_project`, auto-save and shutdown
go through the same queue, but await without a shield and may kill the worker
behind the queue's back.

## 2. Plan

| # | Module | Models | State |
|---|---|---|---|
| 1 | `ProjectExec`, with `TaskQueue` above it | one project, its callers, its workers | checked, proved |
| 2 | `Pool` | several projects, the Limiter, open/close project, auto-save, shutdown; `hard_limit` | checked, proved |
| 3 | `WorkerDispatch`, with `WorkerPort` above it | the worker's loop and dispatch under SIGUSR1 | checked, proved |
| 4 | `Database` | component files, packed file, crash recovery, `set_database` under a living worker | checked, proved |
| 5 | `OutputStore` | truncation, eviction, discard, restarts, two servers over one directory | checked, proved |
| 6 | `Lifespan` | start and shutdown of the server's state by sessions and signals | checked, safety proved |
| 7 | `Activity` | middleware, ring buffer, sockets, browser, overview cache | checked, safety proved |
| 8 | `Views`, `Panel` | paging algorithms, and the panels that put pages together | checked, proved |
| 9 | `Edits` | the tools that write, undo points, cancellation, crashes | checked, proved |

The modules meet at these seams. `ProjectExec` takes for granted that a worker is a
queue with one answer per request: `WorkerPort` says so, and `WorkerDispatch`, which
has the worker from the inside, is proved to implement it. `Pool` takes each project
as the few stages that matter to the others and leaves the conversation to
`ProjectExec`. `Database` and `Edits` rely on the commands of a project running one at
a time in order, which is `TaskQueue`, proved of `ProjectExec`. `Panel` calls the
operators of `Views`.

What is left: `viewStore.ts` (navigation with channels and history; answers to
`resolve` and `func_view` of an older navigation may overwrite a newer one's), and the
survey of `open_database`.

## 3. ProjectExec

The server is one asyncio event loop, so a handler runs undisturbed from one await
to the next, and each action of `ProjectExec.tla` is one such stretch. What
interleaves are the stretches of different tasks and callers, watchdogs, and the
workers, which are processes.

* A task's coroutine is `pc[t]`: `new` (created, not started), `queued` (waits for
  `_exec_lock`), `spawning`, `opening` and `init` (the three awaits of
  `_ensure_worker`), `running` (awaits the worker's response), then `returned` or
  `raised` (ended with CancelledError). `CanLock` is asyncio's lock: free, and the
  first living waiter in order of arrival.
* `status`, `creq` and `tasks` are `Task._status`, `_cancel_requested` and
  `Project._tasks`. `must[t]` is asyncio's pending cancellation of the coroutine.
  (A coroutine that is cancelled calls `task.cancel()` in its own handler and so
  cancels itself once more, which is why it ends `raised` and not `returned`.)
* `caller[t]` is the coroutine that awaits `execute`: a tool (`Tool`, shielded and
  timed), the auto-save loop (`Save`, neither) or `close_database` (`Close`, a
  `wait_for` without a shield).
* `handle` is `Project._handle`; `conn` is the worker the lock holder awaits, which
  is not the project's yet while it is being opened; `slot` says that the Limiter
  counts the project; `alive` and `closed` describe the processes and `toWorker`,
  `fromWorker` the two directions of each socket.
* `Kill`, `DropHandle`, `Send`, `Receive` and `Return` are the parts that several
  handlers share. Every action names its handler in its comment.
* The environment (`Env`) may crash a worker, have it write a line the reader
  rejects, cancel tasks and callers, force-close and let the 30 s of
  `close_database` run out. A run says which of these it allows.

`TaskQueue.tla` is what a project promises of its commands: they are served one at
a time in order of arrival, each ends at most once, its outcome does not change,
and a cancellation takes a set of tasks out. `ProjectExec` maps `stage` and
`outcome` from `pc`, `must` and `status` (`QueueSpec`).

Abstracted: arguments and results of commands (a response is the task it belongs to
and whether it is an error), file paths (`RefuseWorker` stands for both reasons to
start no worker), stderr and logging. A worker's identity is used again once the
process is gone and its sockets are empty.

## 4. Pool

`Pool.tla` is `AppState` with the `Limiter`: the table `projects`, `_project_lock`
(`closing`, held across an await by `close_project` only), the auto-save loop
(`saver`, the project whose save it awaits in `saving`, the ids it has still to visit
in `todo`) and `shutdown()` (`server`, and its `_graceful_close`s in `ending`).

`obj[o]` is a `Project` object, which outlives its entry in the table while
coroutines hold it. It is taken in stages: `hand` and `ahead` are the commands that
have not ended and their order, `phase` is how far the first of them has got
(`spawning`: before `on_spawned`; `opening`: counted, with no handle yet; `serving`:
sent to the worker), `handle` is `_handle` with the health of its process, and `told[c]`
is what the coroutine that awaits command `c` will find when it resumes: between
the end of a task and the resumption of its caller anything may happen, and does.
A command is known by who sent it, for that decides what follows: a tool (`work`),
the auto-save loop (`save`), `close_database` (`leave`), `close_project` (`close`)
and the two of `shutdown()` (`end`, `stop`). Each is in hand once at a time; `work`
stands for any number of tool calls.

* Fates: an object is `open`, then `closed`; `orphaned` if it was closed while
  a command was still in hand or to come. Orphans go on: they may start a worker
  that belongs to no project.
* `Uncounted` is `on_destroyed` as five handlers call it: by id, whether or not the
  worker it was counted for is the one that is gone.
* `lost` and `raced` are history variables: a project forgot a living worker (its
  opening was cancelled), and two workers were being started at the same time.

Simplified: a cancelled coroutine unwinds at once (`ProjectExec` has the
intermediate steps); a client that goes away is not an event; `_project_lock` has no
queue, as those who wait for it have not done anything yet; `open_database` and its
survey are two `work`s. A project may be refused a worker whenever it asks, for want
of a database.

## 5. The other modules

### WorkerDispatch

`main()`'s loop, `dispatch()` and `execute_python` as stretches of code, `pc`, in each of
which an exception raised by the signal has the same effect (the module's head lists
them). `pend` is a signal that has arrived and whose Python handler has not run;
`HandleSignal` runs it between any two steps, in which case it raises CancelledError
if and only if the profile hook is set. `Raised` has the cases: the handler is cut
short, a script or handler swallows the exception, stdout is restored or not, an `except`
clause is left by it, or `dispatch` itself is. A request is `Python`, `Tool`, `Unknown` (no
handler), `Ping` or `Shutdown`; the `Stubborn` ones may sit in a call into C or catch
BaseException. `Capture` and `Cleanup` are what `execute_python` does to `sys.stdout`: it
remembers what it found (`old`), which may be the buffer of an earlier script, and puts
that back. `SendFails` is `io.send` raising outside any `try`: an answer that orjson does not
encode, or a server that is gone (`HangUp`); the process ends with its database open.
The server's side is `SendRequest`, `ReadAnswer`, `Abandon` (its wait was cancelled) and
`Cancel`, which aims at the request it thinks is being served.

### Database

One project, its queue of commands, and per database a packed file and component files
(`packed`, `parts`), whose content is the database it describes and a number of edits.
Opening is `Spawn`, `SendOpen` (with `open_path` as it is at that moment), `WorkerOpens`
and `OpenReply`, which sets `idb_path` and starts the first save. A save is `Flush` and
`Pack`, for a crash may come between the two; each may be refused by IDA, which leaves its
file as it was and is answered as done all the same, as the code looks at neither result. The
same holds of the first save and of closing. `kept` is history: the edits of the last
save of which IDA refused nothing. IDA is external: it writes a file or leaves it, and goes
on from component files with what was last flushed, or fails to, after which the code
falls back on the packed file. `switched` is history: `open_database` bound another
database under a living worker or a waiting save. The properties exclude that; section 8
says what happens then.

### OutputStore

Servers (`up`, `counter`, `open`, `index`) over shared directories (`dirs`, `disk`). `Process`
is `process` with `_save_full_json` and `_evict`; `CloseProject`, `Shutdown` and `Crash` differ
in what they leave on disk. `handed`, `current` and `writers` are history: the URLs
clients hold, which of them are from before a close, and who handled a project's files.

### Lifespan

Sessions enter `_lifespan` (`Enter`: borrow the state if there is one, else discover
plugins, an await, and make one), leave, and the owner shuts the state down. With the
Web UI the state is made at startup and belongs to no session. `Signal` is `_serve` or
`_serve_stdio` woken by a signal, from the moment the handler is installed, before the startup:
it shuts down the state of that moment, if there is one, then uvicorn ends the
sessions. `Abort` is a startup that a signal cut short, which may make its state yet.
`GiveUp` is the end of the 5 s that `_serve` waits, after which what is left is cancelled
(`CloseIsCut`: an owner's `shutdown()` too). `before` is history, the states that were made
before the signal.

### Activity

A POST goes through `Start` (its capture is left in the middleware's one attribute),
`Receive` (each tool call in its body is recorded, and its id is given to whichever
capture is in the attribute by now), `FirstChunk`, `LastChunk` (`record_complete`) or
`Drop`. A browser's socket has two sources, the history (`SendHistory`) and broadcasts
(`SendLive`), that interleave as two tasks do; `addEvent` is the browser's, which keeps the
last `KeepLast` events (500 in the code). The overview's cache is `cache`, with the version of
the database it shows.

### Views and Panel

`Views` has `hex_view`, `linear_view` and `overview_scan` as operators over an image: segments
with gaps, items, functions, unexplored bytes. A `while` loop of the code is its turn
(`HexForward`, `LinearBackward`, `ScanTurn` and so on), a function on the loop's variables,
iterated by `Loop`; a loop that is over turns no more, and `Turns` are as many as any of
them takes, which is proved. `overview_scan` gives the regions segment by segment, as the
code starts a new one with each segment.
`Panel` is the state machine of `HexView.tsx` and `LinearView.tsx`, which are alike: lines
shown, `loading`, calls in flight; jumps, scrolls and the restart of a panel that holds
too much, with answers in any order or failed.

### Edits

A database is a function from facts (the name, type and comment of an address, a
function's comment, a local's name and type, the definitions of the library's types) to
values. `Start` is `dispatch` with `_maybe_create_undo_point`; each handler is an action, and
`Refused`, `Cancelled`, `Save` and `Crash` may strike. `DefineType` declares any of the
types of its text, each anew or again, with errors or without, and reports of the names it
finds in the text what the library says by then, which may be an old definition.
`SetTypeLocal` says that the type is set, and sets nothing. `UndoStep` is one turn of undo's
loop. `known` is history: what a client that only goes by the answers believes of each
fact, `Unsure` after a cancellation or a script. `gap` says that an undo point could not be
made, which the code only logs.

## 6. Runs

| Run | Question | Bounds | Shows |
|---|---|---|---|
| `project_safety` | do the handle, the lock, the count and the answers stay consistent in every interleaving? | 2 tool calls, 1 `close_database`, 3 workers, every environment event | its eight properties hold |
| `project_liveness` | does everybody get an answer, and does every cancellation take effect? | 1 tool call, 1 auto-save, 1 `close_database`, 2 workers; cancel, expire, crash | yes, under the fairness below |
| `project_own_answer` | a response's id "pairs it with the request" | as `project_safety`, aborted callers only | violated: an abandoned answer is taken by the next command |
| `pool_safety` | do the count and the table of projects stay true when projects are opened, closed, saved and killed, and who ends the auto-save loop? | 2 ids, 2 objects, `hard_limit` 1; crash, cancel, close, force, save | yes, with the exceptions the properties name; only a forced close ends the loop |
| `pool_liveness` | does the lock come free, does shutdown end, does a round of saves end? | 1 id, 2 objects; close, save, shutdown | yes, under the fairness below, the round unless the save it awaits is cancelled, which ends the loop for good; nothing outlives a shutdown |
| `worker` | what does a signal hit, wherever it strikes, and what does it leave behind? | 3 requests out of 2 scripts, one of them `Stubborn`, and one of each other kind; a signal for each | only what was to be cancelled; one answer per request (`WorkerPort`); a command under the hook ends, unless it is `Stubborn`; the causes of a worker's death |
| `database` | is what was saved still there, and is it what was asked for? | 2 databases, 2 edits each, 2 waiting commands; a crash or a refused write at any point | yes, unless the project is bound to another database under way |
| `outputs` | are the newest outputs kept, is anything orphaned? | 2 servers, 2 projects, limit 2, 5 outputs | yes, as long as one server handles a project's files |
| `lifespan` | how many states are there, and is each shut down? | 3 sessions, 4 states, with and without the Web UI; a signal at any time | one, unless sessions raced; none from before the signal is left open |
| `activity` | does each event end with its call, and does a browser show it so? | 3 calls in 3 sessions, two with the same id and a batch; 1 browser that keeps 3 events; ring of 3, history of 2 | yes, with the exceptions the properties name |
| `views` | do pages cover the database, and do panels put them together right? | 6 images, rows of 4, pages of 2 lines, 4 calls | yes, with the exceptions the properties name |
| `edits` | do answers tell the truth about the database, and does undo go back? | 1 function and 1 datum, a value of each kind, 2 types with 2 definitions; 3 calls, undo of up to 2 | yes, but for the types of local variables |

Why these bounds are enough.

* `ProjectExec`: three tasks give a lock holder, a waiter and one that arrives, is
  cancelled or is closed meanwhile; all the races found here need two. Three workers
  allow one lost, one current and one being started.
* `Pool`: two ids share a limit of one, so that each can be in the other's way; two
  objects may be two projects, or one that was closed and its successor, which is what
  the count by id is sensitive to; one object has all six kinds of command at a time.
  `Work` may be done again, so nothing but `Object` bounds the runs. The invariants also
  hold with two ids and all events at once (7.5 million states), which takes too long
  for every day; `pool_safety` leaves out shutdown, which `pool_liveness` has.
* `WorkerDispatch`: a signal can only be late for the next request, and each kind of
  request precedes and follows each other one; two scripts and one more request show
  a buffer that was left and what the next one makes of it. What holds of more is proved.
* `Database`: two databases for a switch; two edits tell the last save from an older
  one and from none, and component files from packed ones after a refused write; two
  waiting commands are one behind another.
* `OutputStore`: five outputs fill two buckets of two and evict; a third server would
  only be another second one. Proved for all bounds.
* `Lifespan`: two sessions race and a third borrows; a fourth state is one more than
  the sessions and the startup can make at the same time. Safety is proved for all bounds.
* `Activity`: two calls for a mix-up, and a batch; the history is shorter than the ring,
  and with the batch there is one event more than the ring holds and a browser keeps.
* `Panel`: the images are listed in `MCPanel` with what each is for: adjacent segments,
  gaps, segments within a row, unexplored bytes before, between and after items. Pages
  of two lines and panels of four make each boundary fall on each line; four calls
  are a jump, a scroll either way and one more.
* `Edits`: three calls are a write, another one that depends on it, and an undo or a
  read; two kinds of address are those with a function and without. Definitions are only
  compared, so the two are symmetric.

`CHECK_DEADLOCK FALSE` stands where the system does stop: each task, request, call or
session comes once, and a server that is down stays down. `database` checks for deadlock.

Properties of `ProjectExec`:

* `HandleIsCounted`, `OneConversation`: five handlers clear the handle and the
  count, three of them without the lock, and yet a project with a worker is counted
  and the task that holds the lock talks to the project's worker.
* `LostOnlyWhileOpening`: the one place where a living worker or its count is
  forgotten is a cancellation between `on_spawned` and `self._handle = handle`.
* `AnswerUsedOnce`, `OwnAnswerUnlessAbandoned`: who may be given whose response.
* `CancelNeverCompletes`, `AnswersAreFinal`: cancellation against late answers.
* `QueueSpec`: the refinement of `TaskQueue`.
* `CancelTakesEffect`, `CallersAnswered` (workers may hang), `TasksEnd` (if workers
  answer). Answered is who has a result, an error or a task id in its hands: a
  `close_database` whose time is over is not until its forced close is done.

Properties of `Pool`:

* `LimitUnlessRaced`: the limit holds but for one race, two workers being started at
  the same time.
* `WorkersCounted`, `CountsAreReal`: the two directions of "the Limiter counts the
  workers", each with its exception: ids that an orphan shares, and workers that
  were forgotten while they were being opened.
* `NothingOutlives`: neither `close_project` nor `shutdown()` leaves a worker or a
  command behind, orphans excepted.
* `ProjectLockFreed`, `ShutdownCompletes`: whatever the workers do.
* `SaveRoundsEnd`, if workers answer: the auto-save loop comes to the end of its round,
  whatever dies under it, unless the save it awaits is itself cancelled, for that ends the
  loop. `OnlyForceEndsSaves`: nothing but a forced close of that very project (its
  `close_database` out of time included) does that. That auto-save goes on for ever is
  not so (section 8).

Properties of the others:

* `OnlyWantedCancelled`, `CleanBetweenCommands`, `DeathsHaveACause`: a late signal
  against the next request; what a command leaves behind (of stdout, nothing but the buffers
  of scripts whose cancellation was answered); what ends the process without closing its
  database. `PortSpec`: the refinement of `WorkerPort`. `CancelStopsCommand`: a signal that
  meets the hook ends the command, but for `Stubborn` ones, which are left to the watchdog
  (`CancelTakesEffect` of `ProjectExec`).
* `SavedIsPacked`, `NothingSavedIsLost`: what a save wrote whole is neither lost nor
  overwritten by something older, whatever IDA refuses afterwards. `OpensWhatWasAsked`.
* `NewestKept`, `NoOrphans`. `UrlNamesItsText` (a URL names its output, as long as one server
  process handles the project) is in no run, and proved.
* `OneStateUnlessCollided`, `WebKeepsItsState`, `StopClosesStates`: a signal stops the
  server whenever it comes, and what there was by then is closed.
* `EventEndsWithItsCall` (unless captures or ids got mixed up), `BrowserUpToDate` (but
  for events whose history overtook a broadcast).
* `PanelIsAStretch`: however pages, jumps and restarts came together, a panel shows one
  stretch of the database. `NoHeadIsLost`: around unexplored bytes and gaps too, the linear
  view keeps every head and header in its place. `ForwardCovers`, `OverviewTiles`: the
  algorithms against what they should cover, odd segments included.
* `UndoGoesBack` (as long as IDA made each undo point), `AnswersTellTheDatabase` (but for
  the types of local variables).

Fairness. `LoopFairness` is weak fairness of each coroutine's steps, of callers
resuming and of timers: asyncio runs what is ready, and its timers fire.
`CancelTakesEffect` and `CallersAnswered` need nothing more, in particular nothing
of workers. `TasksEnd` assumes that processes come up or fail to and that workers
answer (`WorkerFairness`), for commands other than a tool's have no time limit.
In `Pool` likewise: `FairSpec` has the coroutines of projects, of `close_database`, of
`close_project`, of auto-save and of `shutdown()`, and the time limits of the last
three; only `SaveRoundsEnd` asks something of workers. In `WorkerDispatch` the interpreter
goes on in the loop and in `dispatch`, and runs the handlers of signals where it is sure to
come to its next bytecode (`Interruptible`), which a `Stubborn` command need not; a
command's body may run for ever. In `Lifespan`, `shutdown()` ends (`Pool`:
`ShutdownCompletes`), the 5 s pass, an aborted startup returns, and a session that is
cancelled ends.

Each property comes with a faulty variant of a definition (an operator with a suffix,
such as `OpenFails_StaysCounted`, just above the one it replaces), a bug
the code could plausibly have, which makes the property fail.

## 7. Proofs

`ProjectExecProofs.tla` proves for all sets of commands and workers and every
environment, from the assumptions on the constants (`None` is no worker, the kinds
of commands are disjoint):

* `TypeCorrect`: the type invariant, with lemmas for the shared parts.
* `HandleCounted` and `SingleConversation`, as one inductive invariant `Own`. Each
  needs the other: a handle found dead is cleared with its count, right only
  because nobody else is opening a worker then; and a new handle is counted because
  its opening was. `Fresh` (a task has a coroutine once somebody asked for it) is
  the strengthening that lets `Execute` be harmless.
* `LostWhileOpening`: the action property, with the invariant `Orphan` (a running
  task of a project that dropped its worker talks to a killed process).
* `CancelledNotCompleted`, inductive as it stands, and `FinalAnswers`, by the
  invariant `HandedOut`.
* `ResponsesUsedOnce`, from `Sockets` (a worker that is neither the project's nor being
  opened has nothing in its sockets; one that is being opened has at most the request or the
  answer of `_ensure_worker`'s own commands) and `Said` (the socket of the project's worker
  holds each task's command or response once, only those of tasks that were sent, and
  no response that somebody has been given).
* `OwnResponses`, from `Pure`: unless there is an excuse (an unshielded wait was given
  up, or a line was refused by the reader), nobody has another's answer, the task that
  runs is the only one with anything in the socket, and who ends leaves it empty.
  `GivenUp` is what makes that inductive: a running task has no cancellation pending
  unless its own caller went away, as `cancel_task` signals the worker of a running task
  and leaves the coroutine alone. `ExcusedStays`: an excuse does not go away.
* `ImplementsQueue`: `Spec => QueueSpec`. Every step is one abstract step or a
  stutter; `QueueStutter`, `QueueWithdraw`, `QueueMove` and `StageNext` do the
  mapping once for all actions.

`PoolProofs.tla` proves the type invariant, those of `pool_safety` and `NothingOutlives`
for any sets of ids and objects, any `hard_limit` and every environment, shutdown
included; it assumes that `None` is neither and that the limit is a natural number.

* Its first part says what each part of a step (`Submit`, `Resume`, `End`, `Cancel`,
  `Drop`, `force_close`, `Removed`) leaves of a project, so that the proofs of the
  steps need not look into records.
* `Inv` is the inductive invariant. `WorkersCounted` needs that an id is open once
  (`ObjOK`: the table names every open project), that a project being opened has no
  handle (`PhaseOK`), and that closed projects are quiet. That is so only because a
  forced close finds the one that holds the lock among the commands it cancels
  (`HasFirst`), which holds because no command is queued twice, and that because
  each coroutine is owed at most one answer (`Owed`, `ToldOnce`).
* `WithinStep`, `KeepStep`, `DropStep` and `AlikeStep` prove `Inv` once for each shape
  of step: within one project, leaving the count or dropping the handle, or over
  several projects without touching the workers.
* `LimitHolds` adds `Room`: as long as no two workers are being started at a time,
  there is room for the one that is. All steps but two are `Calm`.
* `OnlyForce` goes through the steps once more for what they do to a project's save: every
  part but a forced close is `Spared`, and the save a loop goes on to is new (`NewSave`).

`WorkerDispatchProofs.tla`, for any sets of requests of the five kinds, which are disjoint:

* `TypeCorrect`; `CommandsLeaveNothing` from `Tidy` (where the hook may be on) and
  `Redirected`: whatever stdout is, or was when the running script began, is the process's own,
  the buffer of a script that was answered CANCELLED, or that of the one being served, and
  the last only as long as its restoration is to come or its answer will be CANCELLED.
* `DeathHasACause` from `Deadly` (which verdicts a worker can die with, and where) and
  `Aimed` (a signal that is pending or has set the flag is for the request being served,
  unless the server has stopped waiting for something).
* `CancelledWereWanted` needs the two sides together: unless the server stopped
  waiting for something, it awaits exactly the request being served or answered, so
  that a pending signal or a set flag is for that one, or was reset on entry.
* `ImplementsPort`: every step serves, asks, takes, stops or stutters.

`OutputStoreProofs.tla`, for any servers, projects, limits and numbers of outputs:

* `TypeCorrect`, with `EvictProperties` (what `_evict` keeps and removes).
* `UrlsNameTheirText`, `NewestAreKept` and `NothingOrphaned` from one inductive invariant
  `Kept` for each server and project: the ids handed out rise (`IdsRise`), the index is
  the tail of what was handed out (`IndexIsTail`), and the files of a project only one
  server handles are those in its index, with the right texts (`Files`). The three need
  each other: that an eviction removes exactly one file needs distinct ids in the index, and
  that a new file overwrites none needs ids above all of them.

The end of `PoolProofs.tla` is about `Lifespan`, for any sessions and number of states:
`LifespanTypes`; `WebStateKept` (with the Web UI no session ever owns a state while the
server serves); `OneStateAtATime` (the open states are those of sessions that own one, and
there is one owner unless two discovered at once); `SignalClosesOld`, the safety part of
`StopClosesStates`: once the state of the signal is shut down none from before is open,
by `OnlyTarget` (when the signal comes, the current state is the only open one, unless
sessions raced).

`DatabaseProofs.tla`, for any databases and bounds on edits and waiting commands:

* `TypeCorrect`, with `Loaded` (a content is held only with its file, and only past opening).
* `SavedStaysPacked`, `SavesAreKept` and `OpensTheRightOne`, as long as no other database was
  bound under a living worker, from one inductive invariant: `Bound` (every path a step
  may use is the one asked for last, the waiting saves included) and `Sound` (no packed
  file, component file or memory is older than the last whole save of its database, whichever
  of them IDA has refused to write since). `Bound` is what makes a save go to the file it was
  read from, and without that `Sound` is not preserved. `WrittenKept` and `ClosedSound` say
  once what a written or refused file makes of it.

`EditsProofs.tla`, for any addresses, functions, names, comments and types, any number
of calls and any length of an undo; addresses and names are told apart, as `resolve_addr`
tells them:

* `TypeCorrect`, `UndoRestores` and `AnswersAreTrue`, from one inductive invariant `IInv`.
* `UndoRestores` needs `Aligned` (IDA's undo points are those of the write calls in the
  log, in order, each with the database from before the call) and `Undone` (an undo in
  progress has taken the calls off the end of the log it began with). Both hold while
  every write call got its undo point; when one could not be made (`gap`) nothing is said.
* `AnswersAreTrue` is about all facts but the types of local variables (`Sure`), of which
  `set_type`'s answers are false. It needs truth in the middle of a call too: `Told` says what
  a handler that is done may claim (each claim is so, and what it does not claim is as it
  was, but for types that the patterns of `define_type` do not see, `Missed`), and `Remembered` that each entry of the
  log, to which an undo may return, carries knowledge that agreed with its database.
* `HandlerDone` proves once for all handlers that one whose claims are so keeps `IInv`; a
  handler's lemma has only to show that about the facts it writes.

`ActivityProofs.tla`, for any calls with any bodies, JSON-RPC ids, browsers, and limits of
ring and history:

* `TypeCorrect`.
* `EventsEndWithTheirCalls`, from `CallInv`: as long as no two calls were mixed up, a call
  whose body was not read has no event (`Unread`), its id is that of the last tool call in
  its body (`OwnId`), that id finds the event it recorded until its answer is over
  (`Found`), and what is pending is an event that has not ended (`PendingEvents`). A mix-up
  is never undone, so all of it is under `~mixed`.
* `BrowsersUpToDate`, from `Sockets`: `Fits` relates what is left of the history, the broadcasts
  under way and what the browser shows to the log, a browser full of other events
  included (`Rest` is what `addEvent` leaves of what was shown). It is a predicate over values,
  so that `FitsConnect`, `FitsHistory`, `FitsLive` and `FitsBroadcast` say once what each kind
  of step does to it, whichever handler takes the step. Its core is `Current`: of several
  broadcasts of an event under way, the last has its status, so that the order of a
  socket's queue is what makes the browser agree in the end.

`PanelProofs.tla`, for every database that is `WellFormed`, any size of rows and runs, pages of
at least two lines, and any addresses the user enters:

* From the bottom. `Induction` is over a set of naturals, from the well-foundedness of
  the naturals; with it `LoopInvariant` and `LoopEnds` are proof rules for `Loop`: an
  invariant, a variant, a bound on its values. `NextSegment`, `NextHead`, `PreviousHead`
  and others say what IDA's lookups find in a database.
* `HexForwardInv`, `HexBackwardInv`, `LinearForwardInv` and `LinearBackwardInv` are the
  invariants of the four loops that list lines. A variant for each gives `PagesEndAlways`:
  every loop is over after at most `Turns` turns, from any address of any database, odd
  segments included.
* From them come two contracts that hide which view is shown. `Ahead(page, a)`: for some
  address beyond `a` the page has all there is to see from `a` up to it, in order, and
  nothing else; and where all is known, `has_more` tells whether anything follows. `Behind`
  is the same for a backward page, which has the line at `a` again. Where bytes are
  unexplored, a page may also have lines for those, which no item claims.
* `ForwardStretch`, `BackwardStretch` and `JumpStretch` put such pages together: appended,
  prepended and filtered (`FreshIs`), lines that cover what lies between two addresses
  cover what lies between two others.
* `StretchInvariant` is then the inductive invariant `PanelInv`, of which `Orderly` is the
  core: at most one call is in flight, `loading` is set as long as it is, and it was asked
  for exactly the end of what is shown now. This is what a jump made while a call is in
  flight destroys, so it is under `~raced`; and for the hex view it needs segments made of
  rows (`Served`), since `hex_view` going backward skips a partial row (section 8).
  `StretchHolds` and `HeadsStay` follow.
* `ForwardHolds` follows from `HexForwardInv` without that restriction. `OverviewHolds` has
  its own invariant, `ScanInv`: the regions so far, with the one that is open, tile what
  the scan has passed.
* `TypeCorrect`, races included.

All type invariants are proved for all values of the constants and therefore in no run.
The assumptions on constants are all named `ASSUME`s of the modules, which TLC evaluates
in the runs.

Only model-checked: liveness, as the prover has no ENABLED. All the invariants and the
action properties of the runs, and the refinements of `TaskQueue` and `WorkerPort`, are
proved.

## 8. Known disagreements

Where the code does not do what its comments or documents say, or what one would
expect of it. A name in parentheses is a definition in the module that states the
expectation; it fails when it is added to the run's configuration.

* An answer that nobody waits for any more is taken by the next command (`OwnAnswer`, run
  `project_own_answer`).
* A cancellation while the database is being opened loses the worker, and the next
  command starts a second one: `project.py:162` says 1:1 (`OneWorker`).
* After `close_database` the worker goes on: a queued command still reaches it, where
  `project.py:165` says it exits (`NothingAfterClose`).
* `can_spawn` and `on_spawned` are an await apart, so `hard_limit` can be exceeded
  (`HardLimitKept`); a CancelledError ends the auto-save loop (`AutoSaveRuns`);
  `close_project` of a project that is opening its worker leaves that worker
  (`ClosedHasNoWorker`).
* A save that hangs stops auto-save for good (`SavesEndAnyway`): it has no time limit.
* A signal that strikes outside dispatch's `try` takes the worker and its unsaved
  database along, where the README calls cancellation graceful (`CancelIsGraceful`), and
  so does `sys.exit()` in `execute_python`. So do an answer that orjson cannot encode and
  a server that is gone, for `io.send` is outside any `try`.
* A signal handled before `cancel.reset()` is forgotten, and its command goes on until the
  watchdog's time is over (`CancelIsNeverForgotten`).
* A cancellation that strikes while `execute_python` restores `sys.stdout` leaves it
  redirected, and scripts that come later put the leftover buffer back
  (`StdoutComesBack`).
* `handle_save_database` does not look at what `save_database` returns
  (`worker/handlers/session.py:90`), nor `_ensure_worker` at the answer of the first save
  (`project.py:398`): a save that wrote nothing is answered as done (`AnsweredIsSaved`).
* `set_database` under a living worker: a save then packs the old database under the
  path of the new one (`FilesHoldTheirOwn`).
* The counter of outputs starts again with the server, so a URL from before a restart
  may name another output (`UrlNamesItsTextAlways`).
* The end of the session that made the state takes it from the others: their tools
  then fail with "not started" (`SessionsHaveState`, without the Web UI).
* A signal during the startup of the Web UI finds no state, and the one made afterwards is shut
  down by nobody; nor is one that a session makes while the server stops, if the 5 s cut its
  owner's `shutdown()` (`NothingLeftOpen`).
* Of a batch of tool calls only the last event ends; calls whose captures or ids mix
  up end each other's events or none (`EndsWithItsCallAlways`); an event of the history sent
  after the broadcast of its end is shown pending for ever (`ShownAsItIs`).
* Nobody gives an event a kind other than "read", so the overview is never scanned
  again, and the browser's cache never invalidated (`OverviewCatchesUp`, which is for
  `FairSpec`).
* Backward, `hex_view` skips the last partial row of a segment (`BackwardCovers`). A jump
  made while a page is in flight lets that page into the new view.
* Lists nested in a result are cut without an output URL (`output.py:199`).
* `set_type` of a local variable answers with the new type, and so its description and
  `test_worker_real.py:1205` have it, but it changes the decompiler's copy only
  (`types/handlers.py:163`, `LocalTypesAreSet`).
* `define_type` reports types that were there before, with their old definition when the new
  one was not taken, where `types/metadata.py:45` says that re-declaring a type updates it
  (`ReportedIsDeclared`); and it can report "0 types defined" and have defined some
  (`ErrorDefinesNothing`).
* A write tool that fails leaves an undo point, so the next undo undoes nothing; what
  `execute_python` changes is undone together with the write before it.

## 9. Not modelled

IDA itself is external throughout. Not modelled:

* the handlers that only query (`core/analysis`, `search`, `listing` and the like): sequential
  reads that format what IDA returns, with no state of the program's own;
* the survey of `open_database`: a command like others, whose result is only passed on;
* plugin discovery and the registration of tools: start-up code, a function of a folder;
* upload and download of files, the authentication wrapper, command-line parsing, JSON
  encoding: stateless conversions;
* the browser's reconnection of a lost WebSocket (a socket is a browser's one connection), a
  server that cannot bind its port;
* `viewStore.ts` and `projectStore.ts`, and the rendering of the web client.
