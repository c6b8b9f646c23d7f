------------------------------- MODULE Database -------------------------------
(***************************************************************************)
(* The database files of one project: which database it is bound to        *)
(* (Project.set_database, open_path), what its worker opens and saves      *)
(* (worker/handlers/session.py), and what a crash leaves on disk.          *)
(*                                                                         *)
(* A database d has a packed file (d.i64) and, while IDA has it open and   *)
(* after a crash, component files (d.id0, ...).  Its content is the name   *)
(* of the binary it describes and the number of edits.  IDA itself is      *)
(* external: a file is written or, when IDA refuses, left as it was, and   *)
(* reading components that a crash left behind gives what was last flushed *)
(* to them, or fails.                                                      *)
(* The commands of the project run one at a time, in order: ProjectExec.   *)
(***************************************************************************)
EXTENDS Naturals, Sequences

CONSTANTS
  Db,         \* binaries, each with its database beside it
  None,       \* no path, no file
  MaxEdits,   \* bound on the edits of a database
  MaxQueue    \* bound on the commands that are waiting

ASSUME DbAssumption    == None \notin Db
ASSUME BoundAssumption == MaxEdits \in Nat /\ MaxQueue \in Nat

Content == [of : Db, edits : 0..MaxEdits]
Job     == [do : {"ping", "edit", "save", "close"}, path : Db \cup {None}]

VARIABLES
  exe, idb,   \* Project.exe_path, Project.idb_path
  queue,      \* the commands that wait for the worker, the first one served
  worker,     \* none, spawning, opening, opened (the answer is on its way),
              \* flushing, packing (a save) or up
  killing,    \* close_database has its answer and will kill the worker
  file, mem,  \* in the worker: the database it has open, and its content
  savePath,   \* the idb_path of the save it is at
  packed, parts,   \* [Db]: the files on disk
  asked,      \* history: the last open_database
  kept,       \* history, [Db]: edits in the last save that IDA refused no part of;
              \* forgotten once the project was switched
  switched    \* history: see Switches

workerVars == <<worker, killing, file, mem, savePath>>
diskVars   == <<packed, parts>>
vars == <<exe, idb, queue, workerVars, diskVars, asked, kept, switched>>

Init ==
  /\ exe = None /\ idb = None /\ queue = << >>
  /\ worker = "none" /\ killing = FALSE
  /\ file = None /\ mem = None /\ savePath = None
  /\ packed = [d \in Db |-> None] /\ parts = [d \in Db |-> None]
  /\ asked = None /\ kept = [d \in Db |-> 0] /\ switched = FALSE

\* Project.open_path
open_path == IF idb # None /\ packed[idb] # None THEN idb ELSE exe

-----------------------------------------------------------------------------
(* Clients. *)

Queue(do, path) ==
  /\ Len(queue) < MaxQueue
  /\ queue' = Append(queue, [do |-> do, path |-> path])

\* Another database is bound while a worker has one open, or a save of one waits.
Switches(d) ==
  \/ worker # "none" /\ asked # d
  \/ \E i \in 1..Len(queue) : queue[i].do = "save" /\ queue[i].path # d

\* Faulty variant: a binary is bound, and the old idb_path stays.
OpenDatabase_KeepsIdb(d) ==
  /\ \/ exe' = d /\ idb' = IF idb = None THEN d ELSE idb
     \/ exe' = None /\ idb' = d
  /\ asked'    = d
  /\ switched' = (switched \/ Switches(d))
  /\ kept' = IF switched' THEN [e \in Db |-> 0] ELSE kept
  /\ Queue("ping", None)
  /\ UNCHANGED <<workerVars, diskVars>>

\* open_database: set_database with a binary or with an IDB, then a Ping.
OpenDatabase(d) ==
  /\ \/ exe' = d
     \/ exe' = None
  /\ idb'      = d
  /\ asked'    = d
  /\ switched' = (switched \/ Switches(d))
  /\ kept' = IF switched' THEN [e \in Db |-> 0] ELSE kept
  /\ Queue("ping", None)
  /\ UNCHANGED <<workerVars, diskVars>>

\* A tool that writes.
Edit == Queue("edit", None) /\ UNCHANGED <<exe, idb, workerVars, diskVars, asked, kept, switched>>

\* The auto-save loop and Project.save: idb_path is read now.
Save ==
  /\ worker \in {"up", "flushing", "packing"} /\ idb # None
  /\ Queue("save", idb)
  /\ UNCHANGED <<exe, idb, workerVars, diskVars, asked, kept, switched>>

\* close_database, if there is a worker
CloseDatabase ==
  /\ worker \in {"up", "flushing", "packing"}
  /\ Queue("close", None)
  /\ UNCHANGED <<exe, idb, workerVars, diskVars, asked, kept, switched>>

-----------------------------------------------------------------------------
(* _ensure_worker, for the first command of the queue. *)

Idle    == UNCHANGED <<exe, idb, asked, kept, switched>>
Gone    == worker' = "none" /\ file' = None /\ mem' = None /\ savePath' = None
NextJob == queue # << >> /\ queue' = Tail(queue)

\* "No database opened"
Refuse ==
  /\ worker = "none" /\ open_path = None /\ NextJob
  /\ Idle /\ UNCHANGED <<workerVars, diskVars>>

Spawn ==
  /\ worker = "none" /\ queue # << >> /\ open_path # None
  /\ worker' = "spawning"
  /\ Idle /\ UNCHANGED <<queue, killing, file, mem, savePath, diskVars>>

\* The process is up: OpenDatabase(path=open_path), the path of this moment.
SendOpen ==
  /\ worker = "spawning"
  /\ worker' = "opening" /\ file' = open_path
  /\ Idle /\ UNCHANGED <<queue, killing, mem, savePath, diskVars>>

\* idapro.open_database of the packed file, or of the binary.
Fresh(d) == IF packed[d] # None THEN packed[d] ELSE [of |-> d, edits |-> 0]

\* Faulty variant: component files left behind are deleted and rebuilt from the
\* binary.
WorkerOpens_FromBinary ==
  /\ worker = "opening" /\ file # None
  /\ worker' = "opened"
  /\ mem' = IF parts[file] # None THEN [of |-> file, edits |-> 0] ELSE Fresh(file)
  /\ parts' = [parts EXCEPT ![file] = mem']
  /\ Idle /\ UNCHANGED <<queue, killing, file, savePath, packed>>

\* handle_open_database.  IDA goes on from component files if there are any; if
\* that fails they are removed and the last packed file is opened.
WorkerOpens ==
  /\ worker = "opening" /\ file # None
  /\ worker' = "opened"
  /\ mem' \in {Fresh(file)} \cup ({parts[file]} \ {None})
  /\ parts' = [parts EXCEPT ![file] = mem']
  /\ Idle /\ UNCHANGED <<queue, killing, file, savePath, packed>>

\* The answer: idb_path becomes what IDA says, and the first save is sent.
OpenReply ==
  /\ worker = "opened"
  /\ idb' = file
  /\ worker' = "flushing" /\ savePath' = file
  /\ UNCHANGED <<exe, queue, killing, file, mem, diskVars, asked, kept, switched>>

\* The process does not start, the path has become None, or open_database fails,
\* its second attempt included: the worker is killed, and the command fails.
OpenFails ==
  /\ worker \in {"spawning", "opening"}
  /\ Gone /\ NextJob
  /\ \/ UNCHANGED parts
     \/ file # None /\ parts' = [parts EXCEPT ![file] = None]
  /\ Idle /\ UNCHANGED <<killing, packed>>

-----------------------------------------------------------------------------
(* handle_save_database *)

\* What save_database answers is not looked at: a save is done, whatever was written.

\* save_database(""): into the component files ...
Flush ==
  /\ worker = "flushing"
  /\ worker' = "packing"
  /\ \/ UNCHANGED parts
     \/ mem # None /\ parts' = [parts EXCEPT ![file] = mem]
  /\ Idle /\ UNCHANGED <<queue, killing, file, mem, savePath, packed>>

\* The history of a save, of which IDA has taken all writes or not.
Saved(whole) == kept' = IF whole /\ ~switched THEN [kept EXCEPT ![file] = mem.edits] ELSE kept

\* Faulty variant: the component files are enough.
Pack_Skipped ==
  /\ worker = "packing"
  /\ worker' = "up" /\ savePath' = None
  /\ Saved(mem # None /\ parts[file] = mem)
  /\ UNCHANGED <<exe, idb, queue, killing, file, mem, diskVars, asked, switched>>

\* ... then, packed, into idb_path.
Pack ==
  /\ worker = "packing"
  /\ worker' = "up" /\ savePath' = None
  /\ \/ UNCHANGED packed /\ Saved(FALSE)
     \/ /\ mem # None
        /\ packed' = [packed EXCEPT ![savePath] = mem]
        /\ Saved(parts[file] = mem)
  /\ UNCHANGED <<exe, idb, queue, killing, file, mem, parts, asked, switched>>

-----------------------------------------------------------------------------
(* The other commands. *)

Serve(do) == worker = "up" /\ NextJob /\ Head(queue).do = do

ServePing == Serve("ping") /\ Idle /\ UNCHANGED <<workerVars, diskVars>>

\* Without a database it fails.
ServeEdit ==
  /\ Serve("edit")
  /\ mem' = IF mem = None \/ mem.edits = MaxEdits THEN mem ELSE [mem EXCEPT !.edits = @ + 1]
  /\ Idle /\ UNCHANGED <<worker, killing, file, savePath, diskVars>>

ServeSave ==
  /\ Serve("save")
  /\ worker' = "flushing" /\ savePath' = Head(queue).path
  /\ Idle /\ UNCHANGED <<killing, file, mem, diskVars>>

\* idapro.close_database(save=True): packed beside the binary, components removed.  If
\* IDA cannot pack it, the components are left or not.
Closed ==
  /\ file' = None /\ mem' = None
  /\ \/ mem = None /\ UNCHANGED diskVars /\ Saved(FALSE)
     \/ /\ mem # None
        /\ packed' = [packed EXCEPT ![file] = mem] /\ parts' = [parts EXCEPT ![file] = None]
        /\ Saved(TRUE)
     \/ /\ mem # None
        /\ UNCHANGED packed /\ parts' \in {parts, [parts EXCEPT ![file] = None]}
        /\ Saved(FALSE)

\* handle_close_database
ServeClose ==
  /\ Serve("close") /\ Closed
  /\ killing' = TRUE
  /\ UNCHANGED <<exe, idb, worker, savePath, asked, switched>>

\* close_database resumes and kills the worker, at whatever command it is by now.
KillClosed ==
  /\ killing
  /\ killing' = FALSE
  /\ Gone
  /\ queue' = IF worker \in {"none", "up"} \/ queue = << >> THEN queue ELSE Tail(queue)
  /\ Idle /\ UNCHANGED diskVars

\* The worker dies, or is killed (force_close, the watchdog), in a command or not.
Crash ==
  /\ worker # "none"
  /\ Gone
  /\ \/ worker \in {"up", "flushing", "packing"} /\ UNCHANGED queue
     \/ NextJob
  /\ Idle /\ UNCHANGED <<killing, diskVars>>

\* The server stops: the worker reads the end of the file and closes its database.
\* The project it recovers later is bound to none.
ServerStops ==
  /\ worker \in {"none", "up"}
  /\ worker' = "none" /\ savePath' = None /\ killing' = FALSE /\ Closed
  /\ exe' = None /\ idb' = None /\ queue' = << >>
  /\ UNCHANGED <<asked, switched>>

-----------------------------------------------------------------------------
Client == Edit \/ Save \/ CloseDatabase \/ \E d \in Db : OpenDatabase(d)
Ensure == Refuse \/ Spawn \/ SendOpen \/ WorkerOpens \/ OpenReply \/ OpenFails
Work   == Flush \/ Pack \/ ServePing \/ ServeEdit \/ ServeSave \/ ServeClose
Next   == Client \/ Ensure \/ Work \/ KillClosed \/ Crash \/ ServerStops

Spec == Init /\ [][Next]_vars

-----------------------------------------------------------------------------
(* Properties. *)

\* Every variable has its type.
TypeOK ==
  /\ exe \in Db \cup {None} /\ idb \in Db \cup {None} /\ asked \in Db \cup {None}
  /\ queue \in Seq(Job)
  /\ worker \in {"none", "spawning", "opening", "opened", "flushing", "packing", "up"}
  /\ file \in Db \cup {None} /\ savePath \in Db \cup {None}
  /\ mem \in Content \cup {None}
  /\ packed \in [Db -> Content \cup {None}] /\ parts \in [Db -> Content \cup {None}]
  /\ kept \in [Db -> 0..MaxEdits]
  /\ killing \in BOOLEAN /\ switched \in BOOLEAN

Holds(c, d, edits) == c # None /\ c.of = d /\ c.edits >= edits

\* What a save has written whole is in the packed file, whatever crashed since and
\* whatever IDA refused to write in later saves: the recovery can fall back on it.
\* (Unless the project was switched, when the old database is saved under the path of
\* the new one, or the other way round.)
SavedIsPacked ==
  ~switched => \A d \in Db : kept[d] > 0 => Holds(packed[d], d, kept[d])

\* A worker never works on less than what was saved whole, whichever files it was
\* recovered from: component files may be stale after a refused write, but never that
\* stale.
NothingSavedIsLost == ~switched /\ mem # None => Holds(mem, file, kept[file])

\* The open database is the one that was asked for last.
OpensWhatWasAsked == ~switched /\ mem # None => file = asked

\* What the answer of a save says, and the code does not ensure: the open database is
\* in the packed file.
AnsweredIsSaved ==
  [][worker = "packing" /\ worker' = "up" /\ mem # None => packed'[savePath] = mem]_vars

\* What one would expect of any save: a packed file holds the database it is named for.
FilesHoldTheirOwn == \A d \in Db : packed[d] # None => packed[d].of = d
=============================================================================
