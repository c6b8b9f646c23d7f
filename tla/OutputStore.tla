----------------------------- MODULE OutputStore -----------------------------
(***************************************************************************)
(* The originals of truncated tool results: server/output.py with the      *)
(* parts of AppState and of the tool wrapper that drive it.  Several       *)
(* server processes, one after the other (a restart) or side by side (local *)
(* mode, in one directory), keep their files in the same directories, but  *)
(* each has an index and a counter of its own.                             *)
(***************************************************************************)
EXTENDS Naturals, Sequences

CONSTANTS
  Server,      \* server processes
  Project,     \* project ids
  MaxOutputs,  \* _max_outputs: output_max_per_project
  Local,       \* local mode: existing directories are not recovered
  MaxMade      \* bound on the outputs made in all

ASSUME LimitAssumption == MaxOutputs \in Nat \ {0} /\ MaxMade \in Nat /\ Local \in BOOLEAN

Id   == 1..MaxMade      \* out-000001, ...
Text == 1..MaxMade      \* a result: each is a different one
Nothing == 0
Output == [id : Id, text : Text]

VARIABLES
  up,       \* [Server]: "new", "up" or "down"
  counter,  \* [Server]: the next id, module global
  open,     \* [Server]: AppState.projects
  index,    \* [Server][Project]: OutputStore._index, ids in order of insertion
  dirs,     \* the projects that have a directory
  disk,     \* [Project][Id]: the text of the output file, or Nothing
  made,     \* number of outputs made
  handed,   \* history, [Server][Project]: the outputs whose URL a client was
            \* given, in order
  current,  \* history, [Server][Project]: how many of these are from before the
            \* project was last closed
  writers   \* history, [Project]: the servers that have written or removed files of it

vars == <<up, counter, open, index, dirs, disk, made, handed, current, writers>>

Init ==
  /\ up      = [s \in Server |-> "new"]
  /\ counter = [s \in Server |-> 1]
  /\ open    = [s \in Server |-> {}]
  /\ index   = [s \in Server |-> [p \in Project |-> << >>]]
  /\ dirs    = {}
  /\ disk    = [p \in Project |-> [i \in Id |-> Nothing]]
  /\ made    = 0
  /\ handed  = [s \in Server |-> [p \in Project |-> << >>]]
  /\ current = [s \in Server |-> [p \in Project |-> 0]]
  /\ writers = [p \in Project |-> {}]

Elements(q) == {q[i] : i \in 1..Len(q)}

\* A project's files without those of the ids in gone; one that is not there is
\* no error.
Removed(files, gone) == [i \in Id |-> IF i \in gone THEN Nothing ELSE files[i]]

-----------------------------------------------------------------------------
\* AppState.start, _recover_projects
Start(s) ==
  /\ up[s] = "new"
  /\ up'   = [up EXCEPT ![s] = "up"]
  /\ open' = [open EXCEPT ![s] = IF Local THEN {} ELSE dirs]
  /\ UNCHANGED <<counter, index, dirs, disk, made, handed, current, writers>>

\* AppState.open_project
OpenProject(s, p) ==
  /\ up[s] = "up" /\ p \notin open[s]
  /\ open' = [open EXCEPT ![s] = @ \cup {p}]
  /\ dirs' = dirs \cup {p}
  /\ UNCHANGED <<up, counter, index, disk, made, handed, current, writers>>

\* Faulty variant: the newest entry is evicted.
Evict_Newest(ids) ==
  IF Len(ids) <= MaxOutputs THEN [kept |-> ids, gone |-> {}]
  ELSE [kept |-> SubSeq(ids, 1, MaxOutputs),
        gone |-> Elements(SubSeq(ids, MaxOutputs + 1, Len(ids)))]

\* Faulty variant: the files of evicted entries stay.
Evict_Forgets(ids) ==
  IF Len(ids) <= MaxOutputs THEN [kept |-> ids, gone |-> {}]
  ELSE [kept |-> SubSeq(ids, Len(ids) - MaxOutputs + 1, Len(ids)), gone |-> {}]

\* _evict: the oldest entries go, with their files, until the bucket fits.
Evict(ids) ==
  LET n == Len(ids) - MaxOutputs IN
  IF n <= 0 THEN [kept |-> ids, gone |-> {}]
  ELSE [kept |-> SubSeq(ids, n + 1, Len(ids)), gone |-> Elements(SubSeq(ids, 1, n))]

\* next(_counter)
NextId(s, p) == counter[s]

\* A tool's result is too long: _save_full_json, and the client gets the URL.  The
\* result of a project that has been closed meanwhile is passed on as it is.
Process(s, p) ==
  LET id == NextId(s, p)  bucket == Evict(Append(index[s][p], id)) IN
  /\ up[s] = "up" /\ p \in open[s] /\ made < MaxMade
  /\ made'    = made + 1
  /\ counter' = [counter EXCEPT ![s] = @ + 1]
  /\ index'   = [index EXCEPT ![s][p] = bucket.kept]
  /\ disk'    = [disk EXCEPT ![p] = Removed([@ EXCEPT ![id] = made'], bucket.gone)]
  /\ handed'  = [handed EXCEPT ![s][p] = Append(@, [id |-> id, text |-> made'])]
  /\ writers' = [writers EXCEPT ![p] = @ \cup {s}]
  /\ dirs'    = dirs \cup {p}
  /\ UNCHANGED <<up, open, current>>

\* AppState.close_project, after its awaits: discard_project, then the directory
\* is removed, other servers' files included.
CloseProject(s, p) ==
  /\ up[s] = "up" /\ p \in open[s]
  /\ open'    = [open EXCEPT ![s] = @ \ {p}]
  /\ index'   = [index EXCEPT ![s][p] = << >>]
  /\ dirs'    = dirs \ {p}
  /\ disk'    = [disk EXCEPT ![p] = [i \in Id |-> Nothing]]
  /\ current' = [current EXCEPT ![s][p] = Len(handed[s][p])]
  /\ writers' = [writers EXCEPT ![p] = @ \cup {s}]
  /\ UNCHANGED <<up, counter, made, handed>>

\* AppState.shutdown: discard_project of every project; directories stay.
Shutdown(s) ==
  /\ up[s] = "up"
  /\ up'    = [up EXCEPT ![s] = "down"]
  /\ open'  = [open EXCEPT ![s] = {}]
  /\ index' = [index EXCEPT ![s] = [p \in Project |-> << >>]]
  /\ disk'  = [p \in Project |->
                 IF p \in open[s] THEN Removed(disk[p], Elements(index[s][p])) ELSE disk[p]]
  /\ UNCHANGED <<counter, dirs, made, handed, current, writers>>

\* The process is killed: its files stay.
Crash(s) ==
  /\ up[s] = "up"
  /\ up'    = [up EXCEPT ![s] = "down"]
  /\ open'  = [open EXCEPT ![s] = {}]
  /\ index' = [index EXCEPT ![s] = [p \in Project |-> << >>]]
  /\ UNCHANGED <<counter, dirs, disk, made, handed, current, writers>>

Next ==
  \/ \E s \in Server : Start(s) \/ Shutdown(s) \/ Crash(s)
  \/ \E s \in Server, p \in Project : OpenProject(s, p) \/ Process(s, p) \/ CloseProject(s, p)

Spec == Init /\ [][Next]_vars

-----------------------------------------------------------------------------
(* Properties. *)

\* Every variable has its type.
TypeOK ==
  /\ up      \in [Server -> {"new", "up", "down"}]
  /\ counter \in [Server -> 1..(MaxMade + 1)]
  /\ open    \in [Server -> SUBSET Project]
  /\ index   \in [Server -> [Project -> Seq(Id)]]
  /\ dirs    \in SUBSET Project
  /\ disk    \in [Project -> [Id -> Text \cup {Nothing}]]
  /\ made    \in 0..MaxMade
  /\ handed  \in [Server -> [Project -> Seq(Output)]]
  /\ current \in [Server -> [Project -> Nat]]
  /\ writers \in [Project -> SUBSET Server]

OneWriter(p) == \A s, t \in writers[p] : s = t

\* What a client finds under a URL it was given is the result it was given it for,
\* or nothing, as long as no second server has handled the project's files.
UrlNamesItsText ==
  \A s \in Server, p \in Project :
    OneWriter(p) => \A o \in Elements(handed[s][p]) : disk[p][o.id] \in {o.text, Nothing}

\* The newest MaxOutputs results of an open project can be downloaded.
NewestKept ==
  \A s \in Server, p \in Project :
    p \in open[s] /\ OneWriter(p) =>
      \A i \in (current[s][p] + 1)..Len(handed[s][p]) :
        i > Len(handed[s][p]) - MaxOutputs =>
          disk[p][handed[s][p][i].id] = handed[s][p][i].text

\* A server that is up keeps no file of its own that its index has lost: what is on
\* disk of the only writer is indexed, hence bounded, and goes with the project.
NoOrphans ==
  \A s \in Server, p \in Project :
    up[s] = "up" /\ writers[p] = {s} =>
      /\ {i \in Id : disk[p][i] # Nothing} = Elements(index[s][p])
      /\ Len(index[s][p]) <= MaxOutputs

\* An output's URL names that output also after a restart, which the code does not
\* ensure: the counter starts again, and files of a crashed server are recovered.
UrlNamesItsTextAlways ==
  \A s \in Server, p \in Project :
    \A o \in Elements(handed[s][p]) : disk[p][o.id] \in {o.text, Nothing}
=============================================================================
