---------------------------- MODULE DatabaseProofs ----------------------------
(***************************************************************************)
(* Proofs about Database, for any databases and bounds: types, and that    *)
(* nothing that was saved is lost and the right database is opened, as     *)
(* long as the project is not bound to another one under way.              *)
(***************************************************************************)
EXTENDS Database, SequenceTheorems, TLAPS

-----------------------------------------------------------------------------
(* Types. *)

\* What a command adds to the queue, and what is left when one is served.
LEMMA QueueTyped ==
  ASSUME TypeOK, NEW do \in {"ping", "edit", "save", "close"}, NEW path \in Db \cup {None},
         Queue(do, path)
  PROVE  queue' \in Seq(Job)
<1>1. [do |-> do, path |-> path] \in Job
  BY DEF Job
<1> QED
  BY <1>1, AppendProperties DEF Queue, TypeOK

LEMMA RestTyped ==
  ASSUME TypeOK, queue # << >>
  PROVE  /\ Tail(queue) \in Seq(Job) /\ Head(queue) \in Job
         /\ Len(queue) \in Nat /\ Head(queue) = queue[1] /\ 1 \in 1..Len(queue)
         /\ \A i \in 1..Len(Tail(queue)) :
              i + 1 \in 1..Len(queue) /\ Tail(queue)[i] = queue[i + 1]
<1>1. queue \in Seq(Job)
  BY DEF TypeOK
<1>2. Len(queue) \in Nat /\ Len(Tail(queue)) = Len(queue) - 1
  BY <1>1
<1> QED
  BY <1>1, <1>2, HeadTailProperties, ElementOfSeq

LEMMA FreshTyped ==
  ASSUME TypeOK, NEW d \in Db
  PROVE  Fresh(d) \in Content
BY BoundAssumption DEF TypeOK, Fresh, Content

\* What the worker has in memory belongs to a file, and only a worker that has opened
\* one has it.
Loaded ==
  /\ worker = "none" => file = None /\ mem = None /\ savePath = None
  /\ worker \in {"spawning", "opening"} => mem = None
  /\ worker = "opened" => file # None
  /\ mem # None => file # None

Typed == TypeOK /\ Loaded

LEMMA ClosedTyped ==
  ASSUME Typed, Closed
  PROVE  /\ file' = None /\ mem' = None
         /\ packed' \in [Db -> Content \cup {None}] /\ parts' \in [Db -> Content \cup {None}]
         /\ kept' \in [Db -> 0..MaxEdits]
<1>1. mem # None => mem \in Content /\ mem.edits \in 0..MaxEdits /\ file \in Db
  BY DEF Typed, TypeOK, Loaded, Content
<1>2. file' = None /\ mem' = None
  BY DEF Closed
<1>3. kept' \in [Db -> 0..MaxEdits]
  BY <1>1 DEF Closed, Saved, Typed, TypeOK
<1>4. packed' \in [Db -> Content \cup {None}] /\ parts' \in [Db -> Content \cup {None}]
  BY <1>1 DEF Closed, diskVars, Typed, TypeOK
<1> QED
  BY <1>2, <1>3, <1>4

LEMMA InitTyped == Init => Typed
<1> SUFFICES ASSUME Init PROVE Typed
  OBVIOUS
<1>1. kept \in [Db -> 0..MaxEdits]
  BY BoundAssumption DEF Init
<1>2. queue \in Seq(Job)
  BY DEF Init
<1> QED
  BY <1>1, <1>2 DEF Init, Typed, TypeOK, Loaded

LEMMA ClientTyped == Typed /\ Client => Typed'
<1> SUFFICES ASSUME Typed, Client PROVE Typed'
  OBVIOUS
<1>1. CASE Edit
  <2>1. queue' \in Seq(Job)
    BY <1>1, QueueTyped DEF Edit, Typed
  <2> QED
    BY <1>1, <2>1 DEF Edit, Typed, TypeOK, Loaded, workerVars, diskVars
<1>2. CASE Save
  <2>1. queue' \in Seq(Job)
    BY <1>2, QueueTyped DEF Save, Typed, TypeOK
  <2> QED
    BY <1>2, <2>1 DEF Save, Typed, TypeOK, Loaded, workerVars, diskVars
<1>3. CASE CloseDatabase
  <2>1. queue' \in Seq(Job)
    BY <1>3, QueueTyped DEF CloseDatabase, Typed
  <2> QED
    BY <1>3, <2>1 DEF CloseDatabase, Typed, TypeOK, Loaded, workerVars, diskVars
<1>4. ASSUME NEW d \in Db, OpenDatabase(d) PROVE Typed'
  <2>1. queue' \in Seq(Job)
    BY <1>4, QueueTyped DEF OpenDatabase, Typed
  <2>2. switched' \in BOOLEAN
    BY <1>4 DEF OpenDatabase, Typed, TypeOK
  <2>3. exe' \in Db \cup {None} /\ idb' \in Db \cup {None} /\ asked' \in Db \cup {None}
    BY <1>4 DEF OpenDatabase
  <2>4. kept' \in [Db -> 0..MaxEdits]
    BY <1>4, BoundAssumption DEF OpenDatabase, Typed, TypeOK
  <2> QED
    BY <1>4, <2>1, <2>2, <2>3, <2>4 DEF OpenDatabase, Typed, TypeOK, Loaded, workerVars, diskVars
<1> QED
  BY <1>1, <1>2, <1>3, <1>4 DEF Client

LEMMA EnsureTyped == Typed /\ Ensure => Typed'
<1> SUFFICES ASSUME Typed, Ensure PROVE Typed'
  OBVIOUS
<1> USE DEF Typed, TypeOK, Loaded, Idle, diskVars
<1>1. NextJob => queue' \in Seq(Job)
  BY RestTyped DEF NextJob
<1>2. CASE Refuse
  BY <1>1, <1>2 DEF Refuse, workerVars
<1>3. CASE Spawn
  BY <1>3 DEF Spawn
<1>4. CASE SendOpen
  BY <1>4 DEF SendOpen, open_path
<1>5. CASE WorkerOpens
  <2>1. file \in Db /\ mem' \in Content
    <3>1. file \in Db /\ Fresh(file) \in Content
      BY <1>5, FreshTyped DEF WorkerOpens
    <3>2. mem' \in Content
      BY <1>5, <3>1 DEF WorkerOpens
    <3> QED
      BY <3>1, <3>2
  <2>2. parts' \in [Db -> Content \cup {None}]
    BY <1>5, <2>1 DEF WorkerOpens
  <2> QED
    BY <1>5, <2>1, <2>2 DEF WorkerOpens
<1>6. CASE OpenReply
  BY <1>6 DEF OpenReply
<1>7. CASE OpenFails
  <2>1. parts' \in [Db -> Content \cup {None}]
    BY <1>7 DEF OpenFails
  <2> QED
    BY <1>1, <1>7, <2>1 DEF OpenFails, Gone
<1> QED
  BY <1>2, <1>3, <1>4, <1>5, <1>6, <1>7 DEF Ensure

LEMMA WorkTyped == Typed /\ (Work \/ KillClosed \/ Crash \/ ServerStops) => Typed'
<1> SUFFICES ASSUME Typed, Work \/ KillClosed \/ Crash \/ ServerStops PROVE Typed'
  OBVIOUS
<1>1. NextJob => queue' \in Seq(Job) /\ Head(queue) \in Job
  BY RestTyped DEF NextJob, Typed
<1>2. mem # None => mem \in Content /\ mem.edits \in 0..MaxEdits /\ file \in Db
  BY DEF Typed, TypeOK, Loaded, Content
<1>3. Closed => /\ file' = None /\ mem' = None
                /\ packed' \in [Db -> Content \cup {None}] /\ parts' \in [Db -> Content \cup {None}]
                /\ kept' \in [Db -> 0..MaxEdits]
  BY ClosedTyped
<1> USE DEF Typed, TypeOK, Loaded, Idle, diskVars
<1>4. CASE Flush
  <2>1. parts' \in [Db -> Content \cup {None}]
    BY <1>2, <1>4 DEF Flush
  <2> QED
    BY <1>4, <2>1 DEF Flush
<1>5. CASE Pack
  <2>1. packed' \in [Db -> Content \cup {None}] /\ kept' \in [Db -> 0..MaxEdits]
    BY <1>2, <1>5 DEF Pack, Saved
  <2> QED
    BY <1>5, <2>1 DEF Pack
<1>6. CASE ServePing
  BY <1>1, <1>6 DEF ServePing, Serve, workerVars
<1>7. CASE ServeEdit
  <2>1. mem' \in Content \cup {None} /\ (mem' # None => mem # None)
    <3>1. ASSUME mem # None, mem.edits # MaxEdits PROVE [mem EXCEPT !.edits = @ + 1] \in Content
      <4>1. mem \in Content /\ mem.edits + 1 \in 0..MaxEdits
        BY <1>2, <3>1, BoundAssumption
      <4> QED
        BY <4>1 DEF Content
    <3> QED
      BY <1>7, <3>1 DEF ServeEdit
  <2> QED
    BY <1>1, <1>7, <2>1 DEF ServeEdit, Serve
<1>8. CASE ServeSave
  <2>1. savePath' \in Db \cup {None}
    BY <1>1, <1>8 DEF ServeSave, Serve, Job
  <2> QED
    BY <1>1, <1>8, <2>1 DEF ServeSave, Serve
<1>9. CASE ServeClose
  BY <1>1, <1>3, <1>9 DEF ServeClose, Serve
<1>10. CASE KillClosed
  <2>1. queue' \in Seq(Job)
    BY <1>10, RestTyped DEF KillClosed
  <2> QED
    BY <1>10, <2>1 DEF KillClosed, Gone
<1>11. CASE Crash
  BY <1>1, <1>11 DEF Crash, Gone
<1>12. CASE ServerStops
  <2>1. queue' \in Seq(Job)
    BY <1>12 DEF ServerStops
  <2> QED
    BY <1>3, <1>12, <2>1 DEF ServerStops
<1> QED
  BY <1>4, <1>5, <1>6, <1>7, <1>8, <1>9, <1>10, <1>11, <1>12 DEF Work

LEMMA TypedStep == Typed /\ [Next]_vars => Typed'
<1>1. Typed /\ UNCHANGED vars => Typed'
  BY DEF Typed, TypeOK, Loaded, vars, workerVars, diskVars
<1> QED
  BY <1>1, ClientTyped, EnsureTyped, WorkTyped DEF Next

\* Every variable of Database keeps its type, for any databases and bounds.
THEOREM TypeCorrect == Spec => []TypeOK
<1>1. Typed => TypeOK
  BY DEF Typed
<1> QED
  BY <1>1, InitTyped, TypedStep, PTL DEF Spec

-----------------------------------------------------------------------------
(* What was saved. *)

\* As long as the project was not bound to another database under way, everything is
\* about the one that was asked for last, ...
Bound ==
  /\ file \in {None, asked} /\ idb \in {None, asked} /\ exe \in {None, asked}
  /\ \A i \in 1..Len(queue) : queue[i].do = "save" => queue[i].path = asked
  /\ worker \in {"flushing", "packing"} => savePath = asked

\* ... and what is in a file or in memory is no older than the last save that was
\* written whole.  A refused write leaves a file as it was, and so does not disturb it.
Kept(d) ==
  /\ packed[d] # None => Holds(packed[d], d, kept[d])
  /\ parts[d] # None => Holds(parts[d], d, kept[d])
  /\ kept[d] > 0 => packed[d] # None

Sound ==
  /\ mem # None => Holds(mem, file, kept[file])
  /\ \A d \in Db : Kept(d)

Inv == Typed /\ (~switched => Bound /\ Sound)

LEMMA InitInv == Init => Inv
<1> SUFFICES ASSUME Init PROVE Bound /\ Sound
  BY InitTyped DEF Inv
<1>1. Bound
  BY DEF Init, Bound
<1>2. Sound
  BY DEF Init, Sound, Kept
<1> QED
  BY <1>1, <1>2

\* The commands that are left are among those that were there.
LEMMA RestBound ==
  ASSUME Typed, Bound, UNCHANGED <<file, idb, exe, asked>>, queue # << >>, queue' = Tail(queue),
         worker' \in {"flushing", "packing"} => savePath' = asked
  PROVE  Bound'
BY RestTyped DEF Bound, Typed

\* What does not touch files or memory leaves them sound.
LEMMA SameSound ==
  ASSUME Sound, UNCHANGED <<file, packed, parts, kept>>,
         UNCHANGED mem \/ mem' = None
  PROVE  Sound'
BY DEF Sound, Holds, Kept

\* A command that is no save comes to the end of the queue.
LEMMA QueueBound ==
  ASSUME Typed, NEW do, NEW path, Queue(do, path), NEW to,
         do = "save" => path = to,
         \A i \in 1..Len(queue) : queue[i].do = "save" => queue[i].path = to
  PROVE  \A i \in 1..Len(queue') : queue'[i].do = "save" => queue'[i].path = to
<1> DEFINE job == [do |-> do, path |-> path]
<1>1. queue \in Seq(Job) /\ Len(queue) \in Nat /\ queue' = Append(queue, job)
  BY DEF Queue, Typed, TypeOK
<1>2. /\ Len(queue') = Len(queue) + 1 /\ queue'[Len(queue) + 1] = job
      /\ \A i \in 1..Len(queue) : queue'[i] = queue[i]
  BY <1>1
<1> SUFFICES ASSUME NEW i \in 1..Len(queue'), queue'[i].do = "save" PROVE queue'[i].path = to
  OBVIOUS
<1>3. CASE i = Len(queue) + 1
  BY <1>2, <1>3
<1>4. CASE i # Len(queue) + 1
  <2>1. i \in 1..Len(queue)
    BY <1>1, <1>2, <1>4
  <2> QED
    BY <1>2, <2>1
<1> QED
  BY <1>3, <1>4

LEMMA ClientStep == Inv /\ Client => Inv'
<1> SUFFICES ASSUME Inv, Client, ~switched' PROVE Bound' /\ Sound'
  BY ClientTyped DEF Inv
<1>1. Typed
  BY DEF Inv
<1>2. ASSUME ~switched, Edit \/ Save \/ CloseDatabase PROVE Bound' /\ Sound'
  <2>1. Bound /\ Sound
    BY <1>2 DEF Inv
  <2>2. UNCHANGED <<exe, idb, worker, file, mem, savePath, packed, parts, asked, kept>>
    BY <1>2 DEF Edit, Save, CloseDatabase, workerVars, diskVars
  <2>3. PICK do \in {"edit", "save", "close"}, path \in {None, asked} :
          Queue(do, path) /\ (do = "save" => path = asked)
    BY <1>2, <2>1 DEF Edit, Save, CloseDatabase, Bound
  <2>4. \A i \in 1..Len(queue') : queue'[i].do = "save" => queue'[i].path = asked
    BY <1>1, <2>1, <2>3, QueueBound DEF Bound
  <2>5. Bound'
    BY <2>1, <2>2, <2>4 DEF Bound
  <2>6. Sound'
    BY <2>1, <2>2, SameSound
  <2> QED
    BY <2>5, <2>6
<1>3. ASSUME NEW d \in Db, OpenDatabase(d) PROVE Bound' /\ Sound'
  <2>1. /\ ~switched /\ ~Switches(d) /\ asked' = d /\ idb' = d /\ exe' \in {None, d}
        /\ Queue("ping", None)
        /\ UNCHANGED <<worker, file, mem, savePath, packed, parts, kept>>
    BY <1>3 DEF OpenDatabase, workerVars, diskVars
  <2>2. Bound /\ Sound
    BY <2>1 DEF Inv
  <2>3. /\ worker # "none" => asked = d
        /\ \A i \in 1..Len(queue) : queue[i].do = "save" => queue[i].path = d
    BY <2>1 DEF Switches
  <2>4. \A i \in 1..Len(queue') : queue'[i].do = "save" => queue'[i].path = d
    BY <1>1, <2>1, <2>3, QueueBound
  <2>5. file \in {None, d} /\ (worker \in {"flushing", "packing"} => savePath = d)
    BY <1>1, <2>2, <2>3 DEF Bound, Typed, Loaded
  <2>6. Bound'
    BY <2>1, <2>4, <2>5 DEF Bound
  <2>7. Sound'
    BY <2>1, <2>2, SameSound
  <2> QED
    BY <2>6, <2>7
<1> QED
  BY <1>2, <1>3 DEF Client, Edit, Save, CloseDatabase

LEMMA EnsureStep == Inv /\ Ensure => Inv'
<1> SUFFICES ASSUME Inv, Ensure, ~switched' PROVE Bound' /\ Sound'
  BY EnsureTyped DEF Inv
<1>1. Typed /\ ~switched /\ Bound /\ Sound
  <2>1. UNCHANGED switched
    BY DEF Ensure, Refuse, Spawn, SendOpen, WorkerOpens, OpenReply, OpenFails, Idle
  <2> QED
    BY <2>1 DEF Inv
<1>2. CASE Refuse
  <2>1. UNCHANGED <<exe, idb, worker, file, mem, savePath, packed, parts, asked, kept>>
    BY <1>2 DEF Refuse, Idle, workerVars, diskVars
  <2>2. Bound'
    BY <1>1, <1>2, <2>1, RestBound DEF Refuse, NextJob, Bound
  <2> QED
    BY <1>1, <2>1, <2>2, SameSound
<1>3. CASE Spawn
  <2>1. /\ UNCHANGED <<exe, idb, queue, file, mem, savePath, packed, parts, asked, kept>>
        /\ worker' = "spawning"
    BY <1>3 DEF Spawn, Idle, diskVars
  <2> QED
    BY <1>1, <2>1, SameSound DEF Bound
<1>4. CASE SendOpen
  <2>1. /\ UNCHANGED <<exe, idb, queue, mem, savePath, packed, parts, asked, kept>>
        /\ worker' = "opening" /\ file' = open_path /\ mem = None
    BY <1>1, <1>4 DEF SendOpen, Idle, diskVars, Typed, Loaded
  <2>2. open_path \in {None, asked}
    BY <1>1 DEF open_path, Bound
  <2>3. Bound'
    BY <1>1, <2>1, <2>2 DEF Bound
  <2>4. Sound'
    BY <1>1, <2>1 DEF Sound, Holds, Kept
  <2> QED
    BY <2>3, <2>4
<1>5. CASE WorkerOpens
  <2>1. /\ UNCHANGED <<exe, idb, queue, file, savePath, packed, asked, kept>>
        /\ worker' = "opened" /\ file \in Db
        /\ mem' \in {Fresh(file)} \cup ({parts[file]} \ {None})
        /\ parts' = [parts EXCEPT ![file] = mem']
    BY <1>1, <1>5 DEF WorkerOpens, Idle, Typed, TypeOK
  <2>2. kept[file] \in Nat /\ parts \in [Db -> Content \cup {None}]
    BY <1>1, <2>1, BoundAssumption DEF Typed, TypeOK
  <2>3. Fresh(file) # None => Holds(Fresh(file), file, kept[file])
    <3>1. CASE packed[file] # None
      BY <1>1, <2>1, <3>1 DEF Sound, Kept, Fresh
    <3>2. CASE packed[file] = None
      <4>1. kept[file] = 0
        BY <1>1, <2>1, <2>2, <3>2 DEF Sound, Kept
      <4> QED
        BY <3>2, <4>1 DEF Fresh, Holds
    <3> QED
      BY <3>1, <3>2
  <2>4. mem' # None => Holds(mem', file, kept[file])
    BY <1>1, <2>1, <2>3 DEF Sound, Kept
  <2>5. Bound'
    BY <1>1, <2>1 DEF Bound
  <2>6. Sound'
    BY <1>1, <2>1, <2>2, <2>4 DEF Sound, Holds, Kept
  <2> QED
    BY <2>5, <2>6
<1>6. CASE OpenReply
  <2>1. /\ UNCHANGED <<exe, queue, file, mem, packed, parts, asked, kept>>
        /\ idb' = file /\ worker' = "flushing" /\ savePath' = file /\ file = asked
    BY <1>1, <1>6 DEF OpenReply, diskVars, Typed, Loaded, Bound
  <2>2. Bound'
    BY <1>1, <2>1 DEF Bound
  <2> QED
    BY <1>1, <2>1, <2>2, SameSound
<1>7. CASE OpenFails
  <2>1. /\ UNCHANGED <<exe, idb, packed, asked, kept>>
        /\ worker' = "none" /\ file' = None /\ mem' = None /\ NextJob
        /\ parts' = parts \/ (file \in Db /\ parts' = [parts EXCEPT ![file] = None])
    BY <1>1, <1>7 DEF OpenFails, Idle, Gone, Typed, TypeOK
  <2>2. \A i \in 1..Len(queue') : queue'[i].do = "save" => queue'[i].path = asked
    BY <1>1, <2>1, RestTyped DEF Bound, NextJob, Typed
  <2>3. Bound'
    BY <1>1, <2>1, <2>2 DEF Bound
  <2>4. Sound'
    BY <1>1, <2>1 DEF Sound, Holds, Kept, Typed, TypeOK
  <2> QED
    BY <2>3, <2>4
<1> QED
  BY <1>2, <1>3, <1>4, <1>5, <1>6, <1>7 DEF Ensure

\* Of a save that writes both files only whole counts; the other ones, and a write
\* that is refused, leave in a file what was there or what is in memory.
LEMMA WrittenKept ==
  ASSUME Typed, Sound, mem # None,
         packed' = packed \/ packed' = [packed EXCEPT ![file] = mem],
         parts' \in {parts, [parts EXCEPT ![file] = mem], [parts EXCEPT ![file] = None]},
         \/ kept' = kept
         \/ /\ kept' = [kept EXCEPT ![file] = mem.edits]
            /\ packed' = [packed EXCEPT ![file] = mem]
            /\ parts'[file] \in {mem, None}
  PROVE  (\A d \in Db : Kept(d)') /\ Holds(mem, file, kept'[file])
<1>1. /\ packed \in [Db -> Content \cup {None}] /\ parts \in [Db -> Content \cup {None}]
      /\ kept \in [Db -> 0..MaxEdits] /\ 0..MaxEdits \subseteq Nat
  BY BoundAssumption DEF Typed, TypeOK
<1>2. /\ file \in Db /\ mem.of = file /\ mem.edits \in 0..MaxEdits /\ mem.edits >= kept[file]
  BY DEF Typed, TypeOK, Loaded, Sound, Holds, Content
<1>3. kept'[file] \in Nat /\ mem.edits >= kept'[file] /\ mem.edits >= mem.edits
  <2>1. CASE kept' = kept
    BY <1>1, <1>2, <2>1
  <2>2. CASE kept' = [kept EXCEPT ![file] = mem.edits]
    BY <1>1, <1>2, <2>2
  <2> QED
    BY <2>1, <2>2
<1>4. Holds(mem, file, kept'[file])
  BY <1>2, <1>3 DEF Holds
<1>5. ASSUME NEW d \in Db, d = file
      PROVE  Kept(d)'
  <2>1. CASE kept' = kept
    <3>1. packed'[file] \in {packed[file], mem} /\ parts'[file] \in {parts[file], mem, None}
      BY <1>1, <1>2
    <3>2. Kept(file)
      BY <1>2 DEF Sound
    <3> QED
      BY <1>2, <1>5, <2>1, <3>1, <3>2 DEF Kept, Holds
  <2>2. CASE /\ kept' = [kept EXCEPT ![file] = mem.edits]
             /\ packed' = [packed EXCEPT ![file] = mem]
             /\ parts'[file] \in {mem, None}
    <3>1. packed'[file] = mem
      BY <1>1, <1>2, <2>2
    <3> QED
      BY <1>1, <1>2, <1>3, <1>5, <2>2, <3>1 DEF Kept, Holds
  <2> QED
    BY <2>1, <2>2
<1>6. ASSUME NEW d \in Db, d # file
      PROVE  Kept(d)'
  <2>1. packed'[d] = packed[d]
    BY <1>1, <1>2, <1>6
  <2>2. parts'[d] = parts[d]
    BY <1>1, <1>2, <1>6
  <2>3. kept'[d] = kept[d]
    BY <1>1, <1>2, <1>6
  <2>4. Kept(d)
    BY DEF Sound
  <2> QED
    BY <2>1, <2>2, <2>3, <2>4 DEF Kept, Holds
<1> QED
  BY <1>4, <1>5, <1>6

\* A database that is closed is packed as it is in memory, or the file is left.
LEMMA ClosedSound ==
  ASSUME Typed, ~switched, Sound, Closed
  PROVE  Sound'
<1>1. mem' = None
  BY DEF Closed
<1>2. CASE mem = None
  BY <1>1, <1>2 DEF Closed, Saved, diskVars, Sound, Holds, Kept
<1>3. CASE mem # None
  <2>1. file \in Db /\ parts \in [Db -> Content \cup {None}]
    BY <1>3 DEF Typed, TypeOK, Loaded
  <2>2. CASE /\ packed' = [packed EXCEPT ![file] = mem] /\ parts' = [parts EXCEPT ![file] = None]
             /\ Saved(TRUE)
    <3>1. parts'[file] = None /\ kept' = [kept EXCEPT ![file] = mem.edits]
      BY <2>1, <2>2 DEF Saved
    <3> QED
      BY <1>1, <1>3, <2>2, <3>1, WrittenKept DEF Sound
  <2>3. CASE /\ packed' = packed /\ parts' \in {parts, [parts EXCEPT ![file] = None]}
             /\ Saved(FALSE)
    <3>1. kept' = kept
      BY <2>3 DEF Saved
    <3> QED
      BY <1>1, <1>3, <2>3, <3>1, WrittenKept DEF Sound
  <2> QED
    BY <1>3, <2>2, <2>3 DEF Closed
<1> QED
  BY <1>2, <1>3

LEMMA WorkStep == Inv /\ (Work \/ KillClosed \/ Crash \/ ServerStops) => Inv'
<1> SUFFICES ASSUME Inv, Work \/ KillClosed \/ Crash \/ ServerStops, ~switched'
             PROVE  Bound' /\ Sound'
  BY WorkTyped DEF Inv
<1>1. Typed /\ ~switched /\ Bound /\ Sound
  <2>1. UNCHANGED switched
    BY DEF Work, Flush, Pack, ServePing, ServeEdit, ServeSave, ServeClose, KillClosed, Crash,
           ServerStops, Idle
  <2> QED
    BY <2>1 DEF Inv
<1>2. mem # None => /\ file \in Db /\ file = asked /\ mem.of = file /\ mem.edits \in 0..MaxEdits
                    /\ mem \in Content /\ mem.edits >= kept[file]
  BY <1>1 DEF Typed, TypeOK, Loaded, Bound, Sound, Holds, Kept, Content
<1>3. /\ packed \in [Db -> Content \cup {None}] /\ parts \in [Db -> Content \cup {None}]
      /\ kept \in [Db -> 0..MaxEdits] /\ 0..MaxEdits \subseteq Nat
  BY <1>1, BoundAssumption DEF Typed, TypeOK
<1>4. NextJob => \A i \in 1..Len(queue') : queue'[i].do = "save" => queue'[i].path = asked
  BY <1>1, RestTyped DEF Bound, NextJob, Typed
<1>5. CASE Flush
  <2>1. /\ UNCHANGED <<exe, idb, queue, file, mem, savePath, packed, asked, kept>>
        /\ worker = "flushing" /\ worker' = "packing"
        /\ parts' = parts \/ (mem # None /\ parts' = [parts EXCEPT ![file] = mem])
    BY <1>5 DEF Flush, Idle
  <2>2. Bound'
    BY <1>1, <2>1 DEF Bound
  <2>3. CASE parts' = parts
    BY <1>1, <2>1, <2>2, <2>3, SameSound
  <2>4. CASE mem # None /\ parts' = [parts EXCEPT ![file] = mem]
    <3>1. (\A d \in Db : Kept(d)') /\ Holds(mem, file, kept'[file])
      BY <1>1, <2>1, <2>4, WrittenKept
    <3> QED
      BY <2>1, <2>2, <3>1 DEF Sound
  <2> QED
    BY <2>1, <2>3, <2>4
<1>6. CASE Pack
  <2>1. /\ UNCHANGED <<exe, idb, queue, file, mem, parts, asked>>
        /\ worker = "packing" /\ worker' = "up"
    BY <1>6 DEF Pack
  <2>2. Bound'
    BY <1>1, <2>1 DEF Bound
  <2>3. CASE packed' = packed /\ Saved(FALSE)
    <3>1. kept' = kept
      BY <2>3 DEF Saved
    <3> QED
      BY <1>1, <2>1, <2>2, <2>3, <3>1, SameSound
  <2>4. CASE mem # None /\ packed' = [packed EXCEPT ![savePath] = mem] /\ Saved(parts[file] = mem)
    <3>1. savePath = file
      BY <1>1, <1>2, <2>1, <2>4 DEF Bound
    <3>2. kept' = kept \/ (kept' = [kept EXCEPT ![file] = mem.edits] /\ parts'[file] = mem)
      BY <2>1, <2>4 DEF Saved
    <3>3. (\A d \in Db : Kept(d)') /\ Holds(mem, file, kept'[file])
      BY <1>1, <2>1, <2>4, <3>1, <3>2, WrittenKept
    <3> QED
      BY <2>1, <2>2, <3>3 DEF Sound
  <2> QED
    BY <1>6, <2>3, <2>4 DEF Pack
<1>7. CASE ServePing
  <2>1. UNCHANGED <<exe, idb, worker, file, mem, savePath, packed, parts, asked, kept>>
    BY <1>7 DEF ServePing, Idle, workerVars, diskVars
  <2>2. Bound'
    BY <1>1, <1>4, <1>7, <2>1 DEF ServePing, Serve, Bound
  <2> QED
    BY <1>1, <2>1, <2>2, SameSound
<1>8. CASE ServeEdit
  <2>1. /\ UNCHANGED <<exe, idb, worker, file, savePath, packed, parts, asked, kept>>
        /\ worker = "up" /\ NextJob
        /\ mem' = IF mem = None \/ mem.edits = MaxEdits THEN mem ELSE [mem EXCEPT !.edits = @ + 1]
    BY <1>8 DEF ServeEdit, Serve, Idle, diskVars
  <2>2. Bound'
    BY <1>1, <1>4, <2>1 DEF Bound
  <2>3. mem' # None => Holds(mem', file, kept[file])
    <3>1. CASE mem' = mem
      BY <1>1, <2>1, <3>1 DEF Sound, Holds, Kept
    <3>2. CASE mem' # mem
      <4>1. mem # None /\ mem' = [mem EXCEPT !.edits = @ + 1]
        BY <2>1, <3>2
      <4>2. mem'.of = mem.of /\ mem'.edits = mem.edits + 1
        BY <1>2, <4>1 DEF Content
      <4>3. mem'.edits >= kept[file]
        BY <1>2, <1>3, <4>1, <4>2
      <4> QED
        BY <1>2, <2>1, <4>1, <4>2, <4>3 DEF Holds, Kept
    <3> QED
      BY <3>1, <3>2
  <2>4. Sound'
    BY <1>1, <2>1, <2>3 DEF Sound, Holds, Kept
  <2> QED
    BY <2>2, <2>4
<1>9. CASE ServeSave
  <2>1. /\ UNCHANGED <<exe, idb, file, mem, packed, parts, asked, kept>>
        /\ NextJob /\ worker' = "flushing" /\ savePath' = Head(queue).path
        /\ Head(queue).do = "save"
    BY <1>9 DEF ServeSave, Serve, Idle, diskVars
  <2>2. Head(queue).path = asked
    BY <1>1, <2>1, RestTyped DEF Bound, NextJob, Typed
  <2>3. Bound'
    BY <1>1, <1>4, <2>1, <2>2 DEF Bound
  <2> QED
    BY <1>1, <2>1, <2>3, SameSound
<1>10. CASE ServeClose
  <2>1. /\ UNCHANGED <<exe, idb, worker, savePath, asked>> /\ worker = "up" /\ NextJob
        /\ Closed /\ file' = None
    BY <1>10 DEF ServeClose, Serve, Closed
  <2>2. Bound'
    BY <1>1, <1>4, <2>1 DEF Bound
  <2> QED
    BY <1>1, <2>1, <2>2, ClosedSound
<1>11. CASE KillClosed \/ Crash
  <2>1. /\ UNCHANGED <<exe, idb, packed, parts, asked, kept>>
        /\ worker' = "none" /\ file' = None /\ mem' = None
        /\ queue' = queue \/ NextJob
    BY <1>11 DEF KillClosed, Crash, Gone, Idle, diskVars, NextJob
  <2>2. Bound'
    BY <1>1, <1>4, <2>1 DEF Bound
  <2>3. Sound'
    BY <1>1, <2>1 DEF Sound, Holds, Kept
  <2> QED
    BY <2>2, <2>3
<1>12. CASE ServerStops
  <2>1. /\ UNCHANGED asked /\ worker' = "none" /\ Closed /\ file' = None
        /\ exe' = None /\ idb' = None /\ queue' = << >>
    BY <1>12 DEF ServerStops, Closed
  <2>2. Bound'
    BY <2>1 DEF Bound
  <2> QED
    BY <1>1, <2>1, <2>2, ClosedSound
<1> QED
  BY <1>5, <1>6, <1>7, <1>8, <1>9, <1>10, <1>11, <1>12 DEF Work

LEMMA Invariance == Spec => []Inv
<1>1. Inv /\ UNCHANGED vars => Inv'
  <2> SUFFICES ASSUME Inv, UNCHANGED vars PROVE Inv'
    OBVIOUS
  <2>1. Typed'
    BY TypedStep DEF Inv
  <2> QED
    BY <2>1 DEF Inv, Bound, Sound, Holds, Kept, vars, workerVars, diskVars
<1>2. Inv /\ [Next]_vars => Inv'
  BY <1>1, ClientStep, EnsureStep, WorkStep DEF Next
<1> QED
  BY <1>2, InitInv, PTL DEF Spec

\* Of what a save has written whole nothing leaves the packed file again, whatever
\* crashed, was closed or was refused by IDA since.
THEOREM SavedStaysPacked == Spec => []SavedIsPacked
<1>1. Inv => SavedIsPacked
  BY DEF Inv, Sound, Kept, SavedIsPacked
<1> QED
  BY <1>1, Invariance, PTL

\* A worker never goes on from less than what was saved whole.
THEOREM SavesAreKept == Spec => []NothingSavedIsLost
<1>1. Inv => NothingSavedIsLost
  BY DEF Inv, Sound, NothingSavedIsLost
<1> QED
  BY <1>1, Invariance, PTL

\* The database a worker has open is the one that was asked for last.
THEOREM OpensTheRightOne == Spec => []OpensWhatWasAsked
<1>1. Inv => OpensWhatWasAsked
  BY DEF Inv, Typed, Loaded, Bound, OpensWhatWasAsked
<1> QED
  BY <1>1, Invariance, PTL
=============================================================================
