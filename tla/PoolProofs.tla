----------------------------- MODULE PoolProofs -----------------------------
(***************************************************************************)
(* Proofs about Pool, for all sets of ids and of Project objects, every    *)
(* limit and every environment; and, at the end, about Lifespan, which     *)
(* says when there is an AppState for Pool to describe.                    *)
(*                                                                         *)
(* The lemmas of the first part say what each part of a step leaves of a   *)
(* Project; the steps of Next are proved from them, not from definitions.  *)
(***************************************************************************)
EXTENDS Pool, Lifespan, FiniteSetTheorems, TLAPS

-----------------------------------------------------------------------------
(* The parts of steps. *)

\* Somebody holds the lock or is next to have it.
HasFirst(p) == \E c \in p.hand : p.ahead[c] = {}

\* A phase belongs to a first command, and a worker being started is not the handle.
PhaseOK(p) ==
  /\ p.phase # "free" => HasFirst(p)
  /\ p.phase \in {"spawning", "opening"} => p.handle = "none"

\* Somebody is owed the end of command c.
Pending(p, c) == c \in p.hand \/ (c \in Awaited /\ p.told[c] # "no")

\* What is told is no longer in hand.
ToldOnce(p) == \A c \in Awaited : p.told[c] # "no" => c \notin p.hand

Good(p) == p \in Proj /\ PhaseOK(p) /\ ToldOnce(p)

Same(p, q) == q.id = p.id /\ q.fate = p.fate

\* Queueing a command that nobody is owed yet changes nothing but the queue.
LEMMA SubmitGood ==
  ASSUME NEW p, Good(p), NEW c \in Cmd, ~Pending(p, c)
  PROVE  LET q == Submit(p, c) IN
         /\ Good(q) /\ Same(p, q)
         /\ q.phase = p.phase /\ q.handle = p.handle /\ q.lost = p.lost
         /\ \A d \in Cmd : Pending(q, d) => Pending(p, d) \/ d = c
<1> DEFINE q == Submit(p, c)
<1>1. /\ q \in Proj /\ Same(p, q)
      /\ q.phase = p.phase /\ q.handle = p.handle /\ q.lost = p.lost
      /\ q.hand = p.hand \cup {c} /\ q.told = p.told
      /\ q.ahead = [p.ahead EXCEPT ![c] = p.hand]
  BY DEF Submit, Proj, Good, Same
<1>2. PhaseOK(q)
  BY <1>1 DEF PhaseOK, HasFirst, Good, Pending, Proj
<1>3. ToldOnce(q)
  BY <1>1 DEF ToldOnce, Good, Pending
<1>4. \A d \in Cmd : Pending(q, d) => Pending(p, d) \/ d = c
  BY <1>1 DEF Pending
<1> QED
  BY <1>1, <1>2, <1>3, <1>4 DEF Good

\* Resuming changes only what the awaiting coroutine has been told.
LEMMA ResumeGood ==
  ASSUME NEW p, Good(p), NEW c \in Awaited
  PROVE  LET q == Resume(p, c) IN
         /\ Good(q) /\ Same(p, q)
         /\ q.phase = p.phase /\ q.handle = p.handle /\ q.lost = p.lost /\ q.hand = p.hand
         /\ \A d \in Cmd : Pending(q, d) => Pending(p, d)
         /\ c \notin p.hand => ~Pending(q, c)
<1> DEFINE q == Resume(p, c)
<1>1. /\ q \in Proj /\ Same(p, q)
      /\ q.phase = p.phase /\ q.handle = p.handle /\ q.lost = p.lost
      /\ q.hand = p.hand /\ q.ahead = p.ahead
      /\ q.told = [p.told EXCEPT ![c] = "no"]
  BY DEF Resume, Proj, Good, Same
<1>2. PhaseOK(q)
  BY <1>1 DEF PhaseOK, HasFirst, Good
<1>3. ToldOnce(q)
  BY <1>1 DEF ToldOnce, Good, Proj
<1>4. \A d \in Cmd : Pending(q, d) => Pending(p, d)
  BY <1>1 DEF Pending, Good, Proj
<1>5. c \notin p.hand => ~Pending(q, c)
  BY <1>1 DEF Pending, Good, Proj
<1> QED
  BY <1>1, <1>2, <1>3, <1>4, <1>5 DEF Good

\* Dropping the handle changes nothing else.
LEMMA DropGood ==
  ASSUME NEW p, Good(p)
  PROVE  LET q == Drop(p) IN
         /\ Good(q) /\ Same(p, q)
         /\ q.phase = p.phase /\ q.handle = "none" /\ q.lost = p.lost
         /\ q.hand = p.hand /\ q.ahead = p.ahead /\ q.told = p.told
<1> DEFINE q == Drop(p)
<1>1. /\ q \in Proj /\ Same(p, q)
      /\ q.phase = p.phase /\ q.handle = "none" /\ q.lost = p.lost
      /\ q.hand = p.hand /\ q.ahead = p.ahead /\ q.told = p.told
  BY DEF Drop, Proj, Good, Same
<1>2. PhaseOK(q) /\ ToldOnce(q)
  BY <1>1 DEF PhaseOK, HasFirst, ToldOnce, Good
<1> QED
  BY <1>1, <1>2 DEF Good

\* The end of a command frees the lock and leaves the worker as it is.
LEMMA EndGood ==
  ASSUME NEW p, Good(p), NEW c \in p.hand
  PROVE  LET q == End(p, c) IN
         /\ Good(q) /\ Same(p, q)
         /\ q.phase = "free" /\ q.handle = p.handle /\ q.lost = p.lost
         /\ \A d \in Cmd : Pending(q, d) => Pending(p, d)
<1> DEFINE q == End(p, c)
<1>0. c \in Cmd /\ p.hand \subseteq Cmd
  BY DEF Good, Proj
<1>1. /\ Without(p, {c}) \in Proj
      /\ Without(p, {c}) = [p EXCEPT !.hand = p.hand \ {c}, !.ahead = Without(p, {c}).ahead]
  BY <1>0 DEF Without, Proj, Good
<1>2. [p.told EXCEPT ![c] = "done"] \in [Awaited -> {"no", "done", "raised"}]
  BY DEF Good, Proj
<1>3. /\ q \in Proj /\ Same(p, q)
      /\ q.phase = "free" /\ q.handle = p.handle /\ q.lost = p.lost
      /\ q.hand = p.hand \ {c}
      /\ q.told = [p.told EXCEPT ![c] = "done"]
  <2> DEFINE w == Without(p, {c})
  <2>1. /\ w \in Proj /\ w.id = p.id /\ w.fate = p.fate /\ w.handle = p.handle
        /\ w.lost = p.lost /\ w.hand = p.hand \ {c} /\ w.told = p.told
    BY <1>1 DEF Good, Proj
  <2>2. q = [w EXCEPT !.phase = "free", !.told = [w.told EXCEPT ![c] = "done"]]
    BY DEF End
  <2> HIDE DEF w, q
  <2>3. [w.told EXCEPT ![c] = "done"] \in [Awaited -> {"no", "done", "raised"}]
    BY <1>2, <2>1
  <2> QED
    BY <2>1, <2>2, <2>3 DEF Proj, Phase, Same
<1> HIDE DEF q
<1>4. PhaseOK(q)
  BY <1>3 DEF PhaseOK
<1>5. ToldOnce(q)
  BY <1>0, <1>3 DEF ToldOnce, Good, Proj
<1>6. \A d \in Cmd : Pending(q, d) => Pending(p, d)
  BY <1>0, <1>3 DEF Pending, Good, Proj
<1> QED
  BY <1>3, <1>4, <1>5, <1>6 DEF Good, q

\* A cancellation that stops the opening of a worker loses that worker.
LEMMA CancelGood ==
  ASSUME NEW p, Good(p), NEW C \in SUBSET Cmd
  PROVE  LET q == Cancel(p, C) IN
         /\ Good(q) /\ Same(p, q)
         /\ q.handle = p.handle /\ q.hand = p.hand \ C
         /\ q.phase \in {p.phase, "free"}
         /\ p.lost => q.lost
         /\ p.phase = "opening" => q.phase = "opening" \/ q.lost
         /\ \A d \in Cmd : Pending(q, d) => Pending(p, d)
<1> DEFINE q == Cancel(p, C)
           first == \E c \in C \cap p.hand : p.ahead[c] = {}
<1>0. p.hand \subseteq Cmd /\ p.ahead \in [Cmd -> SUBSET Cmd] /\ p.phase \in Phase
  BY DEF Good, Proj
<1>1. /\ q \in Proj /\ Same(p, q)
      /\ q.phase = (IF first THEN "free" ELSE p.phase)
      /\ q.handle = p.handle /\ q.lost = (p.lost \/ (first /\ p.phase = "opening"))
      /\ q.hand = p.hand \ C
      /\ q.ahead = [c \in Cmd |-> IF c \in C THEN {} ELSE p.ahead[c] \ C]
      /\ q.told = [c \in Awaited |-> IF c \in C \cap p.hand THEN "raised" ELSE p.told[c]]
  BY <1>0 DEF Cancel, Without, Proj, Good, Same, Phase
<1>2. PhaseOK(q)
  BY <1>0, <1>1 DEF PhaseOK, HasFirst, Good
<1>3. ToldOnce(q)
  BY <1>1 DEF ToldOnce, Good
<1>4. \A d \in Cmd : Pending(q, d) => Pending(p, d)
  BY <1>1 DEF Pending
<1> QED
  BY <1>1, <1>2, <1>3, <1>4 DEF Good

\* force_close leaves nothing in hand and no worker.
LEMMA ForceGood ==
  ASSUME NEW p, Good(p)
  PROVE  LET q == force_close(p) IN
         /\ Good(q) /\ Same(p, q)
         /\ q.handle = "none" /\ q.hand = {} /\ q.phase = "free"
         /\ p.lost => q.lost
         /\ p.phase = "opening" => q.lost
         /\ \A d \in Cmd : Pending(q, d) => Pending(p, d)
<1> DEFINE r == Drop(p)
           q == Cancel(r, Cmd)
<1>1. /\ Good(r) /\ Same(p, r) /\ r.phase = p.phase /\ r.handle = "none"
      /\ r.lost = p.lost /\ r.hand = p.hand /\ r.told = p.told
  BY DropGood
<1>2. /\ Good(q) /\ Same(r, q) /\ q.handle = "none" /\ q.hand = r.hand \ Cmd
      /\ (r.lost => q.lost) /\ (r.phase = "opening" => q.phase = "opening" \/ q.lost)
      /\ \A d \in Cmd : Pending(q, d) => Pending(r, d)
  <2> HIDE DEF r
  <2> QED
    BY <1>1, CancelGood
<1>3. q.hand = {}
  BY <1>1, <1>2 DEF Good, Proj
<1>4. q.phase = "free"
  BY <1>2, <1>3 DEF Good, PhaseOK, HasFirst
<1>5. q = force_close(p)
  BY DEF force_close
<1> HIDE DEF q, r
<1> QED
  BY <1>1, <1>2, <1>3, <1>4, <1>5 DEF Same, Pending

\* A closed project keeps the commands it was closed with.
LEMMA RemovedGood ==
  ASSUME NEW p, Good(p), NEW o, ending[o] \in Ending
  PROVE  LET q == Removed(o, p) IN
         /\ Good(q) /\ q.id = p.id
         /\ q.fate = (IF p.hand = {} /\ ending[o] # "end" THEN "closed" ELSE "orphaned")
         /\ q.hand = p.hand /\ q.phase = p.phase /\ q.handle = p.handle /\ q.lost = p.lost
         /\ \A d \in Cmd : Pending(q, d) => Pending(p, d)
<1> DEFINE q == Removed(o, p)
<1>1. /\ q \in Proj /\ q.id = p.id
      /\ q.fate = (IF p.hand = {} /\ ending[o] # "end" THEN "closed" ELSE "orphaned")
      /\ q.phase = p.phase /\ q.handle = p.handle /\ q.lost = p.lost
      /\ q.hand = p.hand /\ q.ahead = p.ahead /\ q.told = p.told
  BY DEF Removed, Proj, Good, Fate
<1>2. PhaseOK(q) /\ ToldOnce(q)
  BY <1>1 DEF PhaseOK, HasFirst, ToldOnce, Good
<1> QED
  BY <1>1, <1>2 DEF Good, Pending

-----------------------------------------------------------------------------
(* The invariant. *)

Quiet(p) == p.handle = "none" /\ p.phase = "free" /\ p.hand = {}

\* A command of close_project, of the auto-save loop or of shutdown() is awaited by
\* the one coroutine that queued it.
Owed(o) ==
  /\ Pending(obj[o], "save")  => saving = o
  /\ Pending(obj[o], "close") => closing = o
  /\ Pending(obj[o], "end")   => ending[o] = "end"
  /\ Pending(obj[o], "stop")  => ending[o] = "stop"

ObjOK(o) ==
  /\ Good(obj[o]) /\ Owed(o)
  /\ obj[o].fate \in {"absent", "closed"} => Quiet(obj[o]) /\ ending[o] # "end"
  /\ obj[o].fate # "absent" => obj[o].id \in Id
  /\ obj[o].fate = "absent" => obj[o].id = None
  /\ obj[o].fate = "open" => projects[obj[o].id] = o /\ server # "down"

RestOK ==
  /\ projects \in [Id -> Object \cup {None}]
  /\ DOMAIN obj = Object /\ obj = [o \in Object |-> obj[o]]
  /\ active \in SUBSET Id
  /\ closing \in Object \cup {None}
  /\ saver \in Saver /\ saving \in Object \cup {None} /\ todo \in SUBSET Id
  /\ server \in Server /\ ending \in [Object -> Ending]
  /\ raced \in BOOLEAN
  /\ saving # None <=> saver = "wait"
  /\ server \in {"up", "stopping"} => \A o \in Object : ending[o] = "no"
  /\ closing # None /\ server # "down" => obj[closing].fate = "open"

HasWorker(p) == p.handle # "none" \/ p.phase = "opening"
IsReal(p)    == HasWorker(p) \/ p.lost

Inv ==
  /\ RestOK
  /\ \A o \in Object : ObjOK(o)
  /\ CountsAreReal /\ WorkersCounted

LEMMA InvType == Inv => TypeOK
  BY DEF Inv, RestOK, ObjOK, Good, TypeOK

LEMMA InvNothingOutlives == Inv => NothingOutlives
  BY DEF Inv, ObjOK, Quiet, NothingOutlives

LEMMA InitInv == Init => Inv
<1> SUFFICES ASSUME Init PROVE Inv
  OBVIOUS
<1>1. Absent \in Proj
  <2>1. [c \in Cmd |-> {}] \in [Cmd -> SUBSET Cmd]
    OBVIOUS
  <2>2. [c \in Awaited |-> "no"] \in [Awaited -> {"no", "done", "raised"}]
    OBVIOUS
  <2> QED
    BY <2>1, <2>2 DEF Absent, Proj, Fate, Phase
<1>2. /\ Absent.id = None /\ Absent.fate = "absent" /\ Absent.hand = {}
      /\ Absent.phase = "free" /\ Absent.handle = "none" /\ Absent.lost = FALSE
      /\ \A c \in Awaited : Absent.told[c] = "no"
  BY DEF Absent
<1>3. Good(Absent) /\ Quiet(Absent) /\ \A c \in Cmd : ~Pending(Absent, c)
  BY <1>1, <1>2 DEF Good, PhaseOK, ToldOnce, Quiet, Pending
<1>4. \A o \in Object : obj[o] = Absent /\ ending[o] = "no"
  BY DEF Init
<1>5. RestOK
  BY <1>4, IdAssumption DEF Init, RestOK, Saver, Server, Ending
<1>6. \A o \in Object : ObjOK(o)
  BY <1>2, <1>3, <1>4 DEF ObjOK, Owed, Cmd
<1>7. CountsAreReal /\ WorkersCounted
  BY <1>2, <1>4 DEF Init, CountsAreReal, WorkersCounted
<1> QED
  BY <1>5, <1>6, <1>7 DEF Inv

-----------------------------------------------------------------------------
(* Steps within one Project, from obj[o] to q. *)

Within(o, q) ==
  /\ obj' = [obj EXCEPT ![o] = q]
  /\ UNCHANGED <<projects, closing, saver, saving, todo, server, ending>>
  /\ raced' \in BOOLEAN

\* What such a step may do to the project ...
Allowed(p, q) ==
  /\ Good(q) /\ Same(p, q)
  /\ p.fate \in {"absent", "closed"} => Quiet(q)
  /\ \A d \in {"save", "close", "end", "stop"} : Pending(q, d) => Pending(p, d)

\* ... and to the count.
Accounted(p, q) ==
  /\ active' \in SUBSET Id /\ active' \subseteq active \cup {p.id}
  /\ p.id \in active' /\ (IsReal(p) \/ p.id \notin active) => IsReal(q)
  /\ HasWorker(q) /\ (HasWorker(p) => p.id \in active) => p.id \in active'
  /\ \A i \in active \ active' : i = p.id /\ HasWorker(p)

LEMMA WithinStep ==
  ASSUME Inv, NEW o \in Object, NEW q, Within(o, q),
         Allowed(obj[o], q), Accounted(obj[o], q)
  PROVE  Inv'
<1> DEFINE p == obj[o]
<1>1. /\ obj'[o] = q /\ q.id = p.id /\ q.fate = p.fate
      /\ \A x \in Object \ {o} : obj'[x] = obj[x]
      /\ DOMAIN obj' = Object
  BY DEF Inv, RestOK, Within, Allowed, Same
<1>2. RestOK'
  <2>1. obj' = [x \in Object |-> obj'[x]]
    BY DEF Inv, RestOK, Within
  <2>2. closing' # None /\ server' # "down" => obj'[closing'].fate = "open"
    BY <1>1 DEF Inv, RestOK, Within
  <2> QED
    BY <1>1, <2>1, <2>2 DEF Inv, RestOK, Within, Accounted
<1>3. ObjOK(o)'
  <2>1. ObjOK(o)
    BY DEF Inv
  <2> QED
    BY <1>1, <2>1 DEF ObjOK, Owed, Within, Allowed
<1>4. ASSUME NEW x \in Object, x # o PROVE ObjOK(x)'
  <2>1. ObjOK(x) /\ obj'[x] = obj[x]
    BY <1>1, <1>4 DEF Inv
  <2> QED
    BY <2>1 DEF ObjOK, Owed, Within, Good
<1>5. CountsAreReal'
  <2> SUFFICES ASSUME NEW i \in active'
               PROVE  \E x \in Object : obj'[x].id = i /\ IsReal(obj'[x])
    BY DEF CountsAreReal, IsReal, HasWorker
  <2>1. CASE i \notin active
    BY <1>1, <2>1 DEF Accounted
  <2>2. CASE i \in active
    <3>1. PICK x \in Object : obj[x].id = i /\ IsReal(obj[x])
      BY <2>2 DEF Inv, CountsAreReal, IsReal, HasWorker
    <3>2. CASE x = o
      BY <1>1, <3>1, <3>2 DEF Accounted
    <3>3. CASE x # o
      BY <1>1, <3>1, <3>3
    <3> QED
      BY <3>2, <3>3
  <2> QED
    BY <2>1, <2>2
<1>6. WorkersCounted'
  <2> SUFFICES ASSUME NEW x \in Object, obj'[x].fate = "open", HasWorker(obj'[x]),
                      ~\E y \in Object : obj'[y].fate = "orphaned" /\ obj'[y].id = obj'[x].id
               PROVE  obj'[x].id \in active'
    BY DEF WorkersCounted, HasWorker
  <2>1. obj[x].fate = "open" /\ obj[x].id = obj'[x].id
    BY <1>1
  <2>2. ~\E y \in Object : obj[y].fate = "orphaned" /\ obj[y].id = obj[x].id
    BY <1>1, <2>1
  <2>3. HasWorker(obj[x]) => obj[x].id \in active
    BY <2>1, <2>2 DEF Inv, WorkersCounted, HasWorker
  <2>4. CASE x = o
    BY <1>1, <2>3, <2>4 DEF Accounted
  <2>5. CASE x # o
    <3>1. obj[x].id \in active
      BY <1>1, <2>3, <2>5
    <3>2. ASSUME obj[x].id \notin active' PROVE FALSE
      <4>1. obj[o].id = obj[x].id /\ HasWorker(obj[o])
        BY <3>1, <3>2 DEF Accounted
      <4>2. ObjOK(o) /\ ObjOK(x)
        BY DEF Inv
      <4>3. obj[o].fate \in Fate
        BY <4>2 DEF ObjOK, Good, Proj
      <4>4. obj[o].fate = "open"
        BY <2>2, <4>1, <4>2, <4>3 DEF ObjOK, Quiet, HasWorker, Fate
      <4> QED
        BY <2>1, <2>5, <4>1, <4>2, <4>4 DEF ObjOK
    <3> QED
      BY <2>1, <3>1, <3>2
  <2> QED
    BY <2>4, <2>5
<1> QED
  BY <1>2, <1>3, <1>4, <1>5, <1>6 DEF Inv

\* The step starts no worker and counts none.
Calm ==
  /\ active' \subseteq active /\ raced' = raced
  /\ \A x \in Object : obj'[x].phase = "spawning" => obj[x].phase = "spawning"

\* Steps that leave the count alone.
LEMMA KeepStep ==
  ASSUME Inv, NEW o \in Object, NEW q, Within(o, q), Allowed(obj[o], q),
         active' = active, raced' = raced,
         HasWorker(q) => HasWorker(obj[o]), IsReal(obj[o]) => IsReal(q),
         q.phase = "spawning" => obj[o].phase = "spawning"
  PROVE  Inv' /\ Calm
<1>1. active' \in SUBSET Id
  BY DEF Inv, RestOK
<1>2. Accounted(obj[o], q)
  BY <1>1 DEF Accounted
<1>3. Calm
  BY DEF Calm, Within, Inv, RestOK
<1> QED
  BY <1>2, <1>3, WithinStep

\* Uncounting a project that has a handle.
LEMMA UncountedOne ==
  ASSUME NEW o \in Object
  PROVE  /\ obj[o].handle = "none" => Uncounted({o}) = active
         /\ obj[o].handle # "none" => Uncounted({o}) = active \ {obj[o].id}
  BY DEF Uncounted

\* Steps that drop the handle and take the project from the count.
LEMMA DropStep ==
  ASSUME Inv, NEW o \in Object, NEW q, Within(o, q), Allowed(obj[o], q),
         active' = Uncounted({o}), q.handle = "none",
         q.phase = "opening" => obj[o].phase = "opening",
         obj[o].phase = "opening" => q.phase = "opening" \/ q.lost,
         obj[o].lost => q.lost
  PROVE  /\ Inv'
         /\ raced' = raced /\ (q.phase = "spawning" => obj[o].phase = "spawning") => Calm
<1> DEFINE p == obj[o]
<1>1. /\ p.handle = "none" => active' = active
      /\ p.handle # "none" => active' = active \ {p.id}
  BY UncountedOne
<1>2. PhaseOK(p) /\ active \in SUBSET Id
  BY DEF Inv, RestOK, ObjOK, Good
<1>3. p.id \in active' /\ (IsReal(p) \/ p.id \notin active) => IsReal(q)
  BY <1>1 DEF IsReal, HasWorker
<1>4. HasWorker(q) /\ (HasWorker(p) => p.id \in active) => p.id \in active'
  BY <1>1, <1>2 DEF HasWorker, PhaseOK
<1>5. Accounted(p, q)
  BY <1>1, <1>2, <1>3, <1>4 DEF Accounted, HasWorker
<1>6. raced' = raced /\ (q.phase = "spawning" => p.phase = "spawning") => Calm
  BY <1>1 DEF Calm, Within, Inv, RestOK
<1> QED
  BY <1>5, <1>6, WithinStep

-----------------------------------------------------------------------------
(* Clients. *)

\* What is not owed to any of the four may be queued at will.
LEMMA NotPending ==
  ASSUME Inv, NEW o \in Object, obj[o].fate = "open"
  PROVE  /\ "work" \notin obj[o].hand => ~Pending(obj[o], "work")
         /\ "leave" \notin obj[o].hand /\ obj[o].told["leave"] = "no" => ~Pending(obj[o], "leave")
         /\ closing = None => ~Pending(obj[o], "close")
         /\ saving # o => ~Pending(obj[o], "save")
  BY IdAssumption DEF Inv, ObjOK, Owed, Pending, Awaited

LEMMA WorkInv == ASSUME Inv, NEW o \in Object, Work(o) PROVE Inv' /\ Calm
<1> DEFINE p == obj[o]
           q == Submit(p, "work")
<1>1. Good(p) /\ ~Pending(p, "work") /\ p.fate = "open" /\ "work" \in Cmd
  BY NotPending DEF Work, Registered, Inv, ObjOK, Cmd
<1>2. /\ Good(q) /\ Same(p, q)
      /\ q.phase = p.phase /\ q.handle = p.handle /\ q.lost = p.lost
      /\ \A d \in Cmd : Pending(q, d) => Pending(p, d) \/ d = "work"
  <2> HIDE DEF p
  <2> QED
    BY <1>1, SubmitGood
<1>3. Within(o, q) /\ active' = active /\ raced' = raced
  BY DEF Work, Within, Inv, RestOK
<1> HIDE DEF q
<1>4. Allowed(p, q)
  BY <1>1, <1>2 DEF Allowed, Cmd
<1> QED
  BY <1>2, <1>3, <1>4, KeepStep DEF HasWorker, IsReal

LEMMA CloseDatabaseInv == ASSUME Inv, NEW o \in Object, CloseDatabase(o) PROVE Inv' /\ Calm
<1> DEFINE p == obj[o]
           q == Submit(p, "leave")
<1>1. Good(p) /\ ~Pending(p, "leave") /\ p.fate = "open" /\ "leave" \in Cmd
  BY NotPending DEF CloseDatabase, Registered, Inv, ObjOK, Cmd
<1>2. /\ Good(q) /\ Same(p, q)
      /\ q.phase = p.phase /\ q.handle = p.handle /\ q.lost = p.lost
      /\ \A d \in Cmd : Pending(q, d) => Pending(p, d) \/ d = "leave"
  <2> HIDE DEF p
  <2> QED
    BY <1>1, SubmitGood
<1>3. Within(o, q) /\ active' = active /\ raced' = raced
  BY DEF CloseDatabase, Within, Inv, RestOK
<1> HIDE DEF q
<1>4. Allowed(p, q)
  BY <1>1, <1>2 DEF Allowed, Cmd
<1> QED
  BY <1>2, <1>3, <1>4, KeepStep DEF HasWorker, IsReal

LEMMA CancelWorkInv == ASSUME Inv, NEW o \in Object, CancelWork(o) PROVE Inv' /\ Calm
<1> DEFINE p == obj[o]
           q == Cancel(p, {"work"})
<1>1. Good(p) /\ p.fate = "open" /\ {"work"} \in SUBSET Cmd
  BY DEF CancelWork, Registered, Inv, ObjOK, Cmd
<1>2. /\ Good(q) /\ Same(p, q) /\ q.handle = p.handle
      /\ q.phase \in {p.phase, "free"} /\ (p.lost => q.lost)
      /\ (p.phase = "opening" => q.phase = "opening" \/ q.lost)
      /\ \A d \in Cmd : Pending(q, d) => Pending(p, d)
  <2> HIDE DEF p
  <2> QED
    BY <1>1, CancelGood
<1>3. Within(o, q) /\ active' = active /\ raced' = raced
  BY DEF CancelWork, Within, Inv, RestOK
<1> HIDE DEF q
<1>4. Allowed(p, q)
  BY <1>1, <1>2 DEF Allowed, Cmd
<1> QED
  BY <1>2, <1>3, <1>4, KeepStep DEF HasWorker, IsReal

LEMMA DelayedKillInv == ASSUME Inv, NEW o \in Object, DelayedKill(o) PROVE Inv' /\ Calm
<1> DEFINE p == obj[o]
           q == Drop(p)
<1>1. Good(p) /\ ~Quiet(p)
  BY DEF DelayedKill, Inv, ObjOK, Quiet
<1>2. /\ Good(q) /\ Same(p, q) /\ q.handle = "none" /\ q.phase = p.phase
      /\ q.lost = p.lost /\ q.hand = p.hand /\ q.told = p.told
  <2> HIDE DEF p
  <2> QED
    BY <1>1, DropGood
<1>3. Within(o, q) /\ active' = Uncounted({o}) /\ raced' = raced
  BY DEF DelayedKill, Within, Inv, RestOK
<1> HIDE DEF q
<1>4. Allowed(p, q)
  BY <1>1, <1>2 DEF Allowed, Pending, Inv, ObjOK
<1> QED
  BY <1>2, <1>3, <1>4, DropStep

LEMMA ForceCloseInv == ASSUME Inv, NEW o \in Object, ForceClose(o) PROVE Inv' /\ Calm
<1> DEFINE p == obj[o]
           q == force_close(p)
<1>1. Good(p)
  BY DEF Inv, ObjOK
<1>2. /\ Good(q) /\ Same(p, q)
      /\ q.handle = "none" /\ q.hand = {} /\ q.phase = "free"
      /\ (p.lost => q.lost) /\ (p.phase = "opening" => q.lost)
      /\ \A d \in Cmd : Pending(q, d) => Pending(p, d)
  <2> HIDE DEF p
  <2> QED
    BY <1>1, ForceGood
<1>3. Within(o, q) /\ active' = Uncounted({o}) /\ raced' = raced
  BY DEF ForceClose, Within, Inv, RestOK
<1> HIDE DEF q
<1>4. Allowed(p, q)
  BY <1>2 DEF Allowed, Quiet, Cmd
<1> QED
  BY <1>2, <1>3, <1>4, DropStep

LEMMA LeaverInv == ASSUME Inv, NEW o \in Object, LeaverStep(o) PROVE Inv' /\ Calm
<1> DEFINE p == obj[o]
<1>0. Good(p) /\ "leave" \in Awaited
  BY DEF Inv, ObjOK, Awaited, Cmd
<1>1. CASE DatabaseClosed(o)
  <2> DEFINE r == Drop(p)
             q == Resume(r, "leave")
  <2>1. /\ Good(r) /\ Same(p, r) /\ r.handle = "none" /\ r.phase = p.phase
        /\ r.lost = p.lost /\ r.hand = p.hand /\ r.told = p.told
    <3> HIDE DEF p
    <3> QED
      BY <1>0, DropGood
  <2>2. /\ Good(q) /\ Same(r, q)
        /\ q.phase = r.phase /\ q.handle = r.handle /\ q.lost = r.lost /\ q.hand = r.hand
        /\ \A d \in Cmd : Pending(q, d) => Pending(r, d)
    <3> HIDE DEF r
    <3> QED
      BY <1>0, <2>1, ResumeGood
  <2>3. Within(o, q) /\ active' = Uncounted({o}) /\ raced' = raced
    BY <1>1 DEF DatabaseClosed, Within, Inv, RestOK
  <2> HIDE DEF q, r
  <2>4. Allowed(p, q)
    BY <2>1, <2>2 DEF Allowed, Pending, Same, Inv, ObjOK, Quiet, Cmd
  <2> QED
    BY <2>1, <2>2, <2>3, <2>4, DropStep
<1>2. CASE DatabaseClosedByForce(o)
  <2> DEFINE r == force_close(p)
             q == Resume(r, "leave")
  <2>1. /\ Good(r) /\ Same(p, r)
        /\ r.handle = "none" /\ r.hand = {} /\ r.phase = "free"
        /\ (p.lost => r.lost) /\ (p.phase = "opening" => r.lost)
        /\ \A d \in Cmd : Pending(r, d) => Pending(p, d)
    <3> HIDE DEF p
    <3> QED
      BY <1>0, ForceGood
  <2>2. /\ Good(q) /\ Same(r, q)
        /\ q.phase = r.phase /\ q.handle = r.handle /\ q.lost = r.lost /\ q.hand = r.hand
        /\ \A d \in Cmd : Pending(q, d) => Pending(r, d)
    <3> HIDE DEF r
    <3> QED
      BY <1>0, <2>1, ResumeGood
  <2>3. Within(o, q) /\ active' = Uncounted({o}) /\ raced' = raced
    BY <1>2 DEF DatabaseClosedByForce, Within, Inv, RestOK
  <2> HIDE DEF q, r
  <2>4. Allowed(p, q)
    BY <2>1, <2>2 DEF Allowed, Same, Quiet, Cmd
  <2> QED
    BY <2>1, <2>2, <2>3, <2>4, DropStep
<1>3. CASE CloseDatabaseRaises(o)
  <2> DEFINE q == Resume(p, "leave")
  <2>1. /\ Good(q) /\ Same(p, q)
        /\ q.phase = p.phase /\ q.handle = p.handle /\ q.lost = p.lost /\ q.hand = p.hand
        /\ \A d \in Cmd : Pending(q, d) => Pending(p, d)
    <3> HIDE DEF p
    <3> QED
      BY <1>0, ResumeGood
  <2>2. Within(o, q) /\ active' = active /\ raced' = raced
    BY <1>3 DEF CloseDatabaseRaises, Within, Inv, RestOK
  <2> HIDE DEF q
  <2>3. Allowed(p, q)
    BY <2>1 DEF Allowed, Inv, ObjOK, Quiet, Cmd
  <2> QED
    BY <2>1, <2>2, <2>3, KeepStep DEF HasWorker, IsReal
<1> QED
  BY <1>1, <1>2, <1>3 DEF LeaverStep

-----------------------------------------------------------------------------
(* The commands of a project. *)

\* What leaves the queue and the told alone is good if the phase is.
LEMMA SameQueue ==
  ASSUME NEW p, Good(p), NEW q \in Proj,
         q.hand = p.hand, q.ahead = p.ahead, q.told = p.told,
         q.phase # "free" => HasFirst(p), q.phase \in {"spawning", "opening"} => q.handle = "none"
  PROVE  Good(q) /\ \A d \in Cmd : Pending(q, d) => Pending(p, d)
  BY DEF Good, PhaseOK, HasFirst, ToldOnce, Pending

\* Only the stage of the first command, or the worker, changes.
LEMMA StageGood ==
  ASSUME NEW p, Good(p), NEW ph \in Phase, NEW h \in {"none", "live", "dead"},
         ph # "free" => HasFirst(p), ph \in {"spawning", "opening"} => h = "none"
  PROVE  LET q == [p EXCEPT !.phase = ph, !.handle = h] IN
         /\ Good(q) /\ Same(p, q) /\ q.phase = ph /\ q.handle = h
         /\ q.lost = p.lost /\ q.hand = p.hand
         /\ \A d \in Cmd : Pending(q, d) => Pending(p, d)
<1> DEFINE q == [p EXCEPT !.phase = ph, !.handle = h]
<1>1. /\ q \in Proj /\ Same(p, q) /\ q.phase = ph /\ q.handle = h
      /\ q.lost = p.lost /\ q.hand = p.hand /\ q.ahead = p.ahead /\ q.told = p.told
  BY DEF Good, Proj, Same
<1>2. PhaseOK(q) /\ ToldOnce(q)
  BY <1>1 DEF PhaseOK, HasFirst, ToldOnce, Good
<1> QED
  BY <1>1, <1>2 DEF Good, Pending

LEMMA FirstOf ==
  ASSUME NEW o, NEW c, First(o, c)
  PROVE  c \in obj[o].hand /\ HasFirst(obj[o]) /\ ~Quiet(obj[o])
  BY DEF First, HasFirst, Quiet

LEMMA LoopInv ==
  ASSUME Inv, NEW o \in Object, LoopStep(o)
  PROVE  Inv' /\ (StartWorker(o) \/ Calm)
<1> DEFINE p == obj[o]
<1>0. Good(p) /\ p.phase \in Phase /\ p.handle \in {"none", "live", "dead"}
  BY DEF Inv, ObjOK, Good, Proj
<1>1. CASE UseWorker(o)
  <2> DEFINE q == [p EXCEPT !.phase = "serving", !.handle = "live"]
  <2>1. HasFirst(p) /\ ~Quiet(p) /\ p.handle = "live"
    BY <1>1, FirstOf DEF UseWorker
  <2>2. /\ Good(q) /\ Same(p, q) /\ q.phase = "serving" /\ q.handle = "live"
        /\ q.lost = p.lost /\ \A d \in Cmd : Pending(q, d) => Pending(p, d)
    <3> HIDE DEF p
    <3> QED
      BY <1>0, <2>1, StageGood DEF Phase
  <2>3. q = [p EXCEPT !.phase = "serving"]
    BY <1>0, <2>1 DEF Good, Proj
  <2>4. Within(o, q) /\ active' = active /\ raced' = raced
    BY <1>1, <2>3 DEF UseWorker, Within, Inv, RestOK
  <2> HIDE DEF q
  <2>5. Allowed(p, q)
    BY <2>1, <2>2 DEF Allowed, Inv, ObjOK, Cmd
  <2>6. p.phase = "free"
    BY <1>1 DEF UseWorker
  <2> QED
    BY <2>1, <2>2, <2>4, <2>5, <2>6, KeepStep DEF HasWorker, IsReal
<1>2. CASE StartWorker(o)
  <2> DEFINE q == [p EXCEPT !.phase = "spawning", !.handle = "none"]
  <2>1. HasFirst(p) /\ ~Quiet(p)
    BY <1>2, FirstOf DEF StartWorker
  <2>2. /\ Good(q) /\ Same(p, q) /\ q.phase = "spawning" /\ q.handle = "none"
        /\ q.lost = p.lost /\ \A d \in Cmd : Pending(q, d) => Pending(p, d)
    <3> HIDE DEF p
    <3> QED
      BY <1>0, <2>1, StageGood DEF Phase
  <2>3. q = [Drop(p) EXCEPT !.phase = "spawning"]
    BY <1>0 DEF Drop, Good, Proj
  <2>4. Within(o, q) /\ active' = Uncounted({o})
    BY <1>2, <2>3 DEF StartWorker, Within, Inv, RestOK
  <2> HIDE DEF q
  <2>5. Allowed(p, q)
    BY <2>1, <2>2 DEF Allowed, Inv, ObjOK, Cmd
  <2>6. p.phase = "free"
    BY <1>2 DEF StartWorker
  <2> QED
    BY <1>2, <2>2, <2>4, <2>5, <2>6, DropStep
<1>3. ASSUME RefuseWorker(o) \/ WorkerDead(o) PROVE Inv' /\ Calm
  <2>1. PICK c \in Cmd : First(o, c) /\ obj' = [obj EXCEPT ![o] = End(Drop(p), c)]
    BY <1>3 DEF RefuseWorker, WorkerDead
  <2> DEFINE r == Drop(p)
             q == End(r, c)
  <2>2. c \in p.hand /\ ~Quiet(p)
    BY <2>1, FirstOf
  <2>3. /\ Good(r) /\ Same(p, r) /\ r.handle = "none" /\ r.phase = p.phase
        /\ r.lost = p.lost /\ r.hand = p.hand /\ r.told = p.told
    <3> HIDE DEF p
    <3> QED
      BY <1>0, DropGood
  <2>4. /\ Good(q) /\ Same(r, q) /\ q.phase = "free" /\ q.handle = r.handle /\ q.lost = r.lost
        /\ \A d \in Cmd : Pending(q, d) => Pending(r, d)
    <3> HIDE DEF r
    <3> QED
      BY <2>2, <2>3, EndGood
  <2>5. Within(o, q) /\ active' = Uncounted({o}) /\ raced' = raced
    BY <1>3, <2>1 DEF RefuseWorker, WorkerDead, Within, Inv, RestOK
  <2> HIDE DEF q, r
  <2>6. Allowed(p, q)
    BY <2>2, <2>3, <2>4 DEF Allowed, Same, Pending, Inv, ObjOK, Cmd
  <2>7. p.phase \in {"free", "serving"}
    BY <1>3 DEF RefuseWorker, WorkerDead
  <2> QED
    BY <2>3, <2>4, <2>5, <2>6, <2>7, DropStep
<1> QED
  BY <1>1, <1>2, <1>3 DEF LoopStep

\* What a worker, or the process that was to be one, does to its project.
LEMMA WorkerInv ==
  ASSUME Inv, NEW o \in Object, WorkerStep(o) \/ Crash(o)
  PROVE  Inv' /\ (Spawned(o) \/ Calm)
<1> DEFINE p == obj[o]
<1>0. /\ Good(p) /\ p.phase \in Phase /\ p.handle \in {"none", "live", "dead"}
      /\ PhaseOK(p) /\ (p.fate # "absent" => p.id \in Id)
      /\ (p.fate \in {"absent", "closed"} => Quiet(p))
  BY DEF Inv, ObjOK, Good, Proj
<1>1. CASE Spawned(o)
  <2> DEFINE q == [p EXCEPT !.phase = "opening", !.handle = "none"]
  <2>1. p.phase = "spawning" /\ HasFirst(p) /\ ~Quiet(p) /\ p.handle = "none"
    BY <1>0, <1>1 DEF Spawned, PhaseOK, Quiet
  <2>2. /\ Good(q) /\ Same(p, q) /\ q.phase = "opening" /\ q.handle = "none"
        /\ q.lost = p.lost /\ \A d \in Cmd : Pending(q, d) => Pending(p, d)
    <3> HIDE DEF p
    <3> QED
      BY <1>0, <2>1, StageGood DEF Phase
  <2>3. q = [p EXCEPT !.phase = "opening"]
    BY <1>0, <2>1 DEF Good, Proj
  <2>4. Within(o, q) /\ active' = active \cup {p.id}
    BY <1>1, <2>3 DEF Spawned, Within, Inv, RestOK
  <2> HIDE DEF q
  <2>5. Allowed(p, q)
    BY <1>0, <2>1, <2>2 DEF Allowed, Cmd
  <2>6. p.id \in Id /\ active \in SUBSET Id
    BY <1>0, <2>1 DEF Inv, RestOK
  <2>7. Accounted(p, q)
    BY <2>2, <2>4, <2>6 DEF Accounted, IsReal, HasWorker
  <2> QED
    BY <1>1, <2>4, <2>5, <2>7, WithinStep
<1>2. CASE WorkerReady(o)
  <2> DEFINE q == [p EXCEPT !.phase = "serving", !.handle = "live"]
  <2>1. p.phase = "opening" /\ HasFirst(p) /\ ~Quiet(p)
    BY <1>0, <1>2 DEF WorkerReady, PhaseOK, Quiet
  <2>2. /\ Good(q) /\ Same(p, q) /\ q.phase = "serving" /\ q.handle = "live"
        /\ q.lost = p.lost /\ \A d \in Cmd : Pending(q, d) => Pending(p, d)
    <3> HIDE DEF p
    <3> QED
      BY <1>0, <2>1, StageGood DEF Phase
  <2>3. Within(o, q) /\ active' = active /\ raced' = raced
    BY <1>2 DEF WorkerReady, Within, Inv, RestOK
  <2> HIDE DEF q
  <2>4. Allowed(p, q)
    BY <1>0, <2>1, <2>2 DEF Allowed, Cmd
  <2> QED
    BY <2>1, <2>2, <2>3, <2>4, KeepStep DEF HasWorker, IsReal
<1>3. CASE Crash(o)
  <2> DEFINE q == [p EXCEPT !.handle = "dead"]
  <2>1. p.handle = "live" /\ p.phase \notin {"spawning", "opening"}
    BY <1>0, <1>3 DEF Crash, PhaseOK
  <2>2. /\ q \in Proj /\ Same(p, q) /\ q.phase = p.phase /\ q.handle = "dead"
        /\ q.lost = p.lost /\ q.hand = p.hand /\ q.ahead = p.ahead /\ q.told = p.told
    BY <1>0 DEF Good, Proj, Same
  <2>3. Good(q) /\ \A d \in Cmd : Pending(q, d) => Pending(p, d)
    <3> HIDE DEF q
    <3> QED
      BY <1>0, <2>1, <2>2, SameQueue DEF PhaseOK
  <2>4. Within(o, q) /\ active' = active /\ raced' = raced
    BY <1>3 DEF Crash, Within, Inv, RestOK
  <2> HIDE DEF q
  <2>5. Allowed(p, q)
    BY <1>0, <2>1, <2>2, <2>3 DEF Allowed, Cmd, Quiet
  <2> QED
    BY <2>1, <2>2, <2>4, <2>5, KeepStep DEF HasWorker, IsReal
<1>4. ASSUME SpawnFails(o) \/ OpenFails(o) \/ ConnectionReset(o) PROVE Inv' /\ Calm
  <2>1. PICK c \in Cmd : First(o, c) /\ obj' = [obj EXCEPT ![o] = End(p, c)]
    BY <1>4 DEF SpawnFails, OpenFails, ConnectionReset
  <2> DEFINE q == End(p, c)
  <2>2. c \in p.hand /\ ~Quiet(p)
    BY <2>1, FirstOf
  <2>3. /\ Good(q) /\ Same(p, q) /\ q.phase = "free" /\ q.handle = p.handle /\ q.lost = p.lost
        /\ \A d \in Cmd : Pending(q, d) => Pending(p, d)
    <3> HIDE DEF p
    <3> QED
      BY <1>0, <2>2, EndGood
  <2>4. Within(o, q) /\ raced' = raced
    BY <1>4, <2>1 DEF SpawnFails, OpenFails, ConnectionReset, Within, Inv, RestOK
  <2> HIDE DEF q
  <2>5. Allowed(p, q)
    BY <1>0, <2>2, <2>3 DEF Allowed, Cmd
  <2>6. CASE SpawnFails(o) \/ ConnectionReset(o)
    <3>1. active' = active /\ p.phase \in {"spawning", "serving"}
      BY <2>6 DEF SpawnFails, ConnectionReset
    <3> QED
      BY <2>3, <2>4, <2>5, <3>1, KeepStep DEF HasWorker, IsReal
  <2>7. CASE OpenFails(o)
    <3>1. active' = active \ {p.id} /\ p.phase = "opening" /\ p.handle = "none"
      BY <1>0, <2>7 DEF OpenFails, PhaseOK
    <3>2. active \in SUBSET Id
      BY DEF Inv, RestOK
    <3>3. Accounted(p, q)
      BY <2>3, <3>1, <3>2 DEF Accounted, HasWorker, IsReal
    <3>4. Calm
      BY <2>3, <2>4, <3>1 DEF Calm, Within, Inv, RestOK
    <3> QED
      BY <2>4, <2>5, <3>3, <3>4, WithinStep
  <2> QED
    BY <1>4, <2>6, <2>7
<1>5. CASE Served(o)
  <2> DEFINE r(c) == End(p, c)
             h(c) == IF c = "stop" THEN "dead" ELSE "live"
  <2>1. PICK c \in Cmd : First(o, c) /\ obj' = [obj EXCEPT ![o] = [r(c) EXCEPT !.handle = h(c)]]
    BY <1>5 DEF Served
  <2> DEFINE e == r(c)
             q == [e EXCEPT !.handle = h(c)]
  <2>2. c \in p.hand /\ ~Quiet(p) /\ p.handle = "live" /\ p.phase = "serving"
    BY <1>5, <2>1, FirstOf DEF Served
  <2>3. /\ Good(e) /\ Same(p, e) /\ e.phase = "free" /\ e.handle = p.handle /\ e.lost = p.lost
        /\ \A d \in Cmd : Pending(e, d) => Pending(p, d)
    <3> HIDE DEF p
    <3> QED
      BY <1>0, <2>2, EndGood
  <2> HIDE DEF e
  <2>4. h(c) \in {"live", "dead"}
    OBVIOUS
  <2> HIDE DEF h
  <2>5. /\ q \in Proj /\ Same(e, q) /\ q.phase = "free" /\ q.handle # "none"
        /\ q.lost = e.lost /\ q.hand = e.hand /\ q.ahead = e.ahead /\ q.told = e.told
    BY <2>3, <2>4 DEF Good, Proj, Same
  <2>6. Good(q) /\ \A d \in Cmd : Pending(q, d) => Pending(e, d)
    <3> HIDE DEF q
    <3> QED
      BY <2>3, <2>5, SameQueue
  <2>7. Within(o, q) /\ active' = active /\ raced' = raced
    BY <1>5, <2>1 DEF Served, Within, Inv, RestOK, e
  <2> HIDE DEF q
  <2>8. Allowed(p, q)
    BY <1>0, <2>2, <2>3, <2>5, <2>6 DEF Allowed, Same, Cmd
  <2>9. HasWorker(p) /\ IsReal(q) /\ q.phase # "spawning"
    BY <2>2, <2>5 DEF HasWorker, IsReal
  <2> QED
    BY <2>7, <2>8, <2>9, KeepStep
<1> QED
  BY <1>1, <1>2, <1>3, <1>4, <1>5 DEF WorkerStep

-----------------------------------------------------------------------------
(* Steps of the coroutines above the projects: they queue, cancel and resume. *)

\* The worker stays as it is, or is lost.
Alike(p, q) ==
  /\ Same(p, q) /\ q.handle = p.handle /\ q.phase \in {p.phase, "free"}
  /\ p.lost => q.lost
  /\ p.phase = "opening" => q.phase = "opening" \/ q.lost

LEMMA AlikeStep ==
  ASSUME Inv, RestOK', UNCHANGED <<projects, active, raced>>,
         \A x \in Object : Alike(obj[x], obj'[x]) /\ ObjOK(x)'
  PROVE  Inv' /\ Calm
<1>1. /\ \A x \in Object : IsReal(obj[x]) => IsReal(obj'[x])
      /\ \A x \in Object : HasWorker(obj'[x]) => HasWorker(obj[x])
      /\ \A x \in Object : obj'[x].id = obj[x].id /\ obj'[x].fate = obj[x].fate
  BY DEF Alike, Same, IsReal, HasWorker
<1>2. CountsAreReal'
  BY <1>1 DEF Inv, CountsAreReal, IsReal, HasWorker
<1>3. WorkersCounted'
  BY <1>1 DEF Inv, WorkersCounted, HasWorker
<1>4. Calm
  BY DEF Calm, Alike
<1> QED
  BY <1>2, <1>3, <1>4 DEF Inv

LEMMA CloseProjectInv == ASSUME Inv, NEW o \in Object, CloseProject(o) PROVE Inv' /\ Calm
<1> DEFINE p == obj[o]
           q == Submit(p, "close")
<1>1. Good(p) /\ ~Pending(p, "close") /\ p.fate = "open" /\ "close" \in Cmd
  BY NotPending DEF CloseProject, Registered, Inv, ObjOK, Cmd
<1>2. /\ Good(q) /\ Same(p, q)
      /\ q.phase = p.phase /\ q.handle = p.handle /\ q.lost = p.lost
      /\ \A d \in Cmd : Pending(q, d) => Pending(p, d) \/ d = "close"
  <2> HIDE DEF p
  <2> QED
    BY <1>1, SubmitGood
<1>3. /\ obj' = [obj EXCEPT ![o] = q] /\ closing = None /\ closing' = o
      /\ UNCHANGED <<projects, active, saver, saving, todo, server, ending, raced>>
  BY DEF CloseProject
<1> HIDE DEF q
<1>4. obj'[o] = q /\ \A x \in Object \ {o} : obj'[x] = obj[x]
  BY <1>3 DEF Inv, RestOK
<1>5. RestOK'
  BY <1>1, <1>2, <1>3, <1>4 DEF Inv, RestOK, Same
<1>6. ObjOK(o)'
  <2>1. ObjOK(o)
    BY DEF Inv
  <2> QED
    BY <1>1, <1>2, <1>3, <1>4, <2>1 DEF ObjOK, Owed, Same, Cmd
<1>7. ASSUME NEW x \in Object, x # o PROVE ObjOK(x)'
  <2>1. ObjOK(x) /\ obj'[x] = obj[x]
    BY <1>4, <1>7 DEF Inv
  <2>2. ~Pending(obj[x], "close")
    BY <1>3, <2>1, IdAssumption DEF ObjOK, Owed
  <2> QED
    BY <1>3, <2>1, <2>2 DEF ObjOK, Owed, Good
<1>8. \A x \in Object : Alike(obj[x], obj'[x])
  BY <1>2, <1>4 DEF Alike, Same
<1> QED
  BY <1>3, <1>5, <1>6, <1>7, <1>8, AlikeStep

LEMMA CloseRaisesInv == ASSUME Inv, CloseRaises PROVE Inv' /\ Calm
<1>0. PICK o \in Object : o = closing
  BY DEF CloseRaises, Inv, RestOK
<1> DEFINE p == obj[o]
           q == Resume(p, "close")
<1>1. "close" \in Awaited /\ "close" \in Cmd
  BY DEF Awaited, Cmd
<1>2. Good(p) /\ "close" \notin p.hand
  BY <1>0, <1>1 DEF Inv, ObjOK, Good, ToldOnce, CloseRaises
<1>3. /\ Good(q) /\ Same(p, q) /\ ~Pending(q, "close")
      /\ q.phase = p.phase /\ q.handle = p.handle /\ q.lost = p.lost /\ q.hand = p.hand
      /\ \A d \in Cmd : Pending(q, d) => Pending(p, d)
  <2> HIDE DEF p
  <2> QED
    BY <1>1, <1>2, ResumeGood
<1>4. /\ obj' = [obj EXCEPT ![o] = q] /\ closing' = None
      /\ UNCHANGED <<projects, active, saver, saving, todo, server, ending, raced>>
  BY <1>0 DEF CloseRaises
<1> HIDE DEF q
<1>5. obj'[o] = q /\ \A x \in Object \ {o} : obj'[x] = obj[x]
  BY <1>1, <1>4 DEF Inv, RestOK
<1>6. RestOK'
  BY <1>4 DEF Inv, RestOK
<1>7. ObjOK(o)'
  <2>1. ObjOK(o)
    BY <1>1 DEF Inv
  <2> QED
    BY <1>3, <1>4, <1>5, <2>1 DEF ObjOK, Owed, Same, Cmd, Quiet
<1>8. ASSUME NEW x \in Object, x # o PROVE ObjOK(x)'
  <2>1. ObjOK(x) /\ obj'[x] = obj[x]
    BY <1>5, <1>8 DEF Inv
  <2>2. ~Pending(obj[x], "close")
    BY <1>0, <1>8, <2>1 DEF ObjOK, Owed
  <2> QED
    BY <1>4, <2>1, <2>2 DEF ObjOK, Owed, Good
<1>9. \A x \in Object : Alike(obj[x], obj'[x])
  BY <1>3, <1>5 DEF Alike, Same
<1> QED
  BY <1>4, <1>6, <1>7, <1>8, <1>9, AlikeStep

\* close_project is done: the project is out of the table, its worker killed.
LEMMA CloseEndsInv == ASSUME Inv, CloseEnds PROVE Inv' /\ Calm
<1>0. PICK o \in Object : o = closing
  BY DEF CloseEnds, Inv, RestOK
<1> DEFINE p == obj[o]
           r == force_close(p)
           s == Resume(r, "close")
           q == Removed(o, s)
<1>1. /\ "close" \in Awaited /\ "close" \in Cmd
      /\ ending[o] \in Ending /\ Good(p) /\ p.fate = "open" /\ p.id \in Id
  BY <1>0, IdAssumption DEF CloseEnds, Inv, RestOK, ObjOK, Awaited, Cmd
<1>2. /\ Good(r) /\ Same(p, r) /\ r.handle = "none" /\ r.hand = {} /\ r.phase = "free"
      /\ (p.lost => r.lost)
      /\ \A d \in Cmd : Pending(r, d) => Pending(p, d)
  <2> HIDE DEF p
  <2> QED
    BY <1>1, ForceGood
<1> HIDE DEF r
<1>3. /\ Good(s) /\ Same(r, s) /\ ~Pending(s, "close")
      /\ s.phase = r.phase /\ s.handle = r.handle /\ s.lost = r.lost /\ s.hand = r.hand
      /\ \A d \in Cmd : Pending(s, d) => Pending(r, d)
  BY <1>1, <1>2, ResumeGood
<1> HIDE DEF s
<1>4. /\ Good(q) /\ q.id = s.id
      /\ q.fate = (IF s.hand = {} /\ ending[o] # "end" THEN "closed" ELSE "orphaned")
      /\ q.hand = s.hand /\ q.phase = s.phase /\ q.handle = s.handle /\ q.lost = s.lost
      /\ \A d \in Cmd : Pending(q, d) => Pending(s, d)
  BY <1>1, <1>3, RemovedGood
<1>5. /\ projects' = [projects EXCEPT ![p.id] = None] /\ obj' = [obj EXCEPT ![o] = q]
      /\ active' = Uncounted({o}) /\ closing' = None
      /\ UNCHANGED <<saver, saving, todo, server, ending, raced>>
  BY <1>0 DEF CloseEnds, r, s
<1> HIDE DEF q
<1>6. obj'[o] = q /\ \A x \in Object \ {o} : obj'[x] = obj[x]
  BY <1>1, <1>5 DEF Inv, RestOK
<1>7. /\ Quiet(q) /\ q.id = p.id /\ q.fate \in {"closed", "orphaned"}
      /\ (q.fate = "closed" => ending[o] # "end") /\ (p.lost => q.lost)
      /\ \A d \in Cmd : Pending(q, d) => Pending(p, d) /\ d # "close"
  BY <1>2, <1>3, <1>4 DEF Quiet, Same
<1>8. /\ p.handle = "none" => active' = active
      /\ p.handle # "none" => active' = active \ {p.id}
  BY <1>1, <1>5, UncountedOne
<1>9. RestOK'
  BY <1>5, <1>8 DEF Inv, RestOK
<1>10. ObjOK(o)'
  <2>1. ObjOK(o)
    BY <1>1 DEF Inv
  <2> QED
    BY <1>1, <1>4, <1>5, <1>6, <1>7, <2>1 DEF ObjOK, Owed, Cmd
<1>11. ASSUME NEW x \in Object, x # o PROVE ObjOK(x)'
  <2>1. ObjOK(x) /\ ObjOK(o) /\ obj'[x] = obj[x]
    BY <1>1, <1>6, <1>11 DEF Inv
  <2>2. ~Pending(obj[x], "close")
    BY <1>0, <1>11, <2>1 DEF ObjOK, Owed
  <2>3. obj[x].fate = "open" => obj[x].id # p.id
    BY <1>1, <1>11, <2>1 DEF ObjOK
  <2>4. obj[x].fate = "open" => projects'[obj[x].id] = x
    BY <1>5, <2>1, <2>3 DEF ObjOK, Inv, RestOK
  <2> QED
    BY <1>5, <2>1, <2>2, <2>4 DEF ObjOK, Owed, Good
<1>12. CountsAreReal'
  <2> SUFFICES ASSUME NEW i \in active'
               PROVE  \E x \in Object : obj'[x].id = i /\ IsReal(obj'[x])
    BY DEF CountsAreReal, IsReal, HasWorker
  <2>1. i \in active /\ (p.handle # "none" => i # p.id)
    BY <1>8
  <2>2. PICK x \in Object : obj[x].id = i /\ IsReal(obj[x])
    BY <2>1 DEF Inv, CountsAreReal, IsReal, HasWorker
  <2>3. CASE x = o
    <3>1. p.handle = "none"
      BY <2>1, <2>2, <2>3
    <3>2. p.lost \/ p.phase = "opening"
      BY <2>2, <2>3, <3>1 DEF IsReal, HasWorker
    <3>3. q.lost
      <4>1. p.phase = "opening" => r.lost
        BY <1>1, ForceGood DEF r
      <4> QED
        BY <1>2, <1>3, <1>4, <3>2, <4>1
    <3> QED
      BY <1>1, <1>6, <1>7, <2>2, <2>3, <3>3 DEF IsReal
  <2>4. CASE x # o
    BY <1>6, <2>2, <2>4
  <2> QED
    BY <2>3, <2>4
<1>13. WorkersCounted'
  <2> SUFFICES ASSUME NEW x \in Object, obj'[x].fate = "open", HasWorker(obj'[x]),
                      ~\E y \in Object : obj'[y].fate = "orphaned" /\ obj'[y].id = obj'[x].id
               PROVE  obj'[x].id \in active'
    BY DEF WorkersCounted, HasWorker
  <2>1. x # o /\ obj'[x] = obj[x]
    BY <1>6, <1>7
  <2>2. ~\E y \in Object : obj[y].fate = "orphaned" /\ obj[y].id = obj[x].id
    BY <1>1, <1>6, <2>1
  <2>3. obj[x].id \in active
    BY <2>1, <2>2 DEF Inv, WorkersCounted, HasWorker
  <2>4. obj[x].id # p.id
    BY <1>1, <2>1 DEF Inv, ObjOK
  <2> QED
    BY <1>8, <2>1, <2>3, <2>4
<1>14. Calm
  BY <1>5, <1>6, <1>7, <1>8 DEF Calm, Quiet
<1> QED
  BY <1>9, <1>10, <1>11, <1>12, <1>13, <1>14 DEF Inv

LEMMA OpenProjectInv == ASSUME Inv, NEW i \in Id, OpenProject(i) PROVE Inv' /\ Calm
<1>0. PICK o \in Object : /\ obj[o].fate = "absent"
                          /\ projects' = [projects EXCEPT ![i] = o]
                          /\ obj' = [obj EXCEPT ![o].id = i, ![o].fate = "open"]
  BY DEF OpenProject
<1> DEFINE p == obj[o]
           q == [p EXCEPT !.id = i, !.fate = "open"]
<1>1. Good(p) /\ Quiet(p) /\ ending[o] # "end"
  BY <1>0 DEF Inv, ObjOK
<1>2. /\ q \in Proj /\ q.id = i /\ q.fate = "open" /\ Quiet(q) /\ q.lost = p.lost
      /\ q.handle = p.handle /\ q.phase = p.phase
      /\ q.hand = p.hand /\ q.ahead = p.ahead /\ q.told = p.told
  BY <1>1 DEF Good, Proj, Fate, Quiet
<1>3. obj' = [obj EXCEPT ![o] = q]
  BY <1>0
<1> HIDE DEF q
<1>4. Good(q) /\ \A d \in Cmd : Pending(q, d) => Pending(p, d)
  BY <1>1, <1>2, SameQueue DEF Quiet
<1>5. obj'[o] = q /\ \A x \in Object \ {o} : obj'[x] = obj[x]
  BY <1>3 DEF Inv, RestOK
<1>6. /\ UNCHANGED <<active, closing, saver, saving, todo, server, ending, raced>>
      /\ server # "down" /\ projects[i] = None /\ closing = None
  BY DEF OpenProject
<1>7. RestOK'
  BY <1>0, <1>3, <1>6 DEF Inv, RestOK
<1>8. ObjOK(o)'
  <2>1. ObjOK(o)
    BY DEF Inv
  <2>2. projects'[i] = o
    BY <1>0 DEF Inv, RestOK
  <2> QED
    BY <1>2, <1>4, <1>5, <1>6, <2>1, <2>2 DEF ObjOK, Owed, Cmd
<1>9. ASSUME NEW x \in Object, x # o PROVE ObjOK(x)'
  <2>1. ObjOK(x) /\ obj'[x] = obj[x]
    BY <1>5, <1>9 DEF Inv
  <2>2. obj[x].fate = "open" => projects'[obj[x].id] = x
    BY <1>0, <1>6, <2>1, IdAssumption DEF ObjOK, Inv, RestOK
  <2> QED
    BY <1>6, <2>1, <2>2 DEF ObjOK, Owed, Good
<1>10. CountsAreReal'
  <2> SUFFICES ASSUME NEW j \in active'
               PROVE  \E x \in Object : obj'[x].id = j /\ IsReal(obj'[x])
    BY DEF CountsAreReal, IsReal, HasWorker
  <2>1. PICK x \in Object : obj[x].id = j /\ IsReal(obj[x])
    BY <1>6 DEF Inv, CountsAreReal, IsReal, HasWorker
  <2>2. CASE x = o
    <3>1. p.id = None /\ None \notin active
      BY <1>0, IdAssumption DEF Inv, ObjOK, RestOK, Good, Proj
    <3> QED
      BY <1>6, <2>1, <2>2, <3>1
  <2>3. CASE x # o
    BY <1>5, <2>1, <2>3
  <2> QED
    BY <2>2, <2>3
<1>11. WorkersCounted'
  <2>1. ~HasWorker(q) /\ p.fate = "absent"
    BY <1>0, <1>2 DEF HasWorker, Quiet
  <2> QED
    BY <1>2, <1>5, <1>6, <2>1 DEF Inv, WorkersCounted, HasWorker
<1>12. Calm
  BY <1>2, <1>5, <1>6 DEF Calm
<1> QED
  BY <1>7, <1>8, <1>9, <1>10, <1>11, <1>12 DEF Inv

LEMMA CloseAtOnceInv == ASSUME Inv, NEW o \in Object, CloseAtOnce(o) PROVE Inv' /\ Calm
<1> DEFINE p == obj[o]
           q == Removed(o, p)
<1>1. /\ ending[o] \in Ending /\ Good(p) /\ PhaseOK(p) /\ p.fate = "open" /\ p.handle = "none"
      /\ p.id \in Id /\ server # "down" /\ closing = None
  BY DEF CloseAtOnce, Registered, Inv, RestOK, ObjOK, Good
<1>2. /\ Good(q) /\ q.id = p.id
      /\ q.fate = (IF p.hand = {} /\ ending[o] # "end" THEN "closed" ELSE "orphaned")
      /\ q.hand = p.hand /\ q.phase = p.phase /\ q.handle = p.handle /\ q.lost = p.lost
      /\ \A d \in Cmd : Pending(q, d) => Pending(p, d)
  <2> HIDE DEF p
  <2> QED
    BY <1>1, RemovedGood
<1>3. /\ projects' = [projects EXCEPT ![p.id] = None] /\ obj' = [obj EXCEPT ![o] = q]
      /\ UNCHANGED <<active, closing, saver, saving, todo, server, ending, raced>>
  BY DEF CloseAtOnce
<1> HIDE DEF q
<1>4. obj'[o] = q /\ \A x \in Object \ {o} : obj'[x] = obj[x]
  BY <1>3 DEF Inv, RestOK
<1>5. RestOK'
  BY <1>1, <1>3 DEF Inv, RestOK
<1>6. q.fate = "closed" => Quiet(q) /\ ending[o] # "end"
  BY <1>1, <1>2 DEF Quiet, PhaseOK, HasFirst
<1>7. ObjOK(o)'
  <2>1. ObjOK(o)
    BY DEF Inv
  <2> QED
    BY <1>1, <1>2, <1>3, <1>4, <1>6, <2>1 DEF ObjOK, Owed, Cmd
<1>8. ASSUME NEW x \in Object, x # o PROVE ObjOK(x)'
  <2>1. ObjOK(x) /\ ObjOK(o) /\ obj'[x] = obj[x]
    BY <1>4, <1>8 DEF Inv
  <2>2. obj[x].fate = "open" => obj[x].id # p.id
    BY <1>1, <1>8, <2>1 DEF ObjOK
  <2>3. obj[x].fate = "open" => projects'[obj[x].id] = x
    BY <1>3, <2>1, <2>2 DEF ObjOK, Inv, RestOK
  <2> QED
    BY <1>3, <2>1, <2>3 DEF ObjOK, Owed, Good
<1>9. CountsAreReal'
  BY <1>2, <1>3, <1>4 DEF Inv, CountsAreReal
<1>10. WorkersCounted'
  BY <1>1, <1>2, <1>3, <1>4 DEF Inv, WorkersCounted
<1>11. Calm
  BY <1>2, <1>3, <1>4 DEF Calm
<1> QED
  BY <1>5, <1>7, <1>8, <1>9, <1>10, <1>11 DEF Inv

-----------------------------------------------------------------------------
(* The auto-save loop. *)

\* It goes on from ob, in which nobody is owed a save.
LEMMA NextSaveInv ==
  ASSUME Inv, server = "up", NEW T \in SUBSET Id, NEW ob, NextSave(T, ob),
         ob = [x \in Object |-> ob[x]],
         \A x \in Object : /\ Good(ob[x]) /\ Same(obj[x], ob[x]) /\ ~Pending(ob[x], "save")
                           /\ ob[x].handle = obj[x].handle /\ ob[x].phase = obj[x].phase
                           /\ ob[x].lost = obj[x].lost /\ ob[x].hand = obj[x].hand
                           /\ \A d \in Cmd : Pending(ob[x], d) => Pending(obj[x], d),
         UNCHANGED <<projects, active, closing, server, ending, raced>>
  PROVE  Inv' /\ Calm
<1>1. ASSUME NEW x \in Object, obj'[x] = ob[x] PROVE ObjOK(x)'
  <2>1. ObjOK(x)
    BY DEF Inv
  <2> QED
    BY <1>1, <2>1 DEF ObjOK, Owed, Same, Quiet, Cmd
<1>2. ASSUME NEW x \in Object, obj'[x] = ob[x] PROVE Alike(obj[x], obj'[x])
  BY <1>2 DEF Alike, Same
<1>3. CASE saver' = "sleep" /\ saving' = None /\ todo' = {} /\ obj' = ob
  <2>1. RestOK'
    BY <1>3 DEF Inv, RestOK, Same, Saver
  <2> QED
    BY <1>1, <1>2, <1>3, <2>1, AlikeStep
<1>4. ASSUME NEW i \in T, NEW S \in SUBSET T, Saveable(i),
             saver' = "wait", saving' = projects[i], todo' = T \ (S \cup {i}),
             obj' = [ob EXCEPT ![projects[i]] = Submit(@, "save")]
      PROVE  Inv' /\ Calm
  <2>0. PICK o \in Object : o = projects[i] /\ obj[o].handle # "none"
    BY <1>4 DEF Saveable, Inv, RestOK
  <2> DEFINE p == ob[o]
             q == Submit(p, "save")
  <2>1. Good(p) /\ ~Pending(p, "save") /\ "save" \in Cmd
    BY DEF Cmd
  <2>2. /\ Good(q) /\ Same(p, q)
        /\ q.phase = p.phase /\ q.handle = p.handle /\ q.lost = p.lost
        /\ \A d \in Cmd : Pending(q, d) => Pending(p, d) \/ d = "save"
    <3> HIDE DEF p
    <3> QED
      BY <2>1, SubmitGood
  <2>3. obj' = [ob EXCEPT ![o] = q]
    BY <1>4, <2>0
  <2> HIDE DEF q
  <2>4. obj'[o] = q /\ \A x \in Object \ {o} : obj'[x] = ob[x]
    BY <2>3
  <2>5. RestOK'
    <3>1. obj' = [x \in Object |-> obj'[x]] /\ DOMAIN obj' = Object
      BY <2>3
    <3>2. closing' # None /\ server' # "down" => obj'[closing'].fate = "open"
      BY <2>2, <2>4 DEF Inv, RestOK, Same
    <3>3. saving' = o /\ o # None /\ saver' = "wait"
      BY <1>4, <2>0, IdAssumption
    <3> QED
      BY <1>4, <3>1, <3>2, <3>3 DEF Inv, RestOK, Saver
  <2>6. ObjOK(o)'
    <3>1. ObjOK(o)
      BY DEF Inv
    <3>2. obj[o].fate \notin {"absent", "closed"}
      BY <2>0, <3>1 DEF ObjOK, Quiet
    <3> QED
      BY <1>4, <2>0, <2>2, <2>4, <3>1, <3>2 DEF ObjOK, Owed, Same, Cmd
  <2>7. Alike(obj[o], obj'[o])
    BY <2>2, <2>4 DEF Alike, Same
  <2> QED
    BY <1>1, <1>2, <2>4, <2>5, <2>6, <2>7, AlikeStep
<1> QED
  BY <1>3, <1>4 DEF NextSave

\* The project whose save has ended is told so, and no save is in hand or to be told.
LEMMA SavingResumes ==
  ASSUME Inv, saver = "wait", obj[saving].told["save"] # "no"
  PROVE  LET ob == [obj EXCEPT ![saving] = Resume(@, "save")] IN
         /\ saving \in Object
         /\ ob = [x \in Object |-> ob[x]]
         /\ \A x \in Object : /\ Good(ob[x]) /\ Same(obj[x], ob[x]) /\ ~Pending(ob[x], "save")
                              /\ ob[x].handle = obj[x].handle /\ ob[x].phase = obj[x].phase
                              /\ ob[x].lost = obj[x].lost /\ ob[x].hand = obj[x].hand
                              /\ \A d \in Cmd : Pending(ob[x], d) => Pending(obj[x], d)
<1>0. PICK o \in Object : o = saving
  BY DEF Inv, RestOK
<1> DEFINE p == obj[o]
           q == Resume(p, "save")
           ob == [obj EXCEPT ![saving] = Resume(@, "save")]
<1>1. "save" \in Awaited /\ Good(p) /\ "save" \notin p.hand
  BY <1>0 DEF Awaited, Cmd, Inv, ObjOK, Good, ToldOnce
<1>2. /\ Good(q) /\ Same(p, q) /\ ~Pending(q, "save")
      /\ q.phase = p.phase /\ q.handle = p.handle /\ q.lost = p.lost /\ q.hand = p.hand
      /\ \A d \in Cmd : Pending(q, d) => Pending(p, d)
  <2> HIDE DEF p
  <2> QED
    BY <1>1, ResumeGood
<1>3. ob = [obj EXCEPT ![o] = q]
  BY <1>0
<1> HIDE DEF q, ob
<1>4. ob[o] = q /\ ob = [x \in Object |-> ob[x]] /\ \A x \in Object \ {o} : ob[x] = obj[x]
  BY <1>3 DEF Inv, RestOK
<1>5. ASSUME NEW x \in Object, x # o
      PROVE  Good(obj[x]) /\ ~Pending(obj[x], "save")
  BY <1>0, <1>5 DEF Inv, ObjOK, Owed
<1> QED
  BY <1>0, <1>2, <1>4, <1>5 DEF ob, Same

LEMMA SaverInv == ASSUME Inv, SaverWakes \/ SaverStep PROVE Inv' /\ Calm
<1>1. CASE SaverWakes
  <2>1. /\ server = "up" /\ NextSave(active, obj) /\ active \in SUBSET Id
        /\ UNCHANGED <<projects, active, closing, server, ending, raced>>
        /\ obj = [x \in Object |-> obj[x]] /\ saving = None
    BY <1>1 DEF SaverWakes, Inv, RestOK
  <2>2. \A x \in Object : Good(obj[x]) /\ ~Pending(obj[x], "save")
    BY <2>1, IdAssumption DEF Inv, ObjOK, Owed
  <2> QED
    BY <2>1, <2>2, NextSaveInv DEF Same
<1>2. CASE SaverGoesOn
  <2> DEFINE ob == [obj EXCEPT ![saving] = Resume(@, "save")]
  <2>1. /\ server = "up" /\ NextSave(todo, ob) /\ todo \in SUBSET Id
        /\ UNCHANGED <<projects, active, closing, server, ending, raced>>
        /\ saver = "wait" /\ obj[saving].told["save"] # "no"
    BY <1>2 DEF SaverGoesOn, Inv, RestOK
  <2>2. /\ ob = [x \in Object |-> ob[x]]
        /\ \A x \in Object : /\ Good(ob[x]) /\ Same(obj[x], ob[x]) /\ ~Pending(ob[x], "save")
                             /\ ob[x].handle = obj[x].handle /\ ob[x].phase = obj[x].phase
                             /\ ob[x].lost = obj[x].lost /\ ob[x].hand = obj[x].hand
                             /\ \A d \in Cmd : Pending(ob[x], d) => Pending(obj[x], d)
    BY <2>1, SavingResumes
  <2> HIDE DEF ob
  <2> QED
    BY <2>1, <2>2, NextSaveInv
<1>3. CASE SaverDies
  <2> DEFINE ob == [obj EXCEPT ![saving] = Resume(@, "save")]
  <2>1. /\ server = "up" /\ obj' = ob /\ saver' = "dead" /\ saving' = None /\ todo' = {}
        /\ UNCHANGED <<projects, active, closing, server, ending, raced>>
        /\ saver = "wait" /\ obj[saving].told["save"] # "no"
    BY <1>3 DEF SaverDies
  <2>2. /\ ob = [x \in Object |-> ob[x]]
        /\ \A x \in Object : /\ Good(ob[x]) /\ Same(obj[x], ob[x]) /\ ~Pending(ob[x], "save")
                             /\ ob[x].handle = obj[x].handle /\ ob[x].phase = obj[x].phase
                             /\ ob[x].lost = obj[x].lost /\ ob[x].hand = obj[x].hand
                             /\ \A d \in Cmd : Pending(ob[x], d) => Pending(obj[x], d)
    BY <2>1, SavingResumes
  <2> HIDE DEF ob
  <2>3. RestOK'
    BY <2>1, <2>2 DEF Inv, RestOK, Same, Saver
  <2>4. ASSUME NEW x \in Object PROVE ObjOK(x)' /\ Alike(obj[x], obj'[x])
    <3>1. ObjOK(x)
      BY DEF Inv
    <3> QED
      BY <2>1, <2>2, <3>1 DEF ObjOK, Owed, Same, Quiet, Alike, Cmd
  <2> QED
    BY <2>1, <2>3, <2>4, AlikeStep
<1> QED
  BY <1>1, <1>2, <1>3 DEF SaverStep

-----------------------------------------------------------------------------
(* shutdown(). *)

LEMMA ShutdownStartsInv == ASSUME Inv, ShutdownStarts PROVE Inv' /\ Calm
<1>1. /\ server = "up" /\ server' = "stopping" /\ saver' = "off" /\ saving' = None /\ todo' = {}
      /\ UNCHANGED <<projects, active, closing, ending, raced>>
  BY DEF ShutdownStarts
<1>2. CASE saver = "wait"
  <2>0. PICK o \in Object : o = saving
    BY <1>2 DEF Inv, RestOK
  <2> DEFINE p == obj[o]
             r == Cancel(p, {"save"})
             q == Resume(r, "save")
  <2>1. Good(p) /\ {"save"} \in SUBSET Cmd /\ "save" \in Awaited
    BY DEF Inv, ObjOK, Awaited, Cmd
  <2>2. /\ Good(r) /\ Same(p, r) /\ r.handle = p.handle /\ r.hand = p.hand \ {"save"}
        /\ r.phase \in {p.phase, "free"} /\ (p.lost => r.lost)
        /\ (p.phase = "opening" => r.phase = "opening" \/ r.lost)
        /\ \A d \in Cmd : Pending(r, d) => Pending(p, d)
    <3> HIDE DEF p
    <3> QED
      BY <2>1, CancelGood
  <2> HIDE DEF r
  <2>3. /\ Good(q) /\ Same(r, q) /\ ~Pending(q, "save")
        /\ q.phase = r.phase /\ q.handle = r.handle /\ q.lost = r.lost /\ q.hand = r.hand
        /\ \A d \in Cmd : Pending(q, d) => Pending(r, d)
    BY <2>1, <2>2, ResumeGood
  <2>4. obj' = [obj EXCEPT ![o] = q]
    BY <1>2, <2>0 DEF ShutdownStarts, r
  <2> HIDE DEF q
  <2>5. obj'[o] = q /\ \A x \in Object \ {o} : obj'[x] = obj[x]
    BY <2>4 DEF Inv, RestOK
  <2>6. RestOK'
    BY <1>1, <2>2, <2>3, <2>4, <2>5 DEF Inv, RestOK, Same, Saver, Server
  <2>7. ObjOK(o)' /\ Alike(obj[o], obj'[o])
    <3>1. ObjOK(o)
      BY DEF Inv
    <3> QED
      BY <1>1, <2>2, <2>3, <2>5, <3>1 DEF ObjOK, Owed, Same, Quiet, Alike, Cmd
  <2>8. ASSUME NEW x \in Object, x # o PROVE ObjOK(x)' /\ Alike(obj[x], obj'[x])
    <3>1. ObjOK(x) /\ obj'[x] = obj[x]
      BY <2>5, <2>8 DEF Inv
    <3>2. ~Pending(obj[x], "save")
      BY <2>0, <2>8, <3>1 DEF ObjOK, Owed
    <3> QED
      BY <1>1, <3>1, <3>2 DEF ObjOK, Owed, Good, Same, Alike
  <2> QED
    BY <1>1, <2>6, <2>7, <2>8, AlikeStep
<1>3. CASE saver # "wait"
  <2>1. obj' = obj /\ saving = None
    BY <1>3 DEF ShutdownStarts, Inv, RestOK
  <2>2. RestOK'
    BY <1>1, <2>1 DEF Inv, RestOK, Saver, Server
  <2>3. ASSUME NEW x \in Object PROVE ObjOK(x)' /\ Alike(obj[x], obj'[x])
    <3>1. ObjOK(x)
      BY DEF Inv
    <3> QED
      BY <1>1, <2>1, <3>1 DEF ObjOK, Owed, Good, Same, Alike
  <2> QED
    BY <1>1, <2>2, <2>3, AlikeStep
<1> QED
  BY <1>2, <1>3

LEMMA GracefulCloseInv == ASSUME Inv, GracefulClose PROVE Inv' /\ Calm
<1> DEFINE live == {o \in Object : Registered(o) /\ obj[o].handle = "live"}
<1>1. /\ server = "stopping" /\ server' = "closing"
      /\ ending' = [o \in Object |-> IF o \in live THEN "end" ELSE "no"]
      /\ obj' = [o \in Object |-> IF o \in live THEN Submit(obj[o], "end") ELSE obj[o]]
      /\ UNCHANGED <<projects, active, closing, saver, saving, todo, raced>>
  BY DEF GracefulClose
<1>2. ASSUME NEW x \in Object PROVE ObjOK(x)' /\ Alike(obj[x], obj'[x])
  <2> DEFINE p == obj[x]
             q == Submit(p, "end")
  <2>1. ObjOK(x) /\ ending[x] = "no"
    BY <1>1 DEF Inv, RestOK
  <2>2. Good(p) /\ ~Pending(p, "end") /\ ~Pending(p, "stop") /\ "end" \in Cmd
    BY <2>1 DEF ObjOK, Owed, Cmd
  <2>3. CASE x \in live
    <3>1. /\ Good(q) /\ Same(p, q)
          /\ q.phase = p.phase /\ q.handle = p.handle /\ q.lost = p.lost
          /\ \A d \in Cmd : Pending(q, d) => Pending(p, d) \/ d = "end"
      <4> HIDE DEF p
      <4> QED
        BY <2>2, SubmitGood
    <3>2. obj'[x] = q /\ ending'[x] = "end" /\ p.fate = "open"
      BY <1>1, <2>3 DEF Registered
    <3> HIDE DEF q
    <3> QED
      BY <1>1, <2>1, <2>2, <3>1, <3>2 DEF ObjOK, Owed, Same, Alike, Cmd
  <2>4. CASE x \notin live
    <3>1. obj'[x] = p /\ ending'[x] = "no"
      BY <1>1, <2>4
    <3> QED
      BY <1>1, <2>1, <2>2, <3>1 DEF ObjOK, Owed, Good, Same, Alike
  <2> QED
    BY <2>3, <2>4
<1>3. RestOK'
  <2>1. \A x \in Object : obj'[x].fate = obj[x].fate
    BY <1>2 DEF Alike, Same
  <2>2. ending' \in [Object -> Ending]
    BY <1>1 DEF Ending
  <2>3. DOMAIN obj' = Object /\ obj' = [o \in Object |-> obj'[o]]
    BY <1>1
  <2> HIDE DEF live
  <2> QED
    BY <1>1, <2>1, <2>2, <2>3 DEF Inv, RestOK, Server
<1> QED
  BY <1>1, <1>2, <1>3, AlikeStep

LEMMA EndToStopInv == ASSUME Inv, NEW o \in Object, EndToStop(o) PROVE Inv' /\ Calm
<1> DEFINE p == obj[o]
           r == Resume(p, "end")
           q == Submit(r, "stop")
<1>1. /\ server = "closing" /\ ending[o] = "end" /\ ending' = [ending EXCEPT ![o] = "stop"]
      /\ obj' = [obj EXCEPT ![o] = q] /\ p.told["end"] = "done"
      /\ UNCHANGED <<projects, active, closing, saver, saving, todo, server, raced>>
  BY DEF EndToStop
<1>2. /\ ObjOK(o) /\ Good(p) /\ "end" \in Awaited /\ "end" \notin p.hand /\ "stop" \in Cmd
      /\ ~Pending(p, "stop")
  BY <1>1 DEF Inv, ObjOK, Owed, Good, ToldOnce, Awaited, Cmd
<1>3. /\ Good(r) /\ Same(p, r) /\ ~Pending(r, "end") /\ ~Pending(r, "stop")
      /\ r.phase = p.phase /\ r.handle = p.handle /\ r.lost = p.lost /\ r.hand = p.hand
      /\ \A d \in Cmd : Pending(r, d) => Pending(p, d)
  <2> HIDE DEF p
  <2> QED
    BY <1>2, ResumeGood
<1> HIDE DEF r
<1>4. /\ Good(q) /\ Same(r, q)
      /\ q.phase = r.phase /\ q.handle = r.handle /\ q.lost = r.lost
      /\ \A d \in Cmd : Pending(q, d) => Pending(r, d) \/ d = "stop"
  BY <1>2, <1>3, SubmitGood
<1> HIDE DEF q
<1>5. /\ obj'[o] = q /\ ending'[o] = "stop"
      /\ \A x \in Object \ {o} : obj'[x] = obj[x] /\ ending'[x] = ending[x]
  BY <1>1 DEF Inv, RestOK
<1>6. RestOK'
  BY <1>1, <1>3, <1>4, <1>5 DEF Inv, RestOK, Same, Ending
<1>7. ObjOK(o)' /\ Alike(obj[o], obj'[o])
  BY <1>1, <1>2, <1>3, <1>4, <1>5 DEF ObjOK, Owed, Same, Alike, Cmd
<1>8. ASSUME NEW x \in Object, x # o PROVE ObjOK(x)' /\ Alike(obj[x], obj'[x])
  <2>1. ObjOK(x) /\ obj'[x] = obj[x] /\ ending'[x] = ending[x]
    BY <1>5, <1>8 DEF Inv
  <2> QED
    BY <1>1, <2>1 DEF ObjOK, Owed, Good, Same, Alike
<1> QED
  BY <1>1, <1>6, <1>7, <1>8, AlikeStep

LEMMA EndOverInv == ASSUME Inv, NEW o \in Object, EndOver(o) PROVE Inv' /\ Calm
<1>0. PICK c \in {"end", "stop"} : c = ending[o]
  BY DEF EndOver
<1> DEFINE p == obj[o]
           r == Cancel(p, {c})
           q == Resume(r, c)
<1>1. /\ server = "closing" /\ ending' = [ending EXCEPT ![o] = "over"]
      /\ obj' = [obj EXCEPT ![o] = q]
      /\ UNCHANGED <<projects, active, closing, saver, saving, todo, server, raced>>
  BY <1>0 DEF EndOver
<1>2. /\ ObjOK(o) /\ Good(p) /\ c \in Awaited /\ {c} \in SUBSET Cmd
      /\ \A d \in {"end", "stop"} : d # c => ~Pending(p, d)
  BY <1>0 DEF Inv, ObjOK, Owed, Awaited, Cmd
<1>3. /\ Good(r) /\ Same(p, r) /\ r.handle = p.handle /\ r.hand = p.hand \ {c}
      /\ r.phase \in {p.phase, "free"} /\ (p.lost => r.lost)
      /\ (p.phase = "opening" => r.phase = "opening" \/ r.lost)
      /\ \A d \in Cmd : Pending(r, d) => Pending(p, d)
  <2> HIDE DEF p
  <2> QED
    BY <1>2, CancelGood
<1> HIDE DEF r
<1>4. /\ Good(q) /\ Same(r, q) /\ ~Pending(q, c)
      /\ q.phase = r.phase /\ q.handle = r.handle /\ q.lost = r.lost /\ q.hand = r.hand
      /\ \A d \in Cmd : Pending(q, d) => Pending(r, d)
  BY <1>2, <1>3, ResumeGood
<1> HIDE DEF q
<1>5. /\ obj'[o] = q /\ ending'[o] = "over"
      /\ \A x \in Object \ {o} : obj'[x] = obj[x] /\ ending'[x] = ending[x]
  BY <1>1 DEF Inv, RestOK
<1>6. RestOK'
  BY <1>1, <1>3, <1>4, <1>5 DEF Inv, RestOK, Same, Ending
<1>7. \A d \in {"end", "stop"} : ~Pending(q, d)
  BY <1>2, <1>3, <1>4 DEF Cmd
<1>8. ObjOK(o)' /\ Alike(obj[o], obj'[o])
  BY <1>1, <1>2, <1>3, <1>4, <1>5, <1>7 DEF ObjOK, Owed, Same, Quiet, Alike, Cmd
<1>9. ASSUME NEW x \in Object, x # o PROVE ObjOK(x)' /\ Alike(obj[x], obj'[x])
  <2>1. ObjOK(x) /\ obj'[x] = obj[x] /\ ending'[x] = ending[x]
    BY <1>5, <1>9 DEF Inv
  <2> QED
    BY <1>1, <2>1 DEF ObjOK, Owed, Good, Same, Alike
<1> QED
  BY <1>1, <1>6, <1>8, <1>9, AlikeStep

LEMMA ShutdownEndsInv == ASSUME Inv, ShutdownEnds PROVE Inv' /\ Calm
<1> DEFINE left == {o \in Object : Registered(o)}
<1>1. /\ server = "closing" /\ server' = "down" /\ projects' = [i \in Id |-> None]
      /\ \A x \in Object : ending[x] \in {"no", "over"}
      /\ obj' = [o \in Object |-> IF o \in left THEN Removed(o, force_close(obj[o])) ELSE obj[o]]
      /\ active' = Uncounted(left)
      /\ UNCHANGED <<closing, saver, saving, todo, ending, raced>>
  BY DEF ShutdownEnds
<1>2. ASSUME NEW x \in Object
      PROVE  /\ ObjOK(x)' /\ obj'[x].id = obj[x].id /\ obj'[x].fate # "open"
             /\ (obj'[x].phase = "spawning" => obj[x].phase = "spawning")
             /\ (IsReal(obj[x]) /\ obj[x].id \in active' => IsReal(obj'[x]))
  <2> DEFINE p == obj[x]
             r == force_close(p)
             q == Removed(x, r)
  <2>1. ObjOK(x) /\ Good(p) /\ ending[x] \in Ending /\ ending[x] # "end"
    BY <1>1 DEF Inv, RestOK, ObjOK
  <2>2. CASE x \in left
    <3>1. /\ Good(r) /\ Same(p, r) /\ r.handle = "none" /\ r.hand = {} /\ r.phase = "free"
          /\ (p.lost => r.lost) /\ (p.phase = "opening" => r.lost)
          /\ \A d \in Cmd : Pending(r, d) => Pending(p, d)
      <4> HIDE DEF p
      <4> QED
        BY <2>1, ForceGood
    <3> HIDE DEF r
    <3>2. /\ Good(q) /\ q.id = r.id /\ q.fate = "closed"
          /\ q.hand = r.hand /\ q.phase = r.phase /\ q.handle = r.handle /\ q.lost = r.lost
          /\ \A d \in Cmd : Pending(q, d) => Pending(r, d)
      <4>1. r.hand = {} /\ ending[x] # "end"
        BY <2>1, <3>1
      <4> QED
        BY <2>1, <3>1, <4>1, RemovedGood
    <3>3. obj'[x] = q /\ p.fate = "open"
      BY <1>1, <2>2 DEF r, Registered
    <3> HIDE DEF q
    <3>4. IsReal(p) /\ p.id \in active' => q.lost
      <4>1. p.handle # "none" => p.id \notin active'
        BY <1>1, <2>2 DEF Uncounted
      <4> QED
        BY <3>1, <3>2, <4>1 DEF IsReal, HasWorker
    <3> QED
      BY <1>1, <2>1, <3>1, <3>2, <3>3, <3>4 DEF ObjOK, Owed, Same, Quiet, IsReal, Cmd
  <2>3. CASE x \notin left
    <3>1. obj'[x] = p /\ p.fate # "open"
      BY <1>1, <2>3 DEF Registered
    <3> QED
      BY <1>1, <2>1, <3>1 DEF ObjOK, Owed, Good
  <2> QED
    BY <2>2, <2>3
<1>3. active' \subseteq active
  BY <1>1 DEF Uncounted
<1>4. RestOK'
  <2>1. DOMAIN obj' = Object /\ obj' = [o \in Object |-> obj'[o]]
    BY <1>1
  <2> HIDE DEF left
  <2> QED
    BY <1>1, <1>3, <2>1 DEF Inv, RestOK, Server
<1>5. CountsAreReal'
  <2> SUFFICES ASSUME NEW i \in active'
               PROVE  \E x \in Object : obj'[x].id = i /\ IsReal(obj'[x])
    BY DEF CountsAreReal, IsReal, HasWorker
  <2>1. PICK x \in Object : obj[x].id = i /\ IsReal(obj[x])
    BY <1>3 DEF Inv, CountsAreReal, IsReal, HasWorker
  <2> QED
    BY <1>2, <2>1
<1>6. WorkersCounted'
  BY <1>2 DEF WorkersCounted
<1>7. Calm
  BY <1>1, <1>2, <1>3 DEF Calm
<1> QED
  BY <1>2, <1>4, <1>5, <1>6, <1>7 DEF Inv

-----------------------------------------------------------------------------
(* The theorems. *)

\* Every step keeps the invariant, and only two of them bring a worker nearer.
LEMMA NextInv ==
  ASSUME Inv, [Next]_vars
  PROVE  Inv' /\ (Calm \/ \E o \in Object : StartWorker(o) \/ Spawned(o))
<1>1. CASE \E i \in Id : OpenProject(i)
  BY <1>1, OpenProjectInv
<1>2. CASE \E o \in Object : Work(o) \/ CancelWork(o) \/ DelayedKill(o) \/ ForceClose(o)
  BY <1>2, WorkInv, CancelWorkInv, DelayedKillInv, ForceCloseInv
<1>3. CASE \E o \in Object : CloseDatabase(o) \/ LeaverStep(o)
  BY <1>3, CloseDatabaseInv, LeaverInv
<1>4. CASE \E o \in Object : CloseAtOnce(o) \/ CloseProject(o)
  BY <1>4, CloseAtOnceInv, CloseProjectInv
<1>5. CASE \E o \in Object : LoopStep(o) \/ WorkerStep(o) \/ Crash(o)
  BY <1>5, LoopInv, WorkerInv
<1>6. CASE SaverWakes \/ SaverStep
  BY <1>6, SaverInv
<1>7. CASE CloserStep
  BY <1>7, CloseEndsInv, CloseRaisesInv DEF CloserStep
<1>8. CASE ShutdownStarts \/ ShutdownStep
  BY <1>8, ShutdownStartsInv, GracefulCloseInv, ShutdownEndsInv, EndToStopInv, EndOverInv
     DEF ShutdownStep
<1>9. CASE UNCHANGED vars
  <2>1. Calm
    BY <1>9 DEF vars, Calm
  <2>2. RestOK'
    BY <1>9 DEF vars, Inv, RestOK
  <2>3. ASSUME NEW x \in Object PROVE ObjOK(x)'
    <3>1. ObjOK(x)
      BY DEF Inv
    <3> QED
      BY <1>9, <3>1 DEF vars, ObjOK, Owed, Good
  <2>4. CountsAreReal' /\ WorkersCounted'
    BY <1>9 DEF vars, Inv, CountsAreReal, WorkersCounted
  <2> QED
    BY <2>1, <2>2, <2>3, <2>4 DEF Inv
<1> QED
  BY <1>1, <1>2, <1>3, <1>4, <1>5, <1>6, <1>7, <1>8, <1>9 DEF Next

LEMMA SpecInv == Spec => []Inv
<1>1. Inv /\ [Next]_vars => Inv'
  BY NextInv
<1> QED
  BY <1>1, InitInv, PTL DEF Spec

\* Every variable keeps its type.
THEOREM TypeCorrect == Spec => []TypeOK
  BY SpecInv, InvType, PTL

\* A closed project has no worker and nothing in hand, and after a shutdown no
\* project is open.
THEOREM NothingOutlivesItsProject == Spec => []NothingOutlives
  BY SpecInv, InvNothingOutlives, PTL

\* The Limiter counts the worker of every open project whose id was not orphaned.
THEOREM EveryWorkerCounted == Spec => []WorkersCounted
<1>1. Inv => WorkersCounted
  BY DEF Inv
<1> QED
  BY <1>1, SpecInv, PTL

\* What the Limiter counts is, or was when the project forgot it, a worker.
THEOREM EveryCountReal == Spec => []CountsAreReal
<1>1. Inv => CountsAreReal
  BY DEF Inv
<1> QED
  BY <1>1, SpecInv, PTL

-----------------------------------------------------------------------------
(* Who may cancel a save. *)

\* A step from p to q cancels no save of a command, unless it leaves q without any
\* command and without a worker.
Spared(p, q) ==
  q.told["save"] = "raised" => p.told["save"] = "raised" \/ (q.handle = "none" /\ q.hand = {})

AllSpared == \A x \in Object : Spared(obj[x], obj'[x])

\* What the parts of steps make of the save: all but a forced close spare it.
LEMMA PartsSpare ==
  ASSUME NEW p, Good(p)
  PROVE  /\ \A c \in Cmd : Spared(p, Submit(p, c))
         /\ \A c \in Awaited : Spared(p, Resume(p, c))
         /\ \A c \in Cmd : Spared(p, End(p, c)) /\ Spared(p, End(Drop(p), c))
         /\ \A C \in SUBSET Cmd : "save" \notin C => Spared(p, Cancel(p, C))
         /\ Spared(p, Drop(p)) /\ Spared(p, force_close(p))
<1>1. p \in Proj /\ "save" \in Awaited
  BY DEF Good, Awaited, Cmd
<1>2. \A c \in Cmd : Submit(p, c).told = p.told
  BY <1>1 DEF Submit, Proj
<1>3. \A c \in Awaited : Resume(p, c).told["save"] \in {p.told["save"], "no"}
  BY <1>1 DEF Resume, Proj
<1>4. \A c \in Cmd : /\ End(p, c).told["save"] \in {p.told["save"], "done"}
                     /\ End(Drop(p), c).told["save"] \in {p.told["save"], "done"}
  BY <1>1 DEF End, Without, Drop, Proj
<1>5. ASSUME NEW C \in SUBSET Cmd, "save" \notin C
      PROVE  Cancel(p, C).told["save"] = p.told["save"]
  BY <1>1, <1>5 DEF Cancel, Without, Proj
<1>6. Drop(p).told = p.told
  BY <1>1 DEF Drop, Proj
<1>7. force_close(p).handle = "none" /\ force_close(p).hand = {}
  BY ForceGood
<1>8. QED
  BY <1>2, <1>3, <1>4, <1>5, <1>6, <1>7 DEF Spared

\* A step that changes one project.
LEMMA OneSpared ==
  ASSUME Inv, NEW o \in Object, NEW q, obj' = [obj EXCEPT ![o] = q], Spared(obj[o], q)
  PROVE  AllSpared
<1>1. \A x \in Object : obj'[x] = IF x = o THEN q ELSE obj[x]
  BY DEF Inv, RestOK
<1>2. QED
  BY <1>1 DEF AllSpared, Spared

\* A project whose save was not cancelled, or is as it was but for phase, handle,
\* id or fate.
LEMMA SameTold ==
  ASSUME NEW p, NEW q, q.told = p.told
  PROVE  Spared(p, q)
BY DEF Spared

\* The steps of clients ...
LEMMA ClientSpares ==
  ASSUME Inv, NEW o \in Object,
         Work(o) \/ CancelWork(o) \/ DelayedKill(o) \/ ForceClose(o) \/ CloseDatabase(o)
         \/ LeaverStep(o) \/ CloseProject(o)
  PROVE  AllSpared
<1> DEFINE p == obj[o]
<1>1. Good(p)
  BY DEF Inv, ObjOK
<1>2. {"work", "leave", "close"} \subseteq Cmd /\ "leave" \in Awaited /\ "save" \in Awaited
  BY DEF Awaited, Cmd
<1>3. CASE Work(o)
  <2>1. obj' = [obj EXCEPT ![o] = Submit(p, "work")]
    BY <1>3 DEF Work
  <2>2. QED
    BY <1>1, <1>2, <2>1, PartsSpare, OneSpared
<1>4. CASE CancelWork(o)
  <2>1. obj' = [obj EXCEPT ![o] = Cancel(p, {"work"})]
    BY <1>4 DEF CancelWork
  <2>2. {"work"} \in SUBSET Cmd /\ "save" \notin {"work"}
    BY <1>2
  <2>3. Spared(p, Cancel(p, {"work"}))
    BY <1>1, <2>2, PartsSpare
  <2>4. QED
    BY <2>1, <2>3, OneSpared
<1>5. CASE DelayedKill(o)
  <2>1. obj' = [obj EXCEPT ![o] = Drop(p)]
    BY <1>5 DEF DelayedKill
  <2>2. QED
    BY <1>1, <2>1, PartsSpare, OneSpared
<1>6. CASE ForceClose(o)
  <2>1. obj' = [obj EXCEPT ![o] = force_close(p)]
    BY <1>6 DEF ForceClose
  <2>2. QED
    BY <1>1, <2>1, PartsSpare, OneSpared
<1>7. CASE CloseDatabase(o) \/ CloseProject(o)
  <2>1. PICK c \in {"leave", "close"} : obj' = [obj EXCEPT ![o] = Submit(p, c)]
    BY <1>7 DEF CloseDatabase, CloseProject
  <2>2. QED
    BY <1>1, <1>2, <2>1, PartsSpare, OneSpared
<1>8. CASE LeaverStep(o)
  <2>1. PICK r \in {p, Drop(p), force_close(p)} :
          obj' = [obj EXCEPT ![o] = Resume(r, "leave")]
    BY <1>8 DEF LeaverStep, DatabaseClosed, DatabaseClosedByForce, CloseDatabaseRaises
  <2>2. Good(r) /\ Spared(p, r)
    BY <1>1, DropGood, ForceGood, PartsSpare DEF Spared
  <2>3. Spared(r, Resume(r, "leave"))
    BY <1>2, <2>2, PartsSpare
  <2>4. Resume(r, "leave").handle = r.handle /\ Resume(r, "leave").hand = r.hand
    BY <1>2, <2>2, ResumeGood
  <2>5. Spared(p, Resume(r, "leave"))
    BY <2>2, <2>3, <2>4 DEF Spared
  <2>6. QED
    BY <2>1, <2>5, OneSpared
<1>9. QED
  BY <1>3, <1>4, <1>5, <1>6, <1>7, <1>8

\* ... of the coroutines of projects and of workers ...
LEMMA CoroutineSpares ==
  ASSUME Inv, NEW o \in Object, LoopStep(o) \/ WorkerStep(o) \/ Crash(o)
  PROVE  AllSpared
<1> DEFINE p == obj[o]
<1>0. /\ obj = [x \in Object |-> obj[x]]
      /\ \A x \in Object : obj[x] \in Proj
  BY DEF Inv, RestOK, ObjOK, Good
<1>1. Good(p) /\ p \in Proj
  BY DEF Inv, ObjOK, Good
<1>2. CASE UseWorker(o) \/ StartWorker(o) \/ Spawned(o) \/ WorkerReady(o) \/ Crash(o)
  <2>1. CASE UseWorker(o) \/ Spawned(o)
    <3>1. PICK f \in Phase : obj' = [obj EXCEPT ![o].phase = f]
      BY <2>1 DEF UseWorker, Spawned, Phase
    <3>2. \A x \in Object : obj'[x].told = obj[x].told
      BY <1>0, <3>1
    <3>3. QED
      BY <3>2, SameTold DEF AllSpared
  <2>2. CASE StartWorker(o)
    <3>1. obj' = [obj EXCEPT ![o] = [Drop(p) EXCEPT !.phase = "spawning"]]
      BY <2>2 DEF StartWorker
    <3>2. \A x \in Object : obj'[x].told = obj[x].told
      BY <1>0, <1>1, <3>1 DEF Drop, Proj
    <3>3. QED
      BY <3>2, SameTold DEF AllSpared
  <2>3. CASE WorkerReady(o)
    <3>1. obj' = [obj EXCEPT ![o].phase = "serving", ![o].handle = "live"]
      BY <2>3 DEF WorkerReady
    <3>2. \A x \in Object : obj'[x].told = obj[x].told
      BY <1>0, <3>1
    <3>3. QED
      BY <3>2, SameTold DEF AllSpared
  <2>4. CASE Crash(o)
    <3>1. obj' = [obj EXCEPT ![o].handle = "dead"]
      BY <2>4 DEF Crash
    <3>2. \A x \in Object : obj'[x].told = obj[x].told
      BY <1>0, <3>1
    <3>3. QED
      BY <3>2, SameTold DEF AllSpared
  <2>5. QED
    BY <1>2, <2>1, <2>2, <2>3, <2>4
<1>3. CASE RefuseWorker(o) \/ WorkerDead(o) \/ SpawnFails(o) \/ OpenFails(o) \/ ConnectionReset(o)
  <2>1. PICK c \in Cmd : \/ obj' = [obj EXCEPT ![o] = End(p, c)]
                         \/ obj' = [obj EXCEPT ![o] = End(Drop(p), c)]
    BY <1>3 DEF RefuseWorker, WorkerDead, SpawnFails, OpenFails, ConnectionReset
  <2>2. QED
    BY <1>1, <2>1, PartsSpare, OneSpared
<1>4. CASE Served(o)
  <2>1. PICK c \in Cmd :
          obj' = [obj EXCEPT ![o] =
                    [End(p, c) EXCEPT !.handle = IF c = "stop" THEN "dead" ELSE "live"]]
    BY <1>4 DEF Served
  <2> DEFINE q == [End(p, c) EXCEPT !.handle = IF c = "stop" THEN "dead" ELSE "live"]
  <2>2. q.told["save"] \in {p.told["save"], "done"}
    BY <1>1 DEF End, Without, Proj, Awaited, Cmd
  <2>3. Spared(p, q)
    BY <2>2 DEF Spared
  <2>4. QED
    BY <2>1, <2>3, OneSpared
<1>5. QED
  BY <1>2, <1>3, <1>4 DEF LoopStep, WorkerStep

\* ... of close_project and open_project ...
LEMMA CloserSpares ==
  ASSUME Inv, (\E i \in Id : OpenProject(i)) \/ (\E o \in Object : CloseAtOnce(o)) \/ CloserStep
  PROVE  AllSpared
<1>1. \A o \in Object : Good(obj[o]) /\ obj[o] \in Proj
  BY DEF Inv, ObjOK, Good
<1>2. "close" \in Awaited /\ "close" # "save"
  BY DEF Awaited, Cmd
<1>3. CASE \E i \in Id : OpenProject(i)
  <2>1. PICK i \in Id, o \in Object :
          obj' = [obj EXCEPT ![o].id = i, ![o].fate = "open"]
    BY <1>3 DEF OpenProject
  <2>2. \A x \in Object : obj'[x].told = obj[x].told
    BY <1>1, <2>1 DEF Inv, RestOK, Proj
  <2>3. QED
    BY <2>2, SameTold DEF AllSpared
<1>4. CASE \E o \in Object : CloseAtOnce(o)
  <2>1. PICK o \in Object : obj' = [obj EXCEPT ![o] = Removed(o, obj[o])]
    BY <1>4 DEF CloseAtOnce
  <2>2. Removed(o, obj[o]).told = obj[o].told
    BY <1>1 DEF Removed, Proj
  <2>3. QED
    BY <2>1, <2>2, SameTold, OneSpared
<1>5. CASE CloseRaises
  <2>1. closing \in Object /\ obj' = [obj EXCEPT ![closing] = Resume(obj[closing], "close")]
    BY <1>5 DEF CloseRaises, Inv, RestOK
  <2>2. QED
    BY <1>1, <1>2, <2>1, PartsSpare, OneSpared
<1>6. CASE CloseEnds
  <2> DEFINE o == closing
             r == force_close(obj[o])
             s == Resume(r, "close")
             q == Removed(o, s)
  <2>1. o \in Object /\ obj' = [obj EXCEPT ![o] = q]
    BY <1>6 DEF CloseEnds, Inv, RestOK
  <2>2. Good(r) /\ r.handle = "none" /\ r.hand = {}
    BY <1>1, <2>1, ForceGood
  <2>3. Good(s) /\ s.handle = "none" /\ s.hand = {}
    <3> HIDE DEF r
    <3>1. QED
      BY <1>2, <2>2, ResumeGood
  <2>4. q.handle = "none" /\ q.hand = {}
    <3> HIDE DEF s
    <3>1. QED
      BY <2>3 DEF Removed, Good, Proj
  <2> HIDE DEF q
  <2>5. QED
    BY <2>1, <2>4, OneSpared DEF Spared
<1>7. QED
  BY <1>3, <1>4, <1>5, <1>6 DEF CloserStep

\* ... and of shutdown(), while a save is awaited.
LEMMA ShutdownSpares ==
  ASSUME Inv, ShutdownStep
  PROVE  AllSpared
<1>1. \A o \in Object : Good(obj[o]) /\ obj[o] \in Proj
  BY DEF Inv, ObjOK, Good
<1>2. {"end", "stop"} \subseteq Awaited /\ {"end", "stop"} \subseteq Cmd
  BY DEF Awaited, Cmd
<1>3. CASE GracefulClose
  <2>1. \A x \in Object : obj'[x] \in {obj[x], Submit(obj[x], "end")}
    BY <1>3 DEF GracefulClose
  <2>2. QED
    BY <1>1, <1>2, <2>1, PartsSpare DEF AllSpared, Spared
<1>4. CASE \E o \in Object : EndToStop(o)
  <2>1. PICK o \in Object :
          obj' = [obj EXCEPT ![o] = Submit(Resume(obj[o], "end"), "stop")]
    BY <1>4 DEF EndToStop
  <2> DEFINE r == Resume(obj[o], "end")
  <2>2. Spared(obj[o], r) /\ r \in Proj
    BY <1>1, <1>2, PartsSpare, ResumeGood DEF Good
  <2>3. Submit(r, "stop").told = r.told /\ r.told["save"] = obj[o].told["save"]
    BY <1>1, <2>2 DEF Submit, Resume, Proj, Awaited, Cmd
  <2>4. Spared(obj[o], Submit(r, "stop"))
    BY <2>3 DEF Spared
  <2>5. QED
    BY <2>1, <2>4, OneSpared
<1>5. CASE \E o \in Object : EndOver(o)
  <2>1. PICK o \in Object, c \in {"end", "stop"} :
          obj' = [obj EXCEPT ![o] = Resume(Cancel(obj[o], {c}), c)]
    BY <1>5 DEF EndOver
  <2> DEFINE r == Cancel(obj[o], {c})
  <2>2. {c} \in SUBSET Cmd /\ "save" \notin {c}
    BY <1>2
  <2>3. Good(r) /\ r \in Proj
    BY <1>1, <2>2, CancelGood DEF Good
  <2>4. r.told["save"] = obj[o].told["save"]
    BY <1>1 DEF Cancel, Without, Proj, Awaited, Cmd
  <2>5. Resume(r, c).told["save"] = r.told["save"]
    <3> HIDE DEF r
    <3>1. QED
      BY <2>3 DEF Resume, Proj, Awaited, Cmd
  <2>6. Spared(obj[o], Resume(r, c))
    BY <2>4, <2>5 DEF Spared
  <2>7. QED
    BY <2>1, <2>6, OneSpared
<1>6. CASE ShutdownEnds
  <2>1. \A x \in Object : obj'[x] = obj[x] \/ obj'[x] = Removed(x, force_close(obj[x]))
    BY <1>6 DEF ShutdownEnds
  <2>2. ASSUME NEW x \in Object
        PROVE  /\ Removed(x, force_close(obj[x])).handle = "none"
               /\ Removed(x, force_close(obj[x])).hand = {}
    <3> DEFINE r == force_close(obj[x])
    <3>1. Good(r) /\ r.handle = "none" /\ r.hand = {}
      BY <1>1, ForceGood
    <3> HIDE DEF r
    <3>2. Removed(x, r).handle = "none" /\ Removed(x, r).hand = {}
      BY <3>1 DEF Removed, Good, Proj
    <3>3. QED
      BY <3>2 DEF r
  <2>3. QED
    BY <2>1, <2>2 DEF AllSpared, Spared
<1>7. QED
  BY <1>3, <1>4, <1>5, <1>6 DEF ShutdownStep

\* The save that the loop goes on to has not been cancelled yet.
LEMMA NewSave ==
  ASSUME Inv, NEW T \in SUBSET Id, NEW ob, NextSave(T, ob),
         ob = [x \in Object |-> ob[x]],
         \A x \in Object : Good(ob[x]) /\ ~Pending(ob[x], "save")
  PROVE  ~SaveCancelled'
<1>1. CASE saver' = "sleep"
  BY <1>1 DEF SaveCancelled
<1>2. CASE saver' # "sleep"
  <2>1. PICK i \in T : /\ saving' = projects[i] /\ Saveable(i)
                       /\ obj' = [ob EXCEPT ![projects[i]] = Submit(@, "save")]
    BY <1>2 DEF NextSave
  <2>2. PICK o \in Object : o = projects[i]
    BY <2>1 DEF Saveable, Inv, RestOK
  <2>3. ob[o] \in Proj /\ ob[o].told["save"] = "no"
    BY DEF Good, Pending, Awaited, Cmd
  <2>4. obj'[o].told = ob[o].told
    <3>1. obj'[o] = Submit(ob[o], "save")
      BY <2>1, <2>2
    <3>2. QED
      BY <2>3, <3>1 DEF Submit, Proj
  <2>5. QED
    BY <2>1, <2>2, <2>3, <2>4 DEF SaveCancelled
<1>3. QED
  BY <1>1, <1>2

\* All but the steps of the loop and the start of a shutdown leave the loop alone.
LEMMA Unsaved ==
  ASSUME Next, ~(SaverWakes \/ SaverGoesOn \/ SaverDies \/ ShutdownStarts)
  PROVE  saver' = saver /\ saving' = saving
<1>1. CASE \E i \in Id : OpenProject(i)
  BY <1>1 DEF OpenProject
<1>2. CASE \E o \in Object : Work(o) \/ CancelWork(o) \/ DelayedKill(o) \/ ForceClose(o)
  BY <1>2 DEF Work, CancelWork, DelayedKill, ForceClose
<1>3. CASE \E o \in Object : CloseDatabase(o) \/ LeaverStep(o)
  BY <1>3 DEF CloseDatabase, LeaverStep, DatabaseClosed, DatabaseClosedByForce, CloseDatabaseRaises
<1>4. CASE \E o \in Object : CloseAtOnce(o) \/ CloseProject(o)
  BY <1>4 DEF CloseAtOnce, CloseProject
<1>5. CASE \E o \in Object : LoopStep(o) \/ Crash(o)
  BY <1>5 DEF LoopStep, UseWorker, StartWorker, RefuseWorker, WorkerDead, Crash
<1>6. CASE \E o \in Object : WorkerStep(o)
  BY <1>6 DEF WorkerStep, Spawned, SpawnFails, OpenFails, WorkerReady, Served, ConnectionReset
<1>7. CASE CloserStep
  BY <1>7 DEF CloserStep, CloseEnds, CloseRaises
<1>8. CASE ShutdownStep
  BY <1>8 DEF ShutdownStep, GracefulClose, ShutdownEnds, EndToStop, EndOver
<1>9. QED
  BY <1>1, <1>2, <1>3, <1>4, <1>5, <1>6, <1>7, <1>8 DEF Next, SaverStep

LEMMA SavesSpared ==
  ASSUME Inv, [Next]_vars, SaveCancelled', ~SaveCancelled
  PROVE  obj'[saving].handle = "none" /\ obj'[saving].hand = {}
<1>1. SUFFICES ASSUME ~(SaverWakes \/ SaverGoesOn \/ SaverDies \/ ShutdownStarts)
                PROVE  obj'[saving].handle = "none" /\ obj'[saving].hand = {}
  <2>1. CASE SaverDies \/ ShutdownStarts
    BY <2>1 DEF SaverDies, ShutdownStarts, SaveCancelled
  <2>2. CASE SaverWakes
    <3>1. /\ NextSave(active, obj) /\ active \in SUBSET Id
          /\ saving = None /\ obj = [x \in Object |-> obj[x]]
      BY <2>2 DEF SaverWakes, Inv, RestOK
    <3>2. \A x \in Object : Good(obj[x]) /\ ~Pending(obj[x], "save")
      BY <3>1, IdAssumption DEF Inv, ObjOK, Owed
    <3>3. QED
      BY <3>1, <3>2, NewSave
  <2>3. CASE SaverGoesOn
    <3> DEFINE ob == [obj EXCEPT ![saving] = Resume(@, "save")]
    <3>1. /\ NextSave(todo, ob) /\ todo \in SUBSET Id
          /\ saver = "wait" /\ obj[saving].told["save"] # "no"
      BY <2>3 DEF SaverGoesOn, Inv, RestOK
    <3>2. /\ ob = [x \in Object |-> ob[x]]
          /\ \A x \in Object : Good(ob[x]) /\ ~Pending(ob[x], "save")
      BY <3>1, SavingResumes
    <3> HIDE DEF ob
    <3>3. QED
      BY <3>1, <3>2, NewSave
  <2>4. QED
    BY <2>1, <2>2, <2>3
<1>2. CASE UNCHANGED vars
  BY <1>2 DEF vars, SaveCancelled
<1>3. CASE ~UNCHANGED vars
  <2>1. AllSpared
    BY <1>1, <1>3, ClientSpares, CoroutineSpares, CloserSpares, ShutdownSpares
       DEF Next, SaverStep
  <2>2. saver' = saver /\ saving' = saving
    BY <1>1, <1>3, Unsaved DEF Next, SaverStep
  <2>3. saving \in Object /\ obj'[saving].told["save"] = "raised"
        /\ obj[saving].told["save"] # "raised"
    BY <2>2, IdAssumption DEF SaveCancelled, Inv, RestOK
  <2>4. QED
    BY <2>1, <2>3 DEF AllSpared, Spared
<1>4. QED
  BY <1>2, <1>3

\* Only a forced close of the project that is being saved cancels its save: no
\* cancel_task, watchdog, crash or close_database in time ever ends the auto-save loop.
THEOREM OnlyForce == Spec => OnlyForceEndsSaves
<1>1. Inv /\ [Next]_vars =>
        [SaveCancelled' /\ ~SaveCancelled =>
           obj'[saving].handle = "none" /\ obj'[saving].hand = {}]_vars
  BY SavesSpared
<1>2. QED
  BY <1>1, SpecInv, PTL DEF Spec, OnlyForceEndsSaves

\* Unless two workers were being started at a time, there is room for the one that is.
Room ==
  /\ IsFiniteSet(active)
  /\ HardLimit # 0 /\ ~raced =>
       /\ Cardinality(active) <= HardLimit
       /\ \A o \in Object : obj[o].phase = "spawning" => Cardinality(active) < HardLimit
       /\ \A o, x \in Object : obj[o].phase = "spawning" /\ obj[x].phase = "spawning" => o = x

LEMMA CalmRoom == ASSUME Room, Calm PROVE Room'
<1>1. /\ IsFiniteSet(active) /\ active' \subseteq active /\ raced' = raced
      /\ \A x \in Object : obj'[x].phase = "spawning" => obj[x].phase = "spawning"
  BY DEF Room, Calm
<1>2. IsFiniteSet(active') /\ Cardinality(active') <= Cardinality(active)
  BY <1>1, FS_Subset
<1>3. Cardinality(active') \in Nat /\ Cardinality(active) \in Nat
  BY <1>1, <1>2, FS_CardinalityType
<1> QED
  BY <1>1, <1>2, <1>3, LimitAssumption DEF Room

LEMMA StartRoom == ASSUME Inv, Room, NEW o \in Object, StartWorker(o) PROVE Room'
<1>1. /\ obj' = [obj EXCEPT ![o] = [Drop(@) EXCEPT !.phase = "spawning"]]
      /\ active' = Uncounted({o}) /\ can_spawn(Uncounted({o}))
      /\ raced' = (raced \/ \E x \in Object : obj[x].phase = "spawning")
  BY DEF StartWorker
<1>2. \A x \in Object \ {o} : obj'[x] = obj[x]
  BY <1>1 DEF Inv, RestOK
<1>3. active' \subseteq active /\ IsFiniteSet(active)
  BY <1>1 DEF Uncounted, Room
<1>4. IsFiniteSet(active') /\ Cardinality(active') \in Nat
  BY <1>3, FS_Subset, FS_CardinalityType
<1>5. HardLimit # 0 => Cardinality(active') < HardLimit
  BY <1>1 DEF can_spawn
<1>6. ~raced' => \A x \in Object \ {o} : obj'[x].phase # "spawning"
  BY <1>1, <1>2
<1> QED
  BY <1>4, <1>5, <1>6, LimitAssumption DEF Room

LEMMA SpawnedRoom == ASSUME Inv, Room, NEW o \in Object, Spawned(o) PROVE Room'
<1>1. /\ obj[o].phase = "spawning" /\ obj' = [obj EXCEPT ![o].phase = "opening"]
      /\ active' = active \cup {obj[o].id} /\ raced' = raced
  BY DEF Spawned
<1>2. \A x \in Object \ {o} : obj'[x] = obj[x]
  BY <1>1 DEF Inv, RestOK
<1>3. obj'[o].phase = "opening"
  BY <1>1 DEF Inv, RestOK, ObjOK, Good, Proj
<1>4. IsFiniteSet(active) /\ Cardinality(active) \in Nat
  BY FS_CardinalityType DEF Room
<1>5. /\ IsFiniteSet(active') /\ Cardinality(active') \in Nat
      /\ Cardinality(active') <= Cardinality(active) + 1
  <2> DEFINE i == obj[o].id
  <2>1. /\ IsFiniteSet(active \cup {i})
        /\ Cardinality(active \cup {i}) = IF i \in active THEN Cardinality(active)
                                          ELSE Cardinality(active) + 1
    <3> HIDE DEF i
    <3> QED
      BY <1>4, FS_AddElement
  <2> QED
    BY <1>1, <1>4, <2>1
<1>6. HardLimit # 0 /\ ~raced => \A x \in Object : obj'[x].phase # "spawning"
  BY <1>1, <1>2, <1>3 DEF Room
<1>7. HardLimit # 0 /\ ~raced => Cardinality(active') <= HardLimit
  BY <1>1, <1>4, <1>5, LimitAssumption DEF Room
<1> QED
  BY <1>1, <1>5, <1>6, <1>7 DEF Room

\* hard_limit holds as long as no two workers are being started at the same time.
THEOREM LimitHolds == Spec => []LimitUnlessRaced
<1>1. Init => Room
  <2> SUFFICES ASSUME Init PROVE Room
    OBVIOUS
  <2>1. IsFiniteSet(active) /\ Cardinality(active) = 0
    BY FS_EmptySet DEF Init
  <2>2. \A o \in Object : obj[o].phase # "spawning"
    BY DEF Init, Absent
  <2> QED
    BY <2>1, <2>2, LimitAssumption DEF Room
<1>2. Inv /\ Room /\ [Next]_vars => Room'
  BY NextInv, CalmRoom, StartRoom, SpawnedRoom
<1>3. Room => LimitUnlessRaced
  <2> SUFFICES ASSUME Room, HardLimit # 0, Cardinality(active) > HardLimit PROVE raced
    BY DEF LimitUnlessRaced
  <2>1. Cardinality(active) \in Nat
    BY FS_CardinalityType DEF Room
  <2> QED
    BY <2>1, LimitAssumption DEF Room
<1> QED
  BY <1>1, <1>2, <1>3, SpecInv, PTL DEF Spec
-----------------------------------------------------------------------------
(* Lifespan, for any number of sessions and of states: its types, that the *)
(* Web UI keeps its state, that two states are open at a time only after a *)
(* race, and that a signal leaves none open that there was.                *)

\* A session that made a state, and has not shut it down.
Owns(k) == sess[k] \in {"owning", "closing"}

\* States are numbered in the order they are made.
Numbered ==
  /\ made \in 0..MaxStates /\ current \in 0..made /\ target \in 0..made /\ before \in 0..made
  /\ closed \in SUBSET (1..made)
  /\ own \in [Session -> 0..made]
  /\ \A k \in Session : Owns(k) => own[k] # NoState
  /\ phase = "stopping" => target # NoState

Typed ==
  /\ web \in BOOLEAN /\ collided \in BOOLEAN
  /\ phase \in {"starting", "aborting", "serving", "stopping", "exiting", "cancelling", "stopped"}
  /\ sess \in [Session -> {"none", "discovering", "owning", "borrowing", "closing", "done"}]
  /\ Numbered

\* Before the startup is over nothing has happened.
Untouched ==
  phase \in {"starting", "aborting"} =>
    made = 0 /\ current = NoState /\ closed = {} /\ \A k \in Session : sess[k] = "none"

\* With the Web UI sessions only borrow the first state.
OnlyBorrowed ==
  web /\ phase = "serving" =>
    /\ made = 1 /\ current = 1 /\ closed = {}
    /\ \A k \in Session : sess[k] \in {"none", "borrowing", "done"}

\* Without a race the state in use is the only one that is open, and it has at most
\* one owner; a session discovers plugins only while there is none.
OneOwner ==
  /\ \A j, k \in Session : sess[j] = "discovering" /\ sess[k] = "discovering" => j = k
  /\ \A k \in Session : sess[k] = "discovering" => current = NoState
  /\ \A k \in Session : Owns(k) => own[k] = current
  /\ \A j, k \in Session : Owns(j) /\ Owns(k) => j = k
  /\ \A m \in Live : m = current

Unraced == ~collided /\ phase \in {"starting", "serving"} => OneOwner

LEMMA InitTyped ==
  LifespanInit => Typed /\ Untouched /\ OnlyBorrowed /\ Unraced
<1> SUFFICES ASSUME LifespanInit PROVE Typed /\ Untouched /\ OnlyBorrowed /\ Unraced
  OBVIOUS
<1>1. Typed
  <2>1. made \in 0..MaxStates /\ current \in 0..made /\ target \in 0..made /\ before \in 0..made
    BY StatesAssumption DEF LifespanInit, NoState
  <2>2. closed \in SUBSET (1..made) /\ own \in [Session -> 0..made]
    BY DEF LifespanInit, NoState
  <2>3. \A k \in Session : ~Owns(k)
    BY DEF LifespanInit, Owns
  <2>4. phase \in {"starting", "serving"} /\ web \in BOOLEAN /\ collided \in BOOLEAN
    BY DEF LifespanInit
  <2> QED
    BY <2>1, <2>2, <2>3, <2>4 DEF LifespanInit, Typed, Numbered
<1>2. Live = {}
  BY DEF LifespanInit, Live
<1>3. Untouched /\ OnlyBorrowed /\ Unraced
  BY <1>2 DEF LifespanInit, Untouched, OnlyBorrowed, Unraced, OneOwner, Owns, NoState
<1> QED
  BY <1>1, <1>3

\* Typed is inductive.
LEMMA TypedStep == Typed /\ [LifespanNext]_lifespan => Typed'
<1> SUFFICES ASSUME Typed, [LifespanNext]_lifespan PROVE Typed'
  OBVIOUS
<1> USE StatesAssumption DEF Typed, Numbered, Owns, NoState
<1>1. CASE Startup
  BY <1>1 DEF Startup, NewState
<1>2. CASE Signal
  BY <1>2 DEF Signal
<1>3. CASE ServerCloses
  BY <1>3 DEF ServerCloses
<1>4. CASE GiveUp \/ Exit
  BY <1>4 DEF GiveUp, Exit
<1>10. CASE Abort
  BY <1>10 DEF Abort, NewState
<1>11. ASSUME NEW k \in Session, CloseIsCut(k) PROVE Typed'
  BY <1>11 DEF CloseIsCut
<1>5. ASSUME NEW k \in Session, Enter(k) PROVE Typed'
  BY <1>5 DEF Enter
<1>6. ASSUME NEW k \in Session, Discovered(k) PROVE Typed'
  BY <1>6 DEF Discovered, NewState
<1>7. ASSUME NEW k \in Session, Leave(k) PROVE Typed'
  BY <1>7 DEF Leave
<1>8. ASSUME NEW k \in Session, OwnerCloses(k) PROVE Typed'
  <2>1. own[k] \in 1..made
    BY <1>8 DEF OwnerCloses
  <2>2. closed' \in SUBSET (1..made') /\ made' = made
    BY <1>8, <2>1 DEF OwnerCloses
  <2> QED
    BY <1>8, <2>2 DEF OwnerCloses
<1>9. CASE UNCHANGED lifespan
  BY <1>9 DEF lifespan
<1> QED
  BY <1>1, <1>2, <1>3, <1>4, <1>5, <1>6, <1>7, <1>8, <1>9, <1>10, <1>11 DEF LifespanNext

\* Nothing happens before the startup, and sessions only borrow after it.
LEMMA WebStep ==
  Typed /\ Untouched /\ OnlyBorrowed /\ [LifespanNext]_lifespan =>
    Untouched' /\ OnlyBorrowed'
<1> SUFFICES ASSUME Typed, Untouched, OnlyBorrowed, [LifespanNext]_lifespan
             PROVE  Untouched' /\ OnlyBorrowed'
  OBVIOUS
<1> USE StatesAssumption DEF Typed, Numbered, Untouched, OnlyBorrowed, NoState
<1>1. CASE Startup
  BY <1>1 DEF Startup, NewState
<1>2. CASE Signal
  BY <1>2 DEF Signal
<1>3. CASE ServerCloses
  BY <1>3 DEF ServerCloses
<1>4. CASE GiveUp \/ Exit
  BY <1>4 DEF GiveUp, Exit
<1>10. CASE Abort
  BY <1>10 DEF Abort, NewState
<1>11. ASSUME NEW k \in Session, CloseIsCut(k) PROVE Untouched' /\ OnlyBorrowed'
  BY <1>11 DEF CloseIsCut
<1>5. ASSUME NEW k \in Session, Enter(k) PROVE Untouched' /\ OnlyBorrowed'
  BY <1>5 DEF Enter
<1>6. ASSUME NEW k \in Session, Discovered(k) PROVE Untouched' /\ OnlyBorrowed'
  BY <1>6 DEF Discovered, NewState
<1>7. ASSUME NEW k \in Session, Leave(k) PROVE Untouched' /\ OnlyBorrowed'
  BY <1>7 DEF Leave
<1>8. ASSUME NEW k \in Session, OwnerCloses(k) PROVE Untouched' /\ OnlyBorrowed'
  BY <1>8 DEF OwnerCloses
<1>9. CASE UNCHANGED lifespan
  BY <1>9 DEF lifespan
<1> QED
  BY <1>1, <1>2, <1>3, <1>4, <1>5, <1>6, <1>7, <1>8, <1>9, <1>10, <1>11 DEF LifespanNext

\* Without a race there is one owner.
LEMMA OwnerStep ==
  Typed /\ Untouched /\ Unraced /\ [LifespanNext]_lifespan => Unraced'
<1> SUFFICES ASSUME Typed, Untouched, Unraced, [LifespanNext]_lifespan,
                    ~collided', phase' \in {"starting", "serving"}
             PROVE  OneOwner'
  BY DEF Unraced
<1> USE StatesAssumption DEF Typed, Numbered, Owns, Live, NoState
<1>0. OneOwner
  <2>1. ~collided /\ phase \in {"starting", "serving"}
    BY DEF LifespanNext, Startup, Signal, ServerCloses, GiveUp, Exit, Abort, Enter, Discovered,
           Leave, OwnerCloses, CloseIsCut, lifespan
  <2> QED
    BY <2>1 DEF Unraced
<1>1. CASE Startup
  BY <1>1 DEF Startup, NewState, Untouched, OneOwner
<1>2. CASE Signal \/ ServerCloses \/ GiveUp \/ Exit \/ Abort \/ \E k \in Session : CloseIsCut(k)
  BY <1>2 DEF Signal, ServerCloses, GiveUp, Exit, Abort, CloseIsCut
<1>3. ASSUME NEW k \in Session, Enter(k) PROVE OneOwner'
  BY <1>0, <1>3 DEF Enter, OneOwner
<1>4. ASSUME NEW k \in Session, Discovered(k) PROVE OneOwner'
  <2>1. current = NoState /\ ~Owns(k) /\ \A j \in Session : ~Owns(j)
    BY <1>0, <1>4 DEF Discovered, OneOwner
  <2>2. Live = {}
    BY <1>0, <2>1 DEF OneOwner
  <2>3. made' = made + 1 /\ current' = made' /\ closed' = closed
    BY <1>4 DEF Discovered, NewState
  <2>4. \A m \in Live' : m = current'
    BY <2>2, <2>3
  <2>5. \A j \in Session \ {k} : sess'[j] = sess[j] /\ own'[j] = own[j]
    BY <1>4 DEF Discovered
  <2>6. sess'[k] = "owning" /\ own'[k] = current'
    BY <1>4 DEF Discovered, NewState
  <2>7. \A j \in Session \ {k} : sess[j] # "discovering"
    BY <1>0, <1>4 DEF Discovered, OneOwner
  <2> QED
    BY <2>1, <2>4, <2>5, <2>6, <2>7 DEF OneOwner
<1>5. ASSUME NEW k \in Session, Leave(k) PROVE OneOwner'
  BY <1>0, <1>5 DEF Leave, OneOwner
<1>6. ASSUME NEW k \in Session, OwnerCloses(k) PROVE OneOwner'
  <2>1. own[k] = current /\ current # NoState /\ \A j \in Session \ {k} : ~Owns(j)
    BY <1>0, <1>6 DEF OwnerCloses, OneOwner
  <2>2. Live' = {}
    BY <1>0, <1>6, <2>1 DEF OwnerCloses, OneOwner
  <2>3. \A j \in Session : ~Owns(j)'
    BY <1>6, <2>1 DEF OwnerCloses
  <2>4. \A j \in Session : sess'[j] # "discovering"
    BY <1>0, <1>6, <2>1 DEF OwnerCloses, OneOwner
  <2> QED
    BY <2>2, <2>3, <2>4 DEF OneOwner
<1>7. CASE UNCHANGED lifespan
  BY <1>0, <1>7 DEF lifespan, OneOwner
<1> QED
  BY <1>1, <1>2, <1>3, <1>4, <1>5, <1>6, <1>7 DEF LifespanNext

\* What the server shuts down is, without a race, all that was open at the signal; once
\* it has, that stays closed.
OnlyTarget ==
  /\ phase = "stopping" => collided \/ Live \cap 1..before \subseteq {target}
  /\ phase \in {"exiting", "cancelling", "stopped"} => OldAreClosed

LEMMA TargetStep ==
  Typed /\ Untouched /\ Unraced /\ OnlyTarget /\ [LifespanNext]_lifespan => OnlyTarget'
<1> SUFFICES ASSUME Typed, Untouched, Unraced, OnlyTarget, [LifespanNext]_lifespan
             PROVE  OnlyTarget'
  OBVIOUS
<1> USE DEF Live, OldAreClosed, OnlyTarget
<1>1. made \in Nat /\ before \in 0..made /\ target \in 0..made
  BY StatesAssumption DEF Typed, Numbered
<1>2. CASE Signal
  <2>1. phase = "serving" => collided \/ \A m \in Live : m = current
    BY DEF Unraced, OneOwner
  <2>2. phase = "starting" => Live = {}
    BY DEF Untouched
  <2>3. NoState \notin Live
    BY DEF NoState
  <2> QED
    BY <1>2, <2>1, <2>2, <2>3 DEF Signal
<1>3. CASE Startup \/ \E k \in Session : Enter(k)
  BY <1>3 DEF Startup, Enter
<1>4. CASE ServerCloses \/ GiveUp \/ Exit
  BY <1>4 DEF ServerCloses, GiveUp, Exit
<1>5. CASE Abort
  <2>1. Live' \cap 1..before' = {} /\ target' \notin Live'
    BY <1>1, <1>5 DEF Abort, NewState, Untouched
  <2> QED
    BY <2>1
<1>6. ASSUME NEW k \in Session, Discovered(k) PROVE OnlyTarget'
  <2>1. made' = made + 1 /\ UNCHANGED <<phase, target, before, closed, collided>>
    BY <1>6 DEF Discovered, NewState
  <2>2. Live' \subseteq Live \cup {made + 1} /\ made + 1 \notin 1..before /\ target # made + 1
    BY <1>1, <2>1
  <2> QED
    BY <2>1, <2>2
<1>7. ASSUME NEW k \in Session, Leave(k) \/ OwnerCloses(k) \/ CloseIsCut(k) PROVE OnlyTarget'
  <2>1. Live' \subseteq Live /\ UNCHANGED <<phase, target, before, collided>>
    BY <1>7 DEF Leave, OwnerCloses, CloseIsCut
  <2> QED
    BY <2>1
<1>8. CASE UNCHANGED lifespan
  BY <1>8 DEF lifespan
<1> QED
  BY <1>2, <1>3, <1>4, <1>5, <1>6, <1>7, <1>8 DEF LifespanNext

OwnedInv == Typed /\ Untouched /\ OnlyBorrowed /\ Unraced /\ OnlyTarget

\* The conjunction is inductive.
LEMMA Invariance == LifespanSpec => []OwnedInv
<1>1. LifespanInit => OwnedInv
  BY InitTyped DEF OwnedInv, OnlyTarget, LifespanInit
<1>2. OwnedInv /\ [LifespanNext]_lifespan => OwnedInv'
  BY TypedStep, WebStep, OwnerStep, TargetStep DEF OwnedInv
<1> QED
  BY <1>1, <1>2, PTL DEF LifespanSpec

\* Every variable of Lifespan keeps its type: in particular no state is made beyond
\* the bound, and what is shut down is a state.
THEOREM LifespanTypes == LifespanSpec => []LifespanTypeOK
<1>1. OwnedInv => LifespanTypeOK
  BY StatesAssumption DEF OwnedInv, Typed, Numbered, LifespanTypeOK, State, NoState
<1> QED
  BY <1>1, Invariance, PTL

\* With the Web UI no session takes the state from the server: _lifespan shuts down
\* only what it made itself.
THEOREM WebStateKept == LifespanSpec => []WebKeepsItsState
<1>1. OwnedInv => WebKeepsItsState
  BY DEF OwnedInv, OnlyBorrowed, WebKeepsItsState, Live
<1> QED
  BY <1>1, Invariance, PTL

\* Two states are open at a time only if two sessions discovered plugins at once, or
\* the server is stopping.
THEOREM OneStateAtATime == LifespanSpec => []OneStateUnlessCollided
<1>1. OwnedInv => OneStateUnlessCollided
  BY DEF OwnedInv, Typed, Unraced, OneOwner, OneStateUnlessCollided
<1> QED
  BY <1>1, Invariance, PTL

\* Once _serve has shut down what it found at the signal, no state from before the
\* signal is open, however the sessions end.
THEOREM SignalClosesOld ==
  LifespanSpec => [](phase \in {"exiting", "cancelling", "stopped"} => OldAreClosed)
<1>1. OwnedInv => (phase \in {"exiting", "cancelling", "stopped"} => OldAreClosed)
  BY DEF OwnedInv, OnlyTarget
<1> QED
  BY <1>1, Invariance, PTL
=============================================================================
