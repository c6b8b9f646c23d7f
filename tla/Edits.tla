-------------------------------- MODULE Edits ---------------------------------
(***************************************************************************)
(* The tools that change a database, as the worker runs them: rename,      *)
(* set_comment, set_type, define_type (tagged kind:write, an undo point    *)
(* each), execute_python (kind:unsafe, no undo point), undo, and the reads *)
(* get_comment and get_type; each may be refused by IDA or cancelled       *)
(* halfway, and the worker may die.                                        *)
(*                                                                         *)
(* IDA is external: a database gives each fact a value; a call that returns*)
(* False changes nothing; an undo point is the database of that moment.    *)
(***************************************************************************)
EXTENDS Naturals, Sequences

CONSTANTS
  Addr, FuncOf,   \* addresses, and the entry of the function each is in, or None
  Symbol,         \* names for addresses
  Text,           \* comments
  BuiltIn,        \* type texts that IDA parses by itself
  Named, Hidden,  \* type names, and those that define_type's patterns miss
  Def,            \* definitions of types
  None, Unsure,
  MaxCalls,       \* bound on the calls
  MaxUndo         \* bound on the count of an undo

Func == {FuncOf[a] : a \in Addr} \ {None}

ASSUME AddrAssumption  == FuncOf \in [Addr -> Addr \cup {None}] /\ None \notin Addr
ASSUME ValueAssumption == None \notin Symbol \cup Text \cup BuiltIn \cup Named \cup Def
ASSUME NameAssumption  == Addr \cap Symbol = {} /\ Hidden \subseteq Named
ASSUME BoundAssumption == MaxCalls \in Nat /\ MaxUndo \in Nat

\* What a database says: the name, type and comment of an address, the comment of
\* a function, the name and type of its local variable, and the definitions of the
\* types in its library.
LocalType == {"ltype"} \X Func
Fact  == {"name", "type", "addr"} \X Addr \cup {"func", "local"} \X Func \cup LocalType
           \cup {"til"} \X Named
Value == Symbol \cup Text \cup BuiltIn \cup Named \cup Def \cup {None}

Write == {"rename", "set_comment", "set_type", "define_type"}
Call  ==
       [tool : {"rename"},      on : {"addr", "local"}, at : Addr \cup Symbol, arg : Symbol]
  \cup [tool : {"set_comment"}, on : {"addr", "func"},  at : Addr \cup Symbol, arg : Text \cup {None}]
  \cup [tool : {"set_type"},    on : {"addr", "local"}, at : Addr \cup Symbol, arg : BuiltIn \cup Named]
  \cup [tool : {"get_comment"}, on : {"addr", "func"},  at : Addr \cup Symbol]
  \cup [tool : {"define_type"}, arg : SUBSET Named, def : Def]
  \cup [tool : {"get_type"},    arg : Named]
  \cup [tool : {"undo"},        arg : 1..MaxUndo]
  \cup [tool : {"execute_python"}]

VARIABLES
  db,      \* the open database
  saved,   \* the database on disk
  points,  \* IDA's undo points, the newest last
  phase,   \* of the worker: "idle", "running" a handler, "done" with it
  call,    \* the call it works on, or NoCall
  answer,  \* its verdict, and what it says: values of facts, labels undone
  calls,   \* number of calls, to bound them
  log,     \* history: the write calls that are not undone
  start,   \* history: log at the start of the call
  known,   \* history: what a client can tell from the answers it had
  gap      \* history: an undo point could not be made

dataVars    == <<db, saved, points>>
historyVars == <<log, start, known, gap>>
vars        == <<dataVars, phase, call, answer, calls, historyVars>>

NoCall    == [tool |-> "none"]
NoClaim   == [f \in {} |-> None]
NoAnswer  == [verdict |-> "none", claim |-> NoClaim, labels |-> << >>]
NoneKnown == [f \in Fact |-> Unsure]

Init ==
  /\ db = [f \in Fact |-> None] /\ saved = db /\ points = << >>
  /\ phase = "idle" /\ call = NoCall /\ answer = NoAnswer /\ calls = 0
  /\ log = << >> /\ start = << >> /\ known = db /\ gap = FALSE

-----------------------------------------------------------------------------
(* Helpers. *)

\* resolve_addr: an address, or the name of one.
resolve_addr(at) == {a \in Addr : a = at \/ db[<<"name", a>>] = at}

\* get_func(ea).start_ea, if there is a function.
start_ea(at) == {FuncOf[a] : a \in resolve_addr(at)} \ {None}

\* get_named_type: the library has a definition of it.
Defined(t) == t \in Named /\ db[<<"til", t>>] # None

\* _parse_tinfo: a named type of the library, or a text that IDA parses.
Parses(text) == text \in BuiltIn \/ Defined(text)

Running(tool) == phase = "running" /\ call.tool = tool

\* The handler is done: the database becomes d, and the answer makes a claim.
Returns(d, claim) ==
  /\ phase' = "done" /\ db' = d
  /\ answer' = [answer EXCEPT !.verdict = "ok", !.claim = claim]
  /\ UNCHANGED <<saved, points, call, calls, historyVars>>

\* It raises a ToolError, and has changed d.
Raises(d) ==
  /\ phase' = "done" /\ db' = d
  /\ answer' = [answer EXCEPT !.verdict = "error"]
  /\ UNCHANGED <<saved, points, call, calls, historyVars>>

Idle == phase' = "idle" /\ call' = NoCall /\ answer' = NoAnswer /\ start' = << >>

Sets(f, v) == Returns([db EXCEPT ![f] = v], [g \in {f} |-> v])

-----------------------------------------------------------------------------
(* dispatch() *)

\* Faulty variant: the point is made for every tool.
MakesPoint_Always(c) == TRUE

\* _maybe_create_undo_point.  What it raises is logged, and the call goes on.
MakesPoint(c) == c.tool \in Write

Start(c) ==
  /\ phase = "idle" /\ calls < MaxCalls
  /\ phase' = "running" /\ call' = c /\ answer' = NoAnswer /\ calls' = calls + 1
  /\ \/ MakesPoint(c) /\ points' = Append(points, [label |-> c.tool, db |-> db]) /\ UNCHANGED gap
     \/ MakesPoint(c) /\ gap' = TRUE /\ UNCHANGED points
     \/ ~MakesPoint(c) /\ UNCHANGED <<points, gap>>
  /\ start' = log
  /\ log'   = IF c.tool \in Write
              THEN Append(log, [tool |-> c.tool, db |-> db, known |-> known]) ELSE log
  /\ UNCHANGED <<db, saved, known>>

\* What a client makes of an undo: it is where it was.
KnownAfterUndo ==
  LET n == Len(answer.labels)
  IN  CASE n = 0 -> known
        [] n \in 1..Len(start) /\ ~gap -> start[Len(start) - n + 1].known
        [] OTHER -> NoneKnown

\* The answer goes out: an ok tells what it says, and nothing else happened; an
\* error, that nothing happened; but types that the patterns do not see.
Answer ==
  /\ phase = "done"
  /\ Idle
  /\ known' = CASE call.tool = "execute_python" -> NoneKnown
                [] call.tool = "undo" -> KnownAfterUndo
                [] call.tool = "define_type" ->
                     [f \in Fact |-> IF f \in DOMAIN answer.claim THEN answer.claim[f]
                                     ELSE IF f \in {"til"} \X (call.arg \cap Hidden) THEN Unsure
                                     ELSE known[f]]
                [] OTHER -> [f \in Fact |-> IF f \in DOMAIN answer.claim
                                            THEN answer.claim[f] ELSE known[f]]
  /\ UNCHANGED <<dataVars, calls, log, gap>>

\* CancelledError, before or after the handler's calls into IDA.
Cancelled ==
  /\ phase \in {"running", "done"}
  /\ Idle
  /\ known' = NoneKnown
  /\ UNCHANGED <<dataVars, calls, log, gap>>

-----------------------------------------------------------------------------
(* The handlers.  Each may raise before it changes anything: a parameter is     *)
(* missing, an address does not resolve, IDA refuses.                           *)

Refused == phase = "running" /\ call.tool \notin {"undo", "execute_python"} /\ Raises(db)

\* _rename_global_or_func: a name is one address's.
RenameGlobal ==
  /\ Running("rename") /\ call.on = "addr"
  /\ \E ea \in resolve_addr(call.at) :
       /\ \A a \in Addr \ {ea} : db[<<"name", a>>] # call.arg
       /\ Sets(<<"name", ea>>, call.arg)

\* _rename_local
RenameLocal ==
  /\ Running("rename") /\ call.on = "local"
  /\ \E ea \in start_ea(call.at) : Sets(<<"local", ea>>, call.arg)

\* The addresses a comment tool may mean.
Commented == IF call.on = "func" THEN start_ea(call.at) ELSE resolve_addr(call.at)

\* set_comment: an empty comment removes it.
SetComment ==
  /\ Running("set_comment")
  /\ \E ea \in Commented : Sets(<<call.on, ea>>, call.arg)

\* get_comment
GetComment ==
  /\ Running("get_comment")
  /\ \E ea \in Commented : Sets(<<call.on, ea>>, db[<<call.on, ea>>])

\* _set_type_addr: SetType for the entry of a function, and if that fails, or
\* elsewhere, apply_tinfo of the parsed text.  The answer reads the type back.
SetTypeAddr ==
  /\ Running("set_type") /\ call.on = "addr" /\ Parses(call.arg)
  /\ \E ea \in resolve_addr(call.at) : Sets(<<"type", ea>>, call.arg)

\* _set_type_local: it changes the type in the decompiler's copy of the function,
\* reads it back there and reports it; the database is as it was.
SetTypeLocal ==
  /\ Running("set_type") /\ call.on = "local" /\ Parses(call.arg)
  /\ \E ea \in start_ea(call.at) : Returns(db, [f \in {<<"ltype", ea>>} |-> call.arg])

\* Faulty variant: the names in the text are reported without a look at the library.
DefineType_Trusting ==
  /\ Running("define_type")
  /\ \E new \in SUBSET call.arg :
       Returns([f \in Fact |-> IF f \in {"til"} \X new THEN call.def ELSE db[f]],
               [f \in {"til"} \X (call.arg \ Hidden) |-> call.def])

\* define_type: parse_decls defines, or defines again, some of the declared types,
\* all if there is no error.  Each name found in the text is reported with what the
\* library has of it now, be it the old definition, or left out if it has none; with
\* an error and none to report, it raises.
DefineType ==
  /\ Running("define_type")
  /\ \E new \in SUBSET call.arg :
       LET d     == [f \in Fact |-> IF f \in {"til"} \X new THEN call.def ELSE db[f]]
           found == {"til"} \X (call.arg \ Hidden)
       IN  IF new # call.arg /\ \A f \in found : d[f] = None
           THEN Raises(d)
           ELSE Returns(d, [f \in found |-> d[f]])

\* get_type: its definition, if the library has it.
GetType ==
  /\ Running("get_type") /\ Defined(call.arg)
  /\ Sets(<<"til", call.arg>>, db[<<"til", call.arg>>])

\* execute_python: the code changes what it likes, here one fact, then returns or
\* raises; either is an answer.
ExecutePython ==
  /\ Running("execute_python")
  /\ \/ Returns(db, NoClaim)
     \/ \E a \in Addr, t \in Text : Returns([db EXCEPT ![<<"addr", a>>] = t], NoClaim)

\* One turn of undo's loop: get_undo_action_label and perform_undo.
UndoStep ==
  /\ Running("undo") /\ Len(answer.labels) < call.arg /\ points # << >>
  /\ LET last == points[Len(points)] IN
     /\ db'     = last.db
     /\ answer' = [answer EXCEPT !.labels = Append(@, last.label)]
  /\ points' = SubSeq(points, 1, Len(points) - 1)
  /\ log' = IF log = << >> THEN log ELSE SubSeq(log, 1, Len(log) - 1)
  /\ UNCHANGED <<saved, phase, call, calls, start, known, gap>>

\* The count is reached, there is nothing left, or perform_undo returns False.
UndoEnds == Running("undo") /\ Returns(db, NoClaim)

-----------------------------------------------------------------------------
(* The worker. *)

\* SaveDatabase between two calls
Save ==
  /\ phase = "idle" /\ saved # db
  /\ saved' = db
  /\ UNCHANGED <<db, points, phase, call, answer, calls, historyVars>>

\* It dies; the next one opens what was saved, and has no undo points.
Crash ==
  /\ Idle /\ db' = saved /\ points' = << >>
  /\ log' = << >> /\ known' = NoneKnown /\ gap' = FALSE
  /\ UNCHANGED <<saved, calls>>

Handler ==
  \/ Refused \/ RenameGlobal \/ RenameLocal \/ SetComment \/ GetComment \/ SetTypeAddr
  \/ SetTypeLocal \/ DefineType \/ GetType \/ ExecutePython \/ UndoStep \/ UndoEnds

Next == (\E c \in Call : Start(c)) \/ Handler \/ Answer \/ Cancelled \/ Save \/ Crash

Spec == Init /\ [][Next]_vars

-----------------------------------------------------------------------------
(* Properties. *)

Database == [Fact -> Value]
Point    == [label : Write, db : Database]
Entry    == [tool : Write, db : Database, known : [Fact -> Value \cup {Unsure}]]

\* Every variable has its type.
TypeOK ==
  /\ db \in Database /\ saved \in Database
  /\ points \in Seq(Point)
  /\ phase \in {"idle", "running", "done"} /\ call \in Call \cup {NoCall}
  /\ answer.verdict \in {"none", "ok", "error"} /\ answer.labels \in Seq(Write)
  /\ calls \in 0..MaxCalls /\ gap \in BOOLEAN
  /\ log \in Seq(Entry) /\ start \in Seq(Entry) /\ known \in [Fact -> Value \cup {Unsure}]

\* An undo that reports n labels names the last n write calls, the newest first,
\* and the database is back where it was before the n-th of them, whatever they
\* ended with: answers, errors or cancellations.
UndoGoesBack ==
  LET n == Len(answer.labels) IN
  call.tool = "undo" /\ n > 0 /\ ~gap =>
    /\ n <= call.arg /\ n <= Len(start)
    /\ \A i \in 1..n : answer.labels[i] = start[Len(start) - i + 1].tool
    /\ db = start[Len(start) - n + 1].db

\* A client that only goes by the answers is never wrong about the database, but for
\* the types of local variables: what was written is read back, a type that is
\* declared again has the definition that its report gives, an error changed nothing,
\* and an undo restored what was known before.
AnswersTellTheDatabase ==
  phase = "idle" => \A f \in Fact \ LocalType : known[f] \in {Unsure, db[f]}

\* Not so: what set_type reports of a local variable (types/handlers.py:163), which
\* its description and tests take for set, is in the database.
LocalTypesAreSet ==
  phase = "idle" => \A f \in LocalType : known[f] \in {Unsure, db[f]}

\* Not so: a type that define_type reports has the definition that was declared
\* ("Re-declaring an existing type updates it", types/metadata.py:45).
ReportedIsDeclared ==
  phase = "done" /\ call.tool = "define_type" =>
    \A f \in DOMAIN answer.claim : answer.claim[f] \in {call.def, None}

\* Not so: "0 types defined" (types/handlers.py:326) has defined none.  There may be
\* some whose names the patterns miss.
ErrorDefinesNothing ==
  phase = "done" /\ call.tool = "define_type" /\ answer.verdict = "error" =>
    db = log[Len(log)].db
=============================================================================
