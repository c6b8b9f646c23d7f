----------------------------- MODULE EditsProofs ------------------------------
(***************************************************************************)
(* What the answers of the editing tools tell about the database, and what *)
(* an undo goes back to, for every set of addresses, names, comments and   *)
(* types and every number of calls.                                        *)
(***************************************************************************)
EXTENDS Edits, SequenceTheorems, TLAPS

\* The facts that answers are right about.
Sure == Fact \ LocalType

\* What is known of a database agrees with it.
Agrees(k, d) == \A f \in Sure : k[f] \in {Unsure, d[f]}

\* A claim gives some facts a value.
IsClaim(claim) ==
  /\ claim = [f \in DOMAIN claim |-> claim[f]] /\ DOMAIN claim \subseteq Fact
  /\ \A f \in DOMAIN claim : claim[f] \in Value

\* An answer is a record, with a claim.
AnswerOK ==
  /\ answer = [verdict |-> answer.verdict, claim |-> answer.claim, labels |-> answer.labels]
  /\ IsClaim(answer.claim)

\* A call is answered when its handler is done, and only undo lists labels.
Staged ==
  /\ phase = "idle" <=> call = NoCall
  /\ phase = "idle" => answer = NoAnswer
  /\ phase = "running" => answer.claim = NoClaim
  /\ call.tool # "undo" => answer.labels = << >>
  /\ call.tool = "undo" => answer.claim = NoClaim

\* IDA's undo points are those of the write calls.
Aligned ==
  ~gap => /\ Len(points) = Len(log)
          /\ \A i \in 1..Len(log) : points[i] = [label |-> log[i].tool, db |-> log[i].db]

\* An undo takes the calls off the end of what was logged when it began.
Undone ==
  call.tool = "undo" /\ ~gap =>
    LET n == Len(answer.labels) IN
    /\ n <= call.arg /\ n <= Len(start) /\ Len(log) = Len(start) - n
    /\ \A i \in 1..Len(log) : log[i] = start[i]
    /\ \A i \in 1..n : answer.labels[i] = start[Len(start) - i + 1].tool
    /\ n > 0 => db = start[Len(start) - n + 1].db

\* What was known before a write call agreed with the database then.
Remembered(entries) == \A i \in 1..Len(entries) : Agrees(entries[i].known, entries[i].db)

\* Types that define_type's patterns miss.
Missed(f) == call.tool = "define_type" /\ f \in {"til"} \X (call.arg \cap Hidden)

\* What is claimed is so, and what is not claimed is as it was, but for the types
\* that define_type's patterns miss.
Truthful ==
  \A f \in Sure :
    IF f \in DOMAIN answer.claim THEN answer.claim[f] = db[f]
    ELSE \/ phase = "done" /\ Missed(f)
         \/ known[f] \in {Unsure, db[f]}

\* Between two calls all that is known is so; during one, what its answer will tell,
\* unless it runs a client's code or an undo has taken calls back.
Told ==
  /\ phase = "idle" => Agrees(known, db)
  /\ phase # "idle" /\ call.tool # "execute_python" /\ answer.labels = << >> => Truthful

\* The inductive invariant.
IInv ==
  /\ TypeOK /\ AnswerOK /\ Staged
  /\ Aligned /\ Undone
  /\ Remembered(log) /\ Remembered(start) /\ Told

-----------------------------------------------------------------------------
(* The model's operators. *)

\* The facts of an address, of a function and of a type are facts.
LEMMA Facts ==
  /\ \A a \in Addr : <<"name", a>> \in Fact /\ <<"type", a>> \in Fact /\ <<"addr", a>> \in Fact
  /\ \A a \in Func : /\ <<"func", a>> \in Fact /\ <<"local", a>> \in Fact
                     /\ <<"ltype", a>> \in LocalType /\ <<"ltype", a>> \in Fact
  /\ \A t \in Named : <<"til", t>> \in Fact
BY DEF Fact, LocalType

\* A sequence cut short.
LEMMA Cut ==
  ASSUME NEW S, NEW s \in Seq(S), NEW m \in Nat, m < Len(s)
  PROVE  LET t == SubSeq(s, 1, m) IN
         t \in Seq(S) /\ Len(t) = m /\ \A i \in 1..m : t[i] = s[i]
<1>1. Len(s) \in Nat /\ \A i \in 1..m : s[i] \in S
  BY LenProperties, ElementOfSeq
<1>2. SubSeq(s, 1, m) \in Seq(S) /\ Len(SubSeq(s, 1, m)) = m
  BY <1>1
<1>3. \A i \in 1..m : SubSeq(s, 1, m)[i] = s[i]
  BY <1>1
<1>4. QED
  BY <1>2, <1>3

\* What a parameter stands for is an address, or the entry of a function.
LEMMA Resolved ==
  ASSUME NEW at
  PROVE  resolve_addr(at) \subseteq Addr /\ start_ea(at) \subseteq Func
BY DEF resolve_addr, start_ea, Func

\* The parameters of the calls.
LEMMA Parameters ==
  ASSUME NEW c \in Call
  PROVE  /\ c # NoCall
         /\ c.tool = "rename" => c.on \in {"addr", "local"} /\ c.arg \in Symbol
         /\ c.tool = "set_comment" => c.on \in {"addr", "func"} /\ c.arg \in Text \cup {None}
         /\ c.tool = "set_type" => c.on \in {"addr", "local"} /\ c.arg \in BuiltIn \cup Named
         /\ c.tool = "get_comment" => c.on \in {"addr", "func"}
         /\ c.tool = "define_type" => c.arg \subseteq Named /\ c.def \in Def
         /\ c.tool = "get_type" => c.arg \in Named
         /\ c.tool = "undo" => c.arg \in Nat /\ c.arg > 0
BY BoundAssumption DEF Call, NoCall

\* A handler claims what is so in d, and says all that it changed.
Tells(claim, d) ==
  \A f \in Sure :
    IF f \in DOMAIN claim THEN claim[f] = d[f] ELSE Missed(f) \/ d[f] = db[f]

\* It returns, or raises.
Ends(d, claim) == Returns(d, claim) \/ (claim = NoClaim /\ Raises(d))

\* A handler that is done leaves what holds, if it is an undo that changes nothing
\* more, or code of the client's, or else only claims what is so and says all that
\* it changed.
LEMMA HandlerDone ==
  ASSUME IInv, phase = "running", NEW d \in Database, NEW claim, IsClaim(claim),
         call.tool = "undo" => d = db /\ claim = NoClaim,
         call.tool # "execute_python" => Tells(claim, d),
         Ends(d, claim)
  PROVE  IInv'
<1>1. /\ phase' = "done" /\ db' = d
      /\ answer'.verdict \in {"ok", "error"} /\ answer'.claim = claim
      /\ answer'.labels = answer.labels
      /\ answer' = [verdict |-> answer'.verdict, claim |-> answer'.claim, labels |-> answer'.labels]
      /\ UNCHANGED <<saved, points, call, calls, log, start, known, gap>>
  BY DEF IInv, AnswerOK, Staged, Ends, Returns, Raises, historyVars
<1>2. TypeOK'
  BY <1>1 DEF IInv, TypeOK
<1>3. AnswerOK'
  BY <1>1 DEF IInv, AnswerOK
<1>4. Staged' /\ Aligned'
  BY <1>1 DEF IInv, Staged, Aligned
<1>5. Undone'
  BY <1>1 DEF IInv, Undone
<1>6. Remembered(log)' /\ Remembered(start)'
  BY <1>1 DEF IInv, Remembered, Agrees
<1>7. Told'
  <2>1. SUFFICES ASSUME call.tool # "execute_python", answer.labels = << >>
                 PROVE  Truthful'
    BY <1>1 DEF Told
  <2>2. \A f \in Sure : known[f] \in {Unsure, db[f]}
    BY <2>1 DEF IInv, Told, Truthful, NoClaim, Staged
  <2>3. QED
    BY <1>1, <2>1, <2>2 DEF Truthful, Tells, Missed
<1>8. QED
  BY <1>2, <1>3, <1>4, <1>5, <1>6, <1>7 DEF IInv

\* A handler that claims nothing.
LEMMA ClaimsNothing ==
  /\ DOMAIN NoClaim = {} /\ IsClaim(NoClaim)
  /\ Tells(NoClaim, db)
BY DEF NoClaim, IsClaim, Tells

\* HandlerDone for a handler that writes one fact, or reads it, and says so.
LEMMA SetsOne ==
  ASSUME IInv, phase = "running", call.tool # "undo",
         NEW f \in Fact, NEW v \in Value, Sets(f, v)
  PROVE  IInv'
<1> DEFINE d == [db EXCEPT ![f] = v]
           claim == [g \in {f} |-> v]
<1>1. db \in [Fact -> Value]
  BY DEF IInv, TypeOK, Database
<1>2. d \in Database /\ d[f] = v /\ \A g \in Fact : g = f \/ d[g] = db[g]
  BY <1>1 DEF Database
<1>3. IsClaim(claim)
  BY DEF IsClaim
<1>4. Tells(claim, d)
  BY <1>2 DEF Tells
<1>5. Returns(d, claim)
  BY DEF Sets
<1> HIDE DEF d, claim
<1>6. QED
  BY <1>2, <1>3, <1>4, <1>5, HandlerDone DEF Ends

-----------------------------------------------------------------------------
(* The initial states and the steps. *)

LEMMA InitIInv == Init => IInv
<1> SUFFICES ASSUME Init PROVE IInv
  OBVIOUS
<1> USE DEF Init, NoAnswer, NoClaim, NoCall
<1>1. TypeOK
  <2>1. db \in Database /\ saved \in Database /\ known \in [Fact -> Value \cup {Unsure}]
    BY DEF Database, Value
  <2>2. /\ << >> \in Seq(Point) /\ << >> \in Seq(Entry) /\ << >> \in Seq(Write)
    BY EmptySeq
  <2>3. calls \in 0..MaxCalls
    BY BoundAssumption
  <2>4. gap \in BOOLEAN /\ call \in Call \cup {NoCall}
    OBVIOUS
  <2>5. QED
    BY <2>1, <2>2, <2>3, <2>4 DEF TypeOK
<1>2. AnswerOK /\ Staged
  BY DEF AnswerOK, IsClaim, Staged
<1>3. Aligned /\ Undone /\ Remembered(log) /\ Remembered(start)
  BY DEF Aligned, Undone, Remembered
<1>4. Told
  BY DEF Told, Agrees
<1>5. QED
  BY <1>1, <1>2, <1>3, <1>4 DEF IInv

\* A call begins: what is logged of it is what its undo point has.
LEMMA StartIInv ==
  ASSUME IInv, NEW c \in Call, Start(c)
  PROVE  IInv'
<1> DEFINE entry == [tool |-> c.tool, db |-> db, known |-> known]
<1>1. TypeOK /\ phase = "idle" /\ Agrees(known, db)
  BY DEF IInv, Told, Start
<1>2. /\ phase' = "running" /\ call' = c /\ answer' = NoAnswer /\ start' = log
      /\ UNCHANGED <<db, saved, known>> /\ gap' \in BOOLEAN /\ calls' \in 0..MaxCalls
      /\ gap => gap'
  <2>1. phase' = "running" /\ call' = c /\ answer' = NoAnswer /\ start' = log
    BY DEF Start
  <2>2. UNCHANGED <<db, saved, known>> /\ calls' = calls + 1 /\ calls < MaxCalls
    BY DEF Start
  <2>3. gap' = gap \/ gap' = TRUE
    BY DEF Start
  <2>4. calls \in 0..MaxCalls /\ gap \in BOOLEAN
    BY <1>1 DEF TypeOK
  <2>5. calls' \in 0..MaxCalls
    BY <2>2, <2>4, BoundAssumption
  <2>6. gap' \in BOOLEAN /\ (gap => gap')
    BY <2>3, <2>4
  <2>7. QED
    BY <2>1, <2>2, <2>5, <2>6
<1>3. CASE c.tool \in Write
  <2>1. entry \in Entry
    BY <1>1, <1>3 DEF TypeOK, Entry
  <2>2. log' = Append(log, entry)
    BY <1>3 DEF Start
  <2>3. \/ points' = Append(points, [label |-> c.tool, db |-> db]) /\ gap' = gap
        \/ points' = points /\ gap'
    BY <1>3 DEF Start, MakesPoint
  <2>4. c.tool # "undo"
    BY <1>3 DEF Write
  <2>5. TypeOK'
    <3>1. log' \in Seq(Entry)
      BY <1>1, <2>1, <2>2 DEF TypeOK
    <3>2. points' \in Seq(Point)
      <4>1. [label |-> c.tool, db |-> db] \in Point
        BY <1>1, <1>3 DEF TypeOK, Point
      <4>2. points \in Seq(Point)
        BY <1>1 DEF TypeOK
      <4>3. points' \in {points, Append(points, [label |-> c.tool, db |-> db])}
        BY <2>3
      <4>4. QED
        BY <4>1, <4>2, <4>3
    <3>3. QED
      BY <1>1, <1>2, <3>1, <3>2 DEF TypeOK, NoAnswer
  <2>6. AnswerOK' /\ Staged'
    BY <1>2, Parameters DEF AnswerOK, IsClaim, Staged, NoAnswer, NoClaim
  <2>7. Aligned'
    <3>1. SUFFICES ASSUME ~gap' PROVE Aligned'
      BY DEF Aligned
    <3>2. /\ points' = Append(points, [label |-> c.tool, db |-> db])
          /\ Len(points) = Len(log)
          /\ \A i \in 1..Len(log) : points[i] = [label |-> log[i].tool, db |-> log[i].db]
      BY <1>2, <2>3, <3>1 DEF IInv, Aligned
    <3>3. QED
      BY <1>1, <2>1, <2>2, <3>2 DEF Aligned, TypeOK
  <2>8. Undone'
    BY <1>2, <2>4 DEF Undone
  <2>9. Remembered(log)' /\ Remembered(start)'
    BY <1>1, <1>2, <2>2 DEF IInv, Remembered, Agrees, TypeOK
  <2>10. Told'
    BY <1>1, <1>2 DEF Told, Agrees, Truthful, NoAnswer, NoClaim
  <2>11. QED
    BY <2>5, <2>6, <2>7, <2>8, <2>9, <2>10 DEF IInv
<1>4. CASE c.tool \notin Write
  <2>1. log' = log /\ points' = points /\ gap' = gap
    BY <1>4 DEF Start, MakesPoint
  <2>2. TypeOK'
    BY <1>1, <1>2, <2>1 DEF TypeOK, NoAnswer
  <2>3. AnswerOK' /\ Staged'
    BY <1>2, Parameters DEF AnswerOK, IsClaim, Staged, NoAnswer, NoClaim
  <2>4. Aligned' /\ Remembered(log)' /\ Remembered(start)'
    BY <1>2, <2>1 DEF IInv, Aligned, Remembered, Agrees
  <2>5. Undone'
    BY <1>1, <1>2, <2>1, Parameters DEF Undone, NoAnswer, TypeOK
  <2>6. Told'
    BY <1>1, <1>2 DEF Told, Agrees, Truthful, NoAnswer, NoClaim
  <2>7. QED
    BY <2>2, <2>3, <2>4, <2>5, <2>6 DEF IInv
<1>5. QED
  BY <1>3, <1>4

\* A worker without a call: nothing to answer, and nothing undone.
LEMMA IdleAfter ==
  ASSUME Idle
  PROVE  /\ AnswerOK' /\ Staged' /\ Undone' /\ Remembered(start)'
         /\ start' \in Seq(Entry) /\ call' \in Call \cup {NoCall}
         /\ phase' \in {"idle", "running", "done"}
         /\ answer'.verdict \in {"none", "ok", "error"} /\ answer'.labels \in Seq(Write)
         /\ Agrees(known, db)' => Told'
BY DEF Idle, AnswerOK, IsClaim, Staged, Undone, Remembered, NoAnswer, NoClaim, NoCall, Told

\* Nothing known agrees with anything.
LEMMA NoneKnownAgrees ==
  /\ NoneKnown \in [Fact -> Value \cup {Unsure}]
  /\ \A d : Agrees(NoneKnown, d)
BY DEF NoneKnown, Agrees, Sure

LEMMA CancelledIInv ==
  ASSUME IInv, Cancelled
  PROVE  IInv'
<1>1. Idle /\ known' = NoneKnown /\ UNCHANGED <<db, saved, points, calls, log, gap>>
  BY DEF Cancelled, dataVars
<1>2. TypeOK'
  BY <1>1, IdleAfter, NoneKnownAgrees DEF IInv, TypeOK
<1>3. Aligned' /\ Remembered(log)'
  BY <1>1 DEF IInv, Aligned, Remembered, Agrees
<1>4. Told'
  BY <1>1, IdleAfter, NoneKnownAgrees DEF Agrees
<1>5. QED
  BY <1>1, <1>2, <1>3, <1>4, IdleAfter DEF IInv

LEMMA CrashIInv ==
  ASSUME IInv, Crash
  PROVE  IInv'
<1>1. /\ Idle /\ db' = saved /\ points' = << >> /\ log' = << >> /\ known' = NoneKnown
      /\ gap' = FALSE /\ UNCHANGED <<saved, calls>>
  BY DEF Crash
<1>2. TypeOK'
  <2>1. << >> \in Seq(Point) /\ << >> \in Seq(Entry)
    BY EmptySeq
  <2>2. gap' \in BOOLEAN
    BY <1>1
  <2>3. QED
    BY <1>1, <2>1, <2>2, IdleAfter, NoneKnownAgrees DEF IInv, TypeOK
<1>3. Aligned' /\ Remembered(log)'
  BY <1>1 DEF Aligned, Remembered
<1>4. Told'
  BY <1>1, IdleAfter, NoneKnownAgrees DEF Agrees
<1>5. QED
  BY <1>1, <1>2, <1>3, <1>4, IdleAfter DEF IInv

LEMMA SaveIInv ==
  ASSUME IInv, Save
  PROVE  IInv'
<1>1. /\ saved' = db
      /\ UNCHANGED <<db, points, phase, call, answer, calls, log, start, known, gap>>
  BY DEF Save, historyVars
<1>2. TypeOK' /\ AnswerOK' /\ Staged' /\ Aligned'
  BY <1>1 DEF IInv, TypeOK, AnswerOK, Staged, Aligned
<1>3. Undone' /\ Remembered(log)' /\ Remembered(start)' /\ Told'
  BY <1>1 DEF IInv, Undone, Remembered, Agrees, Told, Truthful, Missed
<1>4. QED
  BY <1>2, <1>3 DEF IInv

\* What is known after an undo is what was known before the last call it took back.
LEMMA UndoneAgrees ==
  ASSUME IInv, phase = "done", call.tool = "undo"
  PROVE  Agrees(KnownAfterUndo, db) /\ KnownAfterUndo \in [Fact -> Value \cup {Unsure}]
<1> DEFINE n == Len(answer.labels)
<1>1. TypeOK /\ n \in Nat /\ Len(start) \in Nat
  BY LenProperties DEF IInv, TypeOK
<1>2. CASE n = 0
  <2>1. KnownAfterUndo = known /\ answer.labels = << >>
    BY <1>1, <1>2 DEF KnownAfterUndo, TypeOK
  <2>2. Agrees(known, db)
    BY <2>1 DEF IInv, Told, Truthful, Missed, Agrees, Staged, NoClaim
  <2>3. QED
    BY <1>1, <2>1, <2>2 DEF TypeOK
<1>3. CASE n \in 1..Len(start) /\ ~gap
  <2> DEFINE k == Len(start) - n + 1
  <2>1. KnownAfterUndo = start[k].known
    <3>1. n # 0
      BY <1>1, <1>3
    <3>2. QED
      BY <1>3, <3>1, Zenon DEF KnownAfterUndo
  <2>2. k \in 1..Len(start) /\ start[k] \in Entry
    <3>1. k \in 1..Len(start)
      BY <1>1, <1>3
    <3>2. QED
      BY <1>1, <3>1, ElementOfSeq DEF TypeOK
  <2>3. db = start[k].db
    <3>1. n > 0 /\ ~gap
      BY <1>1, <1>3
    <3>2. QED
      BY <3>1 DEF IInv, Undone
  <2>4. Agrees(start[k].known, start[k].db)
    BY <2>2 DEF IInv, Remembered
  <2>5. QED
    BY <2>1, <2>2, <2>3, <2>4 DEF Entry
<1>4. CASE n # 0 /\ ~(n \in 1..Len(start) /\ ~gap)
  <2>1. KnownAfterUndo = NoneKnown
    BY <1>4 DEF KnownAfterUndo
  <2>2. QED
    BY <2>1, NoneKnownAgrees
<1>5. QED
  BY <1>2, <1>3, <1>4

LEMMA AnswerIInv ==
  ASSUME IInv, Answer
  PROVE  IInv'
<1>1. /\ phase = "done" /\ Idle /\ UNCHANGED <<db, saved, points, calls, log, gap>>
      /\ TypeOK /\ AnswerOK
  BY DEF Answer, dataVars, IInv
<1>2. known' \in [Fact -> Value \cup {Unsure}] /\ Agrees(known', db)
  <2>1. CASE call.tool = "execute_python"
    <3>1. known' = NoneKnown
      BY <2>1 DEF Answer
    <3>2. QED
      BY <3>1, NoneKnownAgrees
  <2>2. CASE call.tool = "undo"
    <3>1. known' = KnownAfterUndo
      BY <2>2 DEF Answer
    <3>2. QED
      BY <1>1, <2>2, <3>1, UndoneAgrees
  <2>3. CASE call.tool \notin {"execute_python", "undo"}
    <3>1. Truthful
      BY <1>1, <2>3 DEF IInv, Told, Staged
    <3>2. CASE call.tool = "define_type"
      <4>1. known' = [f \in Fact |-> IF f \in DOMAIN answer.claim THEN answer.claim[f]
                                     ELSE IF f \in {"til"} \X (call.arg \cap Hidden) THEN Unsure
                                     ELSE known[f]]
        BY <3>2 DEF Answer
      <4>2. QED
        BY <1>1, <3>1, <4>1 DEF Truthful, Missed, Agrees, Sure, TypeOK, AnswerOK, IsClaim
    <3>3. CASE call.tool # "define_type"
      <4>1. known' = [f \in Fact |-> IF f \in DOMAIN answer.claim
                                     THEN answer.claim[f] ELSE known[f]]
        BY <2>3, <3>3 DEF Answer
      <4>2. QED
        BY <1>1, <3>1, <3>3, <4>1 DEF Truthful, Missed, Agrees, Sure, TypeOK, AnswerOK, IsClaim
    <3>4. QED
      BY <3>2, <3>3
  <2>4. QED
    BY <2>1, <2>2, <2>3
<1>3. TypeOK'
  BY <1>1, <1>2, IdleAfter DEF TypeOK
<1>4. Aligned' /\ Remembered(log)'
  BY <1>1 DEF IInv, Aligned, Remembered, Agrees
<1>5. Told'
  BY <1>1, <1>2, IdleAfter DEF Agrees
<1>6. QED
  BY <1>1, <1>3, <1>4, <1>5, IdleAfter DEF IInv

-----------------------------------------------------------------------------
(* The handlers. *)

LEMMA DefineTypeIInv ==
  ASSUME IInv, DefineType
  PROVE  IInv'
<1>1. TypeOK /\ call \in Call /\ call.tool = "define_type" /\ phase = "running"
  BY DEF IInv, TypeOK, Staged, DefineType, Running
<1>2. call.arg \subseteq Named
  BY <1>1, Parameters
<1> DEFINE D(new) == [f \in Fact |-> IF f \in {"til"} \X new THEN call.def ELSE db[f]]
           found == {"til"} \X (call.arg \ Hidden)
<1>3. PICK new \in SUBSET call.arg :
        IF new # call.arg /\ \A f \in found : D(new)[f] = None
        THEN Raises(D(new))
        ELSE Returns(D(new), [f \in found |-> D(new)[f]])
  BY DEF DefineType
<1> DEFINE d == D(new)
           claim == [f \in found |-> d[f]]
<1>4. d \in Database
  BY <1>1, <1>2, Parameters DEF Database, TypeOK, Value
<1>5. found \subseteq Fact /\ DOMAIN claim = found
  BY <1>2 DEF Fact
\* Where there was a definition there is one now.
<1>6. \A f \in Fact : /\ f \in found \/ Missed(f) \/ d[f] = db[f]
                      /\ d[f] = None => d[f] = db[f]
  <2>1. call.def # None
    BY <1>1, Parameters, ValueAssumption
  <2>2. \A f \in Fact : d[f] = IF f \in {"til"} \X new THEN call.def ELSE db[f]
    OBVIOUS
  <2> HIDE DEF d
  <2>3. QED
    BY <1>1, <2>1, <2>2 DEF Missed
<1>7. \A f \in found : d[f] \in Value /\ claim[f] = d[f]
  BY <1>4, <1>5 DEF Database
<1>8. IsClaim(claim) /\ Tells(claim, d)
  <2> HIDE DEF d, found
  <2>1. claim = [f \in DOMAIN claim |-> claim[f]]
    OBVIOUS
  <2> HIDE DEF claim
  <2>2. QED
    BY <1>5, <1>6, <1>7, <2>1 DEF IsClaim, Tells, Sure
<1>9. CASE Raises(d) /\ \A f \in found : d[f] = None
  <2> HIDE DEF d, found
  <2>1. Tells(NoClaim, d)
    BY <1>5, <1>6, <1>9, ClaimsNothing DEF Tells, Sure
  <2>2. QED
    BY <1>1, <1>4, <1>9, <2>1, ClaimsNothing, HandlerDone DEF Ends
<1>10. CASE Returns(d, claim)
  <2> HIDE DEF claim, d
  <2>1. QED
    BY <1>1, <1>4, <1>8, <1>10, HandlerDone DEF Ends
<1>11. QED
  BY <1>3, <1>9, <1>10

\* What it claims is of the type of a local variable.
LEMMA SetTypeLocalIInv ==
  ASSUME IInv, SetTypeLocal
  PROVE  IInv'
<1>1. /\ call \in Call /\ call.tool = "set_type" /\ phase = "running" /\ db \in Database
      /\ call.arg \in Value
  BY Parameters DEF IInv, TypeOK, Staged, SetTypeLocal, Running, Value
<1>2. PICK ea \in start_ea(call.at) :
        Returns(db, [f \in {<<"ltype", ea>>} |-> call.arg])
  BY DEF SetTypeLocal
<1> DEFINE g == <<"ltype", ea>>
           claim == [f \in {g} |-> call.arg]
<1>3. g \in Fact /\ g \in LocalType
  BY Resolved, Facts
<1> HIDE DEF g
<1>4. IsClaim(claim)
  BY <1>1, <1>3 DEF IsClaim
<1>5. Tells(claim, db)
  BY <1>3 DEF Tells, Sure
<1>6. Returns(db, claim)
  BY <1>2 DEF g
<1> HIDE DEF claim
<1>7. QED
  BY <1>1, <1>4, <1>5, <1>6, HandlerDone DEF Ends

LEMMA ExecutePythonIInv ==
  ASSUME IInv, ExecutePython
  PROVE  IInv'
<1>1. TypeOK /\ call.tool = "execute_python" /\ phase = "running"
  BY DEF IInv, ExecutePython, Running
<1>2. PICK d \in Database : Returns(d, NoClaim)
  <2>1. \A a \in Addr, t \in Text : [db EXCEPT ![<<"addr", a>>] = t] \in Database
    BY <1>1, Facts DEF TypeOK, Database, Value
  <2>2. QED
    BY <1>1, <2>1 DEF ExecutePython, TypeOK
<1>3. QED
  BY <1>1, <1>2, ClaimsNothing, HandlerDone DEF Ends

\* One turn of an undo takes the last call off the log and its point off IDA's.
LEMMA UndoStepIInv ==
  ASSUME IInv, UndoStep
  PROVE  IInv'
<1> DEFINE last == points[Len(points)]
           n == Len(answer.labels)
<1>1. /\ TypeOK /\ AnswerOK /\ phase = "running" /\ call.tool = "undo" /\ points # << >>
      /\ n < call.arg /\ call \in Call
      /\ points' = SubSeq(points, 1, Len(points) - 1) /\ db' = last.db
      /\ log' = IF log = << >> THEN log ELSE SubSeq(log, 1, Len(log) - 1)
      /\ UNCHANGED <<saved, phase, call, calls, start, known, gap>>
  BY DEF IInv, TypeOK, Staged, UndoStep, Running
<1>2. /\ answer'.verdict = answer.verdict /\ answer'.claim = answer.claim
      /\ answer'.labels = Append(answer.labels, last.label)
      /\ answer' = [verdict |-> answer'.verdict, claim |-> answer'.claim, labels |-> answer'.labels]
  BY <1>1 DEF UndoStep, AnswerOK
<1>3. /\ Len(points) \in Nat /\ Len(points) > 0 /\ n \in Nat /\ call.arg \in Nat
      /\ last \in Point /\ Len(log) \in Nat /\ Len(start) \in Nat
  <2>1. /\ points \in Seq(Point) /\ log \in Seq(Entry) /\ start \in Seq(Entry)
        /\ answer.labels \in Seq(Write)
    BY <1>1 DEF TypeOK
  <2>2. /\ Len(points) \in Nat /\ Len(log) \in Nat /\ Len(start) \in Nat
        /\ n \in Nat /\ call.arg \in Nat
    BY <1>1, <2>1, LenProperties, Parameters
  <2>3. Len(points) > 0
    BY <1>1, <2>1, <2>2, EmptySeq
  <2>4. last \in Point
    BY <2>1, <2>2, <2>3, ElementOfSeq
  <2>5. QED
    BY <2>2, <2>3, <2>4
<1>4. /\ Len(points') = Len(points) - 1 /\ \A i \in 1..Len(points') : points'[i] = points[i]
      /\ points' \in Seq(Point)
  <2>1. points \in Seq(Point) /\ Len(points) - 1 \in Nat /\ Len(points) - 1 < Len(points)
    BY <1>1, <1>3 DEF TypeOK
  <2>2. QED
    BY <1>1, <2>1, Cut
<1>5. /\ log' \in Seq(Entry) /\ \A i \in 1..Len(log') : i \in 1..Len(log) /\ log'[i] = log[i]
      /\ Len(log) > 0 => Len(log') = Len(log) - 1
  <2>1. log \in Seq(Entry)
    BY <1>1 DEF TypeOK
  <2>2. CASE log = << >>
    BY <1>1, <2>1, <2>2, EmptySeq
  <2>3. CASE log # << >>
    <3>1. Len(log) > 0 /\ Len(log) - 1 \in Nat /\ Len(log) - 1 < Len(log)
      BY <1>3, <2>1, <2>3, EmptySeq
    <3>2. log' = SubSeq(log, 1, Len(log) - 1)
      BY <1>1, <2>3
    <3>3. /\ log' \in Seq(Entry) /\ Len(log') = Len(log) - 1
          /\ \A i \in 1..(Len(log) - 1) : log'[i] = log[i]
      BY <2>1, <3>1, <3>2, Cut
    <3>4. QED
      BY <1>3, <3>3
  <2>4. QED
    BY <2>2, <2>3
<1>6. /\ answer'.labels \in Seq(Write) /\ db' \in Database /\ Len(answer'.labels) = n + 1
      /\ answer'.labels # << >> /\ answer'.labels[n + 1] = last.label
      /\ \A i \in 1..n : answer'.labels[i] = answer.labels[i]
  <2>1. answer.labels \in Seq(Write) /\ last.label \in Write /\ last.db \in Database
    BY <1>1, <1>3 DEF TypeOK, Point
  <2>2. QED
    BY <1>1, <1>2, <2>1, AppendProperties
<1>7. TypeOK'
  BY <1>1, <1>2, <1>3, <1>4, <1>5, <1>6 DEF TypeOK
<1>8. AnswerOK' /\ Staged'
  BY <1>1, <1>2 DEF AnswerOK, Staged, IInv
<1>9. Aligned'
  BY <1>1, <1>3, <1>4, <1>5 DEF IInv, Aligned
<1>10. Undone'
  <2>1. SUFFICES ASSUME ~gap PROVE Undone'
    BY <1>1 DEF Undone
  <2>2. /\ n <= Len(start) /\ Len(log) = Len(start) - n
        /\ \A i \in 1..Len(log) : log[i] = start[i]
        /\ \A i \in 1..n : answer.labels[i] = start[Len(start) - i + 1].tool
    BY <1>1, <2>1 DEF IInv, Undone
  <2>3. /\ Len(log) = Len(points) /\ last.label = log[Len(log)].tool
        /\ last.db = log[Len(log)].db
    <3>1. /\ Len(log) = Len(points)
          /\ \A i \in 1..Len(log) : points[i] = [label |-> log[i].tool, db |-> log[i].db]
      BY <2>1 DEF IInv, Aligned
    <3>2. last = [label |-> log[Len(log)].tool, db |-> log[Len(log)].db]
      BY <1>3, <3>1
    <3>3. QED
      BY <3>1, <3>2
  <2> HIDE DEF last, n
  <2>4. /\ last.label = start[Len(start) - n].tool /\ last.db = start[Len(start) - n].db
        /\ Len(log) > 0
    BY <1>3, <2>2, <2>3
  <2>5. Len(answer'.labels) = n + 1 /\ Len(log') = Len(start) - (n + 1) /\ n + 1 <= Len(start)
    BY <1>3, <1>5, <1>6, <2>2, <2>4
  <2>6. \A i \in 1..Len(log') : log'[i] = start[i]
    BY <1>5, <2>2
  <2>7. \A i \in 1..(n + 1) : answer'.labels[i] = start[Len(start) - i + 1].tool
    <3>1. answer'.labels[n + 1] = start[Len(start) - (n + 1) + 1].tool
      <4>1. Len(start) - (n + 1) + 1 = Len(start) - n
        BY <1>3
      <4>2. QED
        BY <1>6, <2>4, <4>1
    <3>2. \A i \in 1..(n + 1) : i \in 1..n \/ i = n + 1
      BY <1>3
    <3>3. QED
      BY <1>6, <2>2, <3>1, <3>2
  <2>8. db' = start[Len(start) - (n + 1) + 1].db
    BY <1>1, <1>3, <2>4
  <2>9. /\ Len(answer'.labels) <= call'.arg /\ Len(answer'.labels) <= Len(start')
        /\ Len(log') = Len(start') - Len(answer'.labels)
    BY <1>1, <1>3, <2>5
  <2>10. \A i \in 1..Len(log') : log'[i] = start'[i]
    BY <1>1, <2>6
  <2>11. \A i \in 1..Len(answer'.labels) :
           answer'.labels[i] = start'[Len(start') - i + 1].tool
    BY <1>1, <2>5, <2>7
  <2>12. db' = start'[Len(start') - Len(answer'.labels) + 1].db
    BY <1>1, <2>5, <2>8
  <2>13. QED
    BY <2>9, <2>10, <2>11, <2>12 DEF Undone
<1>11. Remembered(log)' /\ Remembered(start)'
  BY <1>1, <1>5 DEF IInv, Remembered, Agrees
<1>12. Told'
  BY <1>1, <1>6 DEF Told
<1>13. QED
  BY <1>7, <1>8, <1>9, <1>10, <1>11, <1>12 DEF IInv

LEMMA HandlerIInv ==
  ASSUME IInv, Handler
  PROVE  IInv'
<1>1. TypeOK /\ db \in Database
  BY DEF IInv, TypeOK
<1>2. phase # "idle" => call \in Call
  BY DEF IInv, TypeOK, Staged
<1>3. \A ea \in Commented : call.on \in {"addr", "func"} => <<call.on, ea>> \in Fact
  BY Resolved, Facts DEF Commented
<1>4. CASE Refused
  BY <1>1, <1>4, ClaimsNothing, HandlerDone DEF Refused, Ends
<1>5. CASE RenameGlobal
  <2>1. PICK ea \in resolve_addr(call.at) : Sets(<<"name", ea>>, call.arg)
    BY <1>5 DEF RenameGlobal
  <2>2. phase = "running" /\ call.tool = "rename" /\ call.arg \in Value
    BY <1>2, <1>5, Parameters DEF RenameGlobal, Running, Value
  <2>3. QED
    BY <2>1, <2>2, Resolved, Facts, SetsOne
<1>6. CASE RenameLocal
  <2>1. PICK ea \in start_ea(call.at) : Sets(<<"local", ea>>, call.arg)
    BY <1>6 DEF RenameLocal
  <2>2. phase = "running" /\ call.tool = "rename" /\ call.arg \in Value
    BY <1>2, <1>6, Parameters DEF RenameLocal, Running, Value
  <2>3. QED
    BY <2>1, <2>2, Resolved, Facts, SetsOne
<1>7. CASE SetComment
  <2>1. PICK ea \in Commented : Sets(<<call.on, ea>>, call.arg)
    BY <1>7 DEF SetComment
  <2>2. /\ phase = "running" /\ call.tool = "set_comment" /\ call.arg \in Value
        /\ call.on \in {"addr", "func"}
    BY <1>2, <1>7, Parameters DEF SetComment, Running, Value
  <2>3. QED
    BY <1>3, <2>1, <2>2, SetsOne
<1>8. CASE GetComment
  <2>1. PICK ea \in Commented : Sets(<<call.on, ea>>, db[<<call.on, ea>>])
    BY <1>8 DEF GetComment
  <2>2. /\ phase = "running" /\ call.tool = "get_comment" /\ call.on \in {"addr", "func"}
    BY <1>2, <1>8, Parameters DEF GetComment, Running
  <2>3. <<call.on, ea>> \in Fact /\ db[<<call.on, ea>>] \in Value
    BY <1>1, <1>3, <2>1, <2>2 DEF Database
  <2>4. QED
    BY <2>1, <2>2, <2>3, SetsOne
<1>9. CASE SetTypeAddr
  <2>1. PICK ea \in resolve_addr(call.at) : Sets(<<"type", ea>>, call.arg)
    BY <1>9 DEF SetTypeAddr
  <2>2. phase = "running" /\ call.tool = "set_type" /\ call.arg \in Value
    BY <1>2, <1>9, Parameters DEF SetTypeAddr, Running, Value
  <2>3. QED
    BY <2>1, <2>2, Resolved, Facts, SetsOne
<1>10. CASE SetTypeLocal
  BY <1>10, SetTypeLocalIInv
<1>11. CASE DefineType
  BY <1>11, DefineTypeIInv
<1>12. CASE GetType
  <2>1. /\ phase = "running" /\ call.tool = "get_type" /\ call.arg \in Named
        /\ Sets(<<"til", call.arg>>, db[<<"til", call.arg>>])
    BY <1>2, <1>12, Parameters DEF GetType, Running
  <2>2. <<"til", call.arg>> \in Fact /\ db[<<"til", call.arg>>] \in Value
    BY <1>1, <2>1, Facts DEF Database
  <2>3. QED
    BY <2>1, <2>2, SetsOne
<1>13. CASE ExecutePython
  BY <1>13, ExecutePythonIInv
<1>14. CASE UndoStep
  BY <1>14, UndoStepIInv
<1>15. CASE UndoEnds
  BY <1>1, <1>15, ClaimsNothing, HandlerDone DEF Ends, UndoEnds, Running
<1>16. QED
  BY <1>4, <1>5, <1>6, <1>7, <1>8, <1>9, <1>10, <1>11, <1>12, <1>13, <1>14, <1>15 DEF Handler

LEMMA NextIInv == IInv /\ [Next]_vars => IInv'
<1> SUFFICES ASSUME IInv, [Next]_vars PROVE IInv'
  OBVIOUS
<1>1. CASE \E c \in Call : Start(c)
  BY <1>1, StartIInv
<1>2. CASE Handler
  BY <1>2, HandlerIInv
<1>3. CASE Answer
  BY <1>3, AnswerIInv
<1>4. CASE Cancelled
  BY <1>4, CancelledIInv
<1>5. CASE Save
  BY <1>5, SaveIInv
<1>6. CASE Crash
  BY <1>6, CrashIInv
<1>7. CASE UNCHANGED vars
  <2>1. UNCHANGED <<db, saved, points, phase, call, answer, calls, log, start, known, gap>>
    BY <1>7 DEF vars, dataVars, historyVars
  <2>2. TypeOK' /\ AnswerOK' /\ Staged' /\ Aligned'
    BY <2>1 DEF IInv, TypeOK, AnswerOK, Staged, Aligned
  <2>3. Undone' /\ Remembered(log)' /\ Remembered(start)' /\ Told'
    BY <2>1 DEF IInv, Undone, Remembered, Agrees, Told, Truthful, Missed
  <2>4. QED
    BY <2>2, <2>3 DEF IInv
<1>8. QED
  BY <1>1, <1>2, <1>3, <1>4, <1>5, <1>6, <1>7 DEF Next

LEMMA Inductive == Spec => []IInv
BY InitIInv, NextIInv, PTL DEF Spec

-----------------------------------------------------------------------------
(* The theorems. *)

\* Every variable has its type: a worker's call, its answer, IDA's undo points and
\* the databases they keep.
THEOREM TypeCorrect == Spec => []TypeOK
<1>1. IInv => TypeOK
  BY DEF IInv
<1>2. QED
  BY <1>1, Inductive, PTL

\* An undo that reports n labels has taken back the last n write calls, the newest
\* first, and left the database as it was before the n-th, as long as every write
\* call got its undo point.
THEOREM UndoRestores == Spec => []UndoGoesBack
<1>1. IInv => UndoGoesBack
  BY DEF IInv, Undone, UndoGoesBack
<1>2. QED
  BY <1>1, Inductive, PTL

\* Between two calls, what the answers so far say of the database is so, of all but
\* the types of local variables.
THEOREM AnswersAreTrue == Spec => []AnswersTellTheDatabase
<1>1. IInv => AnswersTellTheDatabase
  BY DEF IInv, Told, Agrees, Sure, AnswersTellTheDatabase
<1>2. QED
  BY <1>1, Inductive, PTL
=============================================================================
