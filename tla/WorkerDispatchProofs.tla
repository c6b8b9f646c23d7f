------------------------- MODULE WorkerDispatchProofs -------------------------
(***************************************************************************)
(* Proofs about WorkerDispatch, for any sets of requests: types, what a    *)
(* command leaves behind, what kills the worker, which requests a          *)
(* cancellation hits, and that the worker implements WorkerPort.           *)
(***************************************************************************)
EXTENDS WorkerDispatch, SequenceTheorems, TLAPS

Command == Python \cup Tool \cup Unknown

\* Where the worker has a request in hand.
Busy == {"entry", "setup", "body", "script", "cleanup", "ok", "except", "caught", "finally",
         "reset", "send"}

\* The current request is that of dispatch, and goes with its answer; a worker that
\* dies dies with one.
InHand ==
  /\ pc \in Busy => cur \in Command
  /\ pc = "dead" => cur \in Request
  /\ pc \notin Busy \cup {"dead"} => cur = None /\ verdict = "none"

\* TypeOK, with what it needs.
Typed == TypeOK /\ InHand

LEMMA NoneIsNoCommand == None \notin Command /\ Command \subseteq Request
  BY NoneAssumption DEF Command, Request

LEMMA InitTyped == Init => Typed
<1> SUFFICES ASSUME Init PROVE Typed
  OBVIOUS
<1>1. inbox \in Seq(Request) /\ outbox \in Seq([of : Request, verdict : Verdict])
  BY DEF Init
<1>2. pc \in PC /\ verdict \in Verdict /\ InHand
  BY DEF Init, PC, Verdict, InHand, Busy
<1> QED
  BY <1>1, <1>2 DEF Init, Typed, TypeOK

\* Steps that only the server takes.
LEMMA ServerTyped ==
  ASSUME Typed, (\E r \in Request : SendRequest(r)) \/ ReadAnswer \/ Abandon \/ Cancel \/ HangUp
  PROVE  Typed'
<1>1. ASSUME NEW r \in Request, SendRequest(r) PROVE Typed'
  BY <1>1 DEF SendRequest, Typed, TypeOK, InHand, dispatchVars, outVars
<1>2. CASE ReadAnswer
  BY <1>2 DEF ReadAnswer, Typed, TypeOK, InHand, dispatchVars, outVars
<1>3. CASE Abandon
  BY <1>3 DEF Abandon, Typed, TypeOK, InHand, dispatchVars, outVars
<1>4. CASE Cancel
  BY <1>4 DEF Cancel, Typed, TypeOK, InHand, dispatchVars, outVars, Request
<1>5. CASE HangUp
  BY <1>5 DEF HangUp, Typed, TypeOK, InHand, dispatchVars, outVars
<1> QED
  BY <1>1, <1>2, <1>3, <1>4, <1>5

\* Steps of the message loop.
LEMMA LoopTyped == ASSUME Typed, Loop \/ EndOfFile PROVE Typed'
<1> USE DEF Typed, TypeOK, InHand, PC, Verdict, Busy, serverVars, outVars
<1>1. CASE Recv
  <2>1. Head(inbox) \in Request /\ Tail(inbox) \in Seq(Request)
    BY <1>1 DEF Recv
  <2>2. Head(inbox) \in Command
    BY <1>1, <2>1 DEF Recv, Request, Command
  <2> QED
    BY <1>1, <2>1, <2>2 DEF Recv
<1>2. CASE RecvLifecycle
  <2>1. Head(inbox) \in Request /\ Tail(inbox) \in Seq(Request)
    BY <1>2 DEF RecvLifecycle
  <2>2. [of |-> Head(inbox), verdict |-> "ok"] \in [of : Request, verdict : Verdict]
    BY <2>1
  <2>3. CASE hungup
    BY <1>2, <2>1, <2>3 DEF RecvLifecycle
  <2>4. CASE ~hungup
    <3>1. cur' = None /\ verdict' = "none" /\ outbox' = Append(outbox, [of |-> Head(inbox), verdict |-> "ok"])
      BY <1>2, <2>4 DEF RecvLifecycle
    <3>2. outbox' \in Seq([of : Request, verdict : Verdict])
      BY <2>2, <3>1
    <3> QED
      BY <1>2, <2>1, <2>4, <3>1, <3>2 DEF RecvLifecycle
  <2> QED
    BY <2>3, <2>4
<1>3. CASE EndOfFile \/ CloseDatabase
  BY <1>3 DEF EndOfFile, CloseDatabase
<1>4. CASE SendAnswer
  <2>1. cur \in Request
    BY <1>4, NoneIsNoCommand DEF SendAnswer
  <2>2. [of |-> cur, verdict |-> verdict] \in [of : Request, verdict : Verdict]
    BY <2>1
  <2> QED
    BY <1>4, <2>1, <2>2 DEF SendAnswer
<1>5. CASE SendFails
  BY <1>5, NoneIsNoCommand DEF SendFails
<1> QED
  BY <1>1, <1>2, <1>3, <1>4, <1>5 DEF Loop

\* Steps of dispatch and of the signal.
LEMMA InsideTyped == ASSUME Typed, Dispatch \/ Handler \/ HandleSignal PROVE Typed'
<1> USE NoneIsNoCommand
    DEF Typed, TypeOK, InHand, PC, Verdict, Busy, serverVars, outVars, Inside
<1>1. CASE Entry
  BY <1>1 DEF Entry
<1>2. CASE Begin
  BY <1>2 DEF Begin
<1>3. CASE Cleanup
  BY <1>3 DEF Cleanup
<1>4. CASE Respond
  BY <1>4 DEF Respond
<1>5. CASE Finally
  BY <1>5 DEF Finally
<1>6. CASE Reset
  BY <1>6 DEF Reset
<1>7. CASE BodyEnds
  BY <1>7 DEF BodyEnds
<1>8. CASE Capture
  BY <1>8 DEF Capture
<1>9. CASE ScriptEnds
  BY <1>9 DEF ScriptEnds
<1>10. CASE HandleSignal
  <2>1. CASE Raised
    BY <1>10, <2>1 DEF HandleSignal, Raised, alive
  <2>2. CASE UNCHANGED <<pc, verdict, outVars>>
    BY <1>10, <2>2 DEF HandleSignal, alive
  <2> QED
    BY <1>10, <2>1, <2>2 DEF HandleSignal
<1> QED
  BY <1>1, <1>2, <1>3, <1>4, <1>5, <1>6, <1>7, <1>8, <1>9, <1>10 DEF Dispatch, Handler

LEMMA TypedStep == Typed /\ [Next]_vars => Typed'
<1> SUFFICES ASSUME Typed, [Next]_vars PROVE Typed'
  OBVIOUS
<1>1. CASE UNCHANGED vars
  BY <1>1 DEF vars, serverVars, dispatchVars, outVars, Typed, TypeOK, InHand
<1> QED
  BY <1>1, ServerTyped, LoopTyped, InsideTyped DEF Next

\* Every variable of WorkerDispatch keeps its type, for any requests.
THEOREM TypeCorrect == Spec => []TypeOK
<1>1. Typed => TypeOK
  BY DEF Typed
<1> QED
  BY <1>1, InitTyped, TypedStep, PTL DEF Spec

-----------------------------------------------------------------------------
(* What a command leaves behind. *)

\* The hook is set from sys.setprofile to the finally clause at most.
Hooked == profiled => pc \in {"body", "script", "cleanup", "ok", "except", "caught", "finally"}

\* Buffers that stay are those of scripts answered CANCELLED.
Leftover == cancelled \cup {None}

\* What stdout is: while a script runs its own buffer, to be replaced by what was found;
\* a cancelled one may keep it until it is answered.
Redirected ==
  /\ pc \in {"script", "cleanup"} => cur \in Python /\ stdout = cur /\ old \in Leftover
  /\ pc \in {"caught", "finally", "reset", "send"} =>
       \/ stdout \in Leftover
       \/ stdout = cur /\ (pc = "caught" \/ verdict = "cancelled")
  /\ pc \in {"recv", "entry", "setup", "body", "ok", "except"} => stdout \in Leftover

Tidy == Hooked /\ Redirected

LEMMA TidyStep == Typed /\ Tidy /\ [Next]_vars => Tidy'
<1> SUFFICES ASSUME Typed, Tidy, [Next]_vars PROVE Tidy'
  OBVIOUS
<1> USE DEF Tidy, Hooked, Redirected, Leftover, serverVars, dispatchVars, outVars, Inside
<1>1. ASSUME NEW r \in Request, SendRequest(r) PROVE Tidy'
  BY <1>1 DEF SendRequest
<1>2. CASE ReadAnswer \/ Abandon \/ Cancel \/ HangUp
  BY <1>2 DEF ReadAnswer, Abandon, Cancel, HangUp
<1>3. CASE Recv \/ RecvLifecycle
  BY <1>3 DEF Recv, RecvLifecycle
<1>4. CASE EndOfFile \/ CloseDatabase \/ SendFails
  BY <1>4 DEF EndOfFile, CloseDatabase, SendFails
<1>5. CASE SendAnswer
  BY <1>5 DEF SendAnswer
<1>6. CASE Entry \/ Begin
  BY <1>6 DEF Entry, Begin
<1>7. CASE Cleanup
  BY <1>7 DEF Cleanup
<1>8. CASE Respond
  BY <1>8 DEF Respond
<1>9. CASE Finally \/ Reset
  BY <1>9 DEF Finally, Reset
<1>10. CASE Handler
  BY <1>10 DEF Handler, BodyEnds, Capture, ScriptEnds
<1>11. CASE HandleSignal
  <2>1. CASE Raised
    BY <1>11, <2>1 DEF HandleSignal, Raised
  <2>2. CASE UNCHANGED <<pc, verdict, outVars>>
    BY <1>11, <2>2 DEF HandleSignal
  <2> QED
    BY <1>11, <2>1, <2>2 DEF HandleSignal
<1>12. CASE UNCHANGED vars
  BY <1>12 DEF vars
<1> QED
  BY <1>1, <1>2, <1>3, <1>4, <1>5, <1>6, <1>7, <1>8, <1>9, <1>10, <1>11, <1>12
  DEF Next, Loop, Dispatch

\* When the worker has answered, the profile hook is gone, and stdout is its own or
\* the buffer of a script that was answered CANCELLED, however long ago.
THEOREM CommandsLeaveNothing == Spec => []CleanBetweenCommands
<1>1. Init => Tidy
  BY DEF Init, Tidy, Hooked, Redirected, Leftover
<1>2. Tidy => CleanBetweenCommands
  BY DEF Tidy, Hooked, Redirected, Leftover, CleanBetweenCommands
<1> QED
  BY <1>1, <1>2, InitTyped, TypedStep, TidyStep, PTL DEF Spec

-----------------------------------------------------------------------------
(* Which requests a cancellation hits. *)

\* As long as the server waits for every answer, it has one request under way.
OneUnderWay ==
  abandoned = {} =>
    /\ waiting = None => inbox = << >> /\ cur = None /\ outbox = << >>
    /\ cur # None => cur = waiting /\ inbox = << >> /\ outbox = << >>
    /\ inbox # << >> => inbox = <<waiting>> /\ outbox = << >>
    /\ Len(outbox) <= 1

\* Then a signal, and what it sets off, belong to the current request; the flag may
\* be an old one until dispatch resets it.  What dispatch does not catch came from the
\* signal, or out of a script.
Aimed ==
  abandoned = {} =>
    /\ cur # None /\ (pend \/ verdict = "cancelled" \/ pc = "caught" \/ (flag /\ pc \notin {"entry", "dead"}))
         => cur \in aimed
    /\ pc = "script" => cur \in Python
    /\ verdict = "escapes" => cur \in Python \cup aimed
    /\ \A i \in 1..Len(outbox) : outbox[i].verdict = "cancelled" => outbox[i].of \in aimed

LEMMA UnderWayStep == Typed /\ OneUnderWay /\ [Next]_vars => OneUnderWay'
<1> SUFFICES ASSUME Typed, OneUnderWay, [Next]_vars, abandoned' = {} PROVE OneUnderWay'
  BY DEF OneUnderWay
<1> USE NoneAssumption, NoneIsNoCommand DEF OneUnderWay, serverVars, dispatchVars, outVars, Inside
<1>t. /\ inbox \in Seq(Request) /\ outbox \in Seq([of : Request, verdict : Verdict])
      /\ pc \notin Busy \cup {"dead"} => cur = None
  BY DEF Typed, TypeOK, InHand
<1>1. ASSUME NEW r \in Request, SendRequest(r) PROVE OneUnderWay'
  BY <1>1, <1>t DEF SendRequest
<1>2. CASE ReadAnswer
  <2>1. Len(Tail(outbox)) = Len(outbox) - 1 /\ (Len(outbox) = 1 => Tail(outbox) = << >>)
    BY <1>2, <1>t DEF ReadAnswer
  <2> QED
    BY <1>2, <1>t, <2>1 DEF ReadAnswer
<1>3. CASE Abandon
  BY <1>3 DEF Abandon
<1>4. CASE Cancel \/ HangUp
  BY <1>4 DEF Cancel, HangUp
<1>5. CASE Recv
  <2>1. abandoned = {} /\ inbox = <<waiting>> /\ outbox = << >>
    BY <1>5 DEF Recv
  <2>2. Head(inbox) = waiting /\ Tail(inbox) = << >> /\ waiting # None
    BY <1>5, <1>t, <2>1 DEF Recv
  <2> QED
    BY <1>5, <2>1, <2>2 DEF Recv
<1>6. CASE RecvLifecycle
  <2>1. abandoned = {} /\ inbox = <<waiting>> /\ outbox = << >>
    BY <1>6 DEF RecvLifecycle
  <2>2. Head(inbox) = waiting /\ Tail(inbox) = << >> /\ waiting # None /\ cur = None
    BY <1>6, <1>t, <2>1 DEF RecvLifecycle, Busy
  <2>3. CASE hungup
    BY <1>6, <2>1, <2>2, <2>3 DEF RecvLifecycle
  <2>4. CASE ~hungup
    <3>1. Len(outbox') = 1
      BY <1>6, <2>1, <2>4 DEF RecvLifecycle
    <3> QED
      BY <1>6, <2>1, <2>2, <2>4, <3>1 DEF RecvLifecycle
  <2> QED
    BY <2>3, <2>4
<1>7. CASE SendAnswer
  <2>1. cur # None /\ abandoned = {}
    BY <1>7 DEF SendAnswer, Typed, InHand, Busy
  <2>2. inbox = << >> /\ Len(outbox') = 1 /\ waiting # None
    BY <1>7, <2>1 DEF SendAnswer
  <2> QED
    BY <1>7, <2>1, <2>2 DEF SendAnswer
<1>8. CASE EndOfFile \/ CloseDatabase \/ SendFails \/ Dispatch \/ Handler \/ HandleSignal
  <2>1. UNCHANGED <<waiting, abandoned, inbox, cur, outbox>>
    BY <1>8 DEF EndOfFile, CloseDatabase, SendFails, Dispatch, Entry, Begin, Cleanup, Respond,
                Finally, Reset, Handler, BodyEnds, Capture, ScriptEnds, HandleSignal
  <2> QED
    BY <2>1
<1>9. CASE UNCHANGED vars
  BY <1>9 DEF vars
<1> QED
  BY <1>1, <1>2, <1>3, <1>4, <1>5, <1>6, <1>7, <1>8, <1>9 DEF Next, Loop

LEMMA AimedStep == Typed /\ OneUnderWay /\ Aimed /\ [Next]_vars => Aimed'
<1> SUFFICES ASSUME Typed, OneUnderWay, Aimed, [Next]_vars, abandoned' = {} PROVE Aimed'
  BY DEF Aimed
<1> USE NoneAssumption, NoneIsNoCommand
    DEF Aimed, Busy, serverVars, dispatchVars, outVars, Inside
<1>t. /\ outbox \in Seq([of : Request, verdict : Verdict])
      /\ pc \notin Busy \cup {"dead"} => cur = None /\ verdict = "none"
  BY DEF Typed, TypeOK, InHand
<1>1. ASSUME NEW r \in Request, SendRequest(r) PROVE Aimed'
  BY <1>1 DEF SendRequest
<1>2. CASE ReadAnswer
  <2>1. \A i \in 1..Len(Tail(outbox)) : i + 1 \in 1..Len(outbox) /\ Tail(outbox)[i] = outbox[i + 1]
    BY <1>2, <1>t DEF ReadAnswer
  <2> QED
    BY <1>2, <2>1 DEF ReadAnswer
<1>3. CASE Abandon
  BY <1>3 DEF Abandon
<1>4. CASE Cancel \/ HangUp
  BY <1>4 DEF Cancel, HangUp, OneUnderWay
<1>5. CASE Recv
  BY <1>5, <1>t DEF Recv
<1>6. CASE RecvLifecycle \/ SendAnswer
  <2>1. ASSUME NEW a, a.verdict = "cancelled" => a.of \in aimed, outbox' = Append(outbox, a)
        PROVE  \A i \in 1..Len(outbox') : outbox'[i].verdict = "cancelled" => outbox'[i].of \in aimed
    <3>1. Len(outbox') = Len(outbox) + 1 /\ outbox'[Len(outbox) + 1] = a
          /\ \A i \in 1..Len(outbox) : outbox'[i] = outbox[i]
      BY <1>t, <2>1
    <3>2. abandoned = {}
      BY <1>6 DEF RecvLifecycle, SendAnswer
    <3> QED
      BY <1>t, <2>1, <3>1, <3>2
  <2>2. CASE RecvLifecycle
    <3>1. CASE hungup
      <4>1. cur = None /\ verdict = "none" /\ pc = "recv" /\ ~pend
        BY <1>t, <2>2 DEF RecvLifecycle
      <4>2. abandoned = {} /\ cur' = Head(inbox) /\ pc' = "dead" /\ verdict' = "none"
            /\ UNCHANGED <<outbox, aimed, flag, pend>>
        BY <2>2, <3>1, <4>1 DEF RecvLifecycle
      <4> QED
        BY <4>1, <4>2
    <3>2. CASE ~hungup
      BY <1>t, <2>1, <2>2, <3>2 DEF RecvLifecycle
    <3> QED
      BY <3>1, <3>2
  <2>3. CASE SendAnswer
    <3>1. cur \in Command
      BY <2>3 DEF SendAnswer, Typed, InHand
    <3> QED
      BY <2>1, <2>3, <3>1 DEF SendAnswer
  <2> QED
    BY <1>6, <2>2, <2>3
<1>7. CASE EndOfFile \/ CloseDatabase \/ SendFails
  BY <1>7, <1>t DEF EndOfFile, CloseDatabase, SendFails
<1>8. CASE Entry \/ Begin
  BY <1>8 DEF Entry, Begin
<1>9. CASE Cleanup \/ Respond
  BY <1>9 DEF Cleanup, Respond
<1>10. CASE Finally \/ Reset
  BY <1>10 DEF Finally, Reset
<1>11. CASE Handler
  BY <1>11 DEF Handler, BodyEnds, Capture, ScriptEnds
<1>12. CASE HandleSignal
  <2>1. CASE Raised
    <3>1. abandoned = {} /\ pend /\ pc \in Busy
      BY <1>12, <2>1 DEF HandleSignal, Raised
    <3>2. cur \in aimed
      BY <3>1 DEF Typed, InHand
    <3> QED
      BY <1>12, <2>1, <3>1, <3>2 DEF HandleSignal, Raised
  <2>2. CASE UNCHANGED <<pc, verdict, outVars>>
    BY <1>12, <2>2 DEF HandleSignal
  <2> QED
    BY <1>12, <2>1, <2>2 DEF HandleSignal
<1>13. CASE UNCHANGED vars
  BY <1>13 DEF vars
<1> QED
  BY <1>1, <1>2, <1>3, <1>4, <1>5, <1>6, <1>7, <1>8, <1>9, <1>10, <1>11, <1>12,
     <1>13
  DEF Next, Loop, Dispatch

LEMMA AimedInvariance == Spec => []Aimed
<1>1. Init => OneUnderWay /\ Aimed
  BY DEF Init, OneUnderWay, Aimed
<1> QED
  BY <1>1, InitTyped, TypedStep, UnderWayStep, AimedStep, PTL DEF Spec

\* A late signal never hits the next request: dispatch resets the flag on entry, and
\* a signal that is pending is handled before a request is read.
THEOREM CancelledWereWanted == Spec => []OnlyWantedCancelled
<1>1. Aimed => OnlyWantedCancelled
  BY DEF Aimed, OnlyWantedCancelled
<1> QED
  BY <1>1, AimedInvariance, PTL

\* Only some things end the process with its database open.
Deadly == pc = "dead" => hungup \/ HandlersOwn \/ verdict = "escapes"

LEMMA DeadlyStep == Deadly /\ [Next]_vars => Deadly'
<1> SUFFICES ASSUME Deadly, [Next]_vars PROVE Deadly'
  OBVIOUS
<1> USE DEF Deadly, HandlersOwn, serverVars, dispatchVars, outVars, Inside, alive
<1>1. ASSUME NEW r \in Request, SendRequest(r) PROVE Deadly'
  BY <1>1 DEF SendRequest
<1>2. CASE ReadAnswer \/ Abandon \/ Cancel \/ HangUp
  BY <1>2 DEF ReadAnswer, Abandon, Cancel, HangUp
<1>3. CASE Loop \/ EndOfFile
  BY <1>3 DEF Loop, Recv, RecvLifecycle, EndOfFile, CloseDatabase, SendAnswer, SendFails
<1>4. CASE Dispatch
  BY <1>4 DEF Dispatch, Entry, Begin, Cleanup, Respond, Finally, Reset
<1>5. CASE Handler
  BY <1>5 DEF Handler, BodyEnds, Capture, ScriptEnds
<1>6. CASE HandleSignal
  BY <1>6 DEF HandleSignal, Raised
<1>7. CASE UNCHANGED vars
  BY <1>7 DEF vars
<1> QED
  BY <1>1, <1>2, <1>3, <1>4, <1>5, <1>6, <1>7 DEF Next

\* The worker leaves its database open only when the server is gone, on an answer that
\* cannot be encoded, on sys.exit() in a script, or on the signal for this very request.
THEOREM DeathHasACause == Spec => []DeathsHaveACause
<1>1. Init => Deadly
  BY DEF Init, Deadly
<1>2. Aimed /\ Deadly => DeathsHaveACause
  BY DEF Aimed, Deadly, DeathsHaveACause
<1> QED
  BY <1>1, <1>2, AimedInvariance, DeadlyStep, PTL DEF Spec

-----------------------------------------------------------------------------
(* The refinement: the worker is WorkerPort. *)

Reply == [of : Request, verdict : Verdict]

\* What WorkerPort sees of the answers, and of the requests.
Of(replies) == [i \in 1..Len(replies) |-> replies[i].of]
Pending     == IF cur = None THEN inbox ELSE <<cur>> \o inbox

LEMMA OfIsSeq == ASSUME NEW s \in Seq(Reply) PROVE Of(s) \in Seq(Request) /\ Len(Of(s)) = Len(s)
<1>1. ASSUME NEW i \in 1..Len(s) PROVE s[i].of \in Request
  <2>1. s[i] \in Reply
    BY ElementOfSeq
  <2> QED
    BY <2>1 DEF Reply
<1>2. Len(s) \in Nat
  BY LenProperties
<1>3. Of(s) \in [1..Len(s) -> Request] /\ DOMAIN Of(s) = 1..Len(s)
  BY <1>1 DEF Of
<1>4. Of(s) \in Seq(Request)
  BY <1>2, <1>3, SeqDef
<1>5. Len(Of(s)) \in Nat /\ 1..Len(Of(s)) = 1..Len(s)
  BY <1>3, <1>4, LenProperties
<1> QED
  BY <1>2, <1>4, <1>5

\* Answering, and taking an answer, seen through Of.
LEMMA OfAppend ==
  ASSUME NEW s \in Seq(Reply), NEW a \in Reply PROVE Of(Append(s, a)) = Append(Of(s), a.of)
<1>1. /\ Append(s, a) \in Seq(Reply) /\ Len(Append(s, a)) = Len(s) + 1
      /\ \A i \in 1..Len(s) : Append(s, a)[i] = s[i]
      /\ Append(s, a)[Len(s) + 1] = a /\ Len(s) \in Nat
  BY AppendProperties, LenProperties
<1>2. a.of \in Request
  BY DEF Reply
<1>3. Of(s) \in Seq(Request) /\ Len(Of(s)) = Len(s)
  BY OfIsSeq
<1>4. Of(Append(s, a)) \in Seq(Request) /\ Len(Of(Append(s, a))) = Len(s) + 1
  BY <1>1, OfIsSeq
<1>5. /\ Append(Of(s), a.of) \in Seq(Request) /\ Len(Append(Of(s), a.of)) = Len(s) + 1
      /\ \A i \in 1..Len(s) : Append(Of(s), a.of)[i] = Of(s)[i]
      /\ Append(Of(s), a.of)[Len(s) + 1] = a.of
  BY <1>2, <1>3, AppendProperties
<1>6. ASSUME NEW i \in 1..(Len(s) + 1) PROVE Of(Append(s, a))[i] = Append(Of(s), a.of)[i]
  <2>1. Of(Append(s, a))[i] = Append(s, a)[i].of
    BY <1>1 DEF Of
  <2>2. CASE i = Len(s) + 1
    BY <1>1, <1>5, <2>1, <2>2
  <2>3. CASE i \in 1..Len(s)
    <3>1. Of(s)[i] = s[i].of
      BY <2>3 DEF Of
    <3> QED
      BY <1>1, <1>5, <2>1, <2>3, <3>1
  <2>4. Len(s) \in Nat
    BY <1>1
  <2>5. i = Len(s) + 1 \/ i \in 1..Len(s)
    BY <2>4
  <2> QED
    BY <2>2, <2>3, <2>5
<1> QED
  BY <1>4, <1>5, <1>6, SeqEqual

LEMMA OfTail == ASSUME NEW s \in Seq(Reply), s # << >> PROVE Of(Tail(s)) = Tail(Of(s))
<1>1. /\ Tail(s) \in Seq(Reply) /\ Len(s) \in Nat \ {0} /\ Len(Tail(s)) = Len(s) - 1
      /\ \A i \in 1..Len(Tail(s)) : Tail(s)[i] = s[i + 1]
  BY HeadTailProperties, EmptySeq
<1>2. Of(s) \in Seq(Request) /\ Len(Of(s)) = Len(s) /\ Of(s) # << >>
  BY <1>1, OfIsSeq, EmptySeq
<1>3. /\ Tail(Of(s)) \in Seq(Request) /\ Len(Tail(Of(s))) = Len(s) - 1
      /\ \A i \in 1..Len(Tail(Of(s))) : Tail(Of(s))[i] = Of(s)[i + 1]
  BY <1>2, HeadTailProperties
<1>4. Of(Tail(s)) \in Seq(Request) /\ Len(Of(Tail(s))) = Len(s) - 1
  BY <1>1, OfIsSeq
<1>5. \A i \in 1..(Len(s) - 1) : Of(Tail(s))[i] = Tail(Of(s))[i]
  BY <1>1, <1>3 DEF Of
<1> QED
  BY <1>3, <1>4, <1>5, SeqEqual

\* A request in front of the others.
LEMMA InFront ==
  ASSUME NEW r \in Request, NEW s \in Seq(Request)
  PROVE  /\ <<r>> \o s # << >> /\ Head(<<r>> \o s) = r /\ Tail(<<r>> \o s) = s
         /\ \A q \in Request : <<r>> \o Append(s, q) = Append(<<r>> \o s, q)
         /\ s # << >> /\ r = Head(s) => <<r>> \o Tail(s) = s
<1>1. /\ <<r>> \o s \in Seq(Request) /\ Len(<<r>> \o s) = Len(s) + 1
      /\ \A i \in 1..(Len(s) + 1) : (<<r>> \o s)[i] = IF i <= 1 THEN r ELSE s[i - 1]
  OBVIOUS
<1>2. <<r>> \o s # << >> /\ Head(<<r>> \o s) = r
  BY <1>1
<1>3. Tail(<<r>> \o s) = s
  BY <1>1, <1>2, HeadTailProperties, SeqEqual
<1>4. ASSUME NEW q \in Request PROVE <<r>> \o Append(s, q) = Append(<<r>> \o s, q)
  OBVIOUS
<1>5. s # << >> /\ r = Head(s) => <<r>> \o Tail(s) = s
  OBVIOUS
<1> QED
  BY <1>2, <1>3, <1>4, <1>5

\* The steps of WorkerPort, and the stutter, as the worker takes them.
LEMMA AskStep ==
  ASSUME Typed, NEW r \in Request, alive, alive', cur' = cur, inbox' = Append(inbox, r),
         outbox' = outbox
  PROVE  Port!Ask
<1>1. Pending' = Append(Pending, r)
  <2>1. inbox \in Seq(Request) /\ (cur # None => cur \in Request)
    BY DEF Typed, TypeOK
  <2>2. cur # None => <<cur>> \o Append(inbox, r) = Append(<<cur>> \o inbox, r)
    BY <2>1, InFront
  <2> QED
    BY <2>2 DEF Pending
<1> QED
  BY <1>1 DEF Port!Ask, Pending, alive

LEMMA ServeStep ==
  ASSUME Typed, alive, alive', NEW a \in Reply, outbox' = Append(outbox, a), Pending # << >>,
         a.of = Head(Pending), Pending' = Tail(Pending)
  PROVE  Port!Serve
<1>1. Of(outbox') = Append(Of(outbox), a.of)
  BY OfAppend DEF Typed, TypeOK, Reply
<1> QED
  BY <1>1 DEF Port!Serve, Of, Pending, alive

LEMMA Stutters ==
  ASSUME Pending' = Pending, outbox' = outbox, alive' = alive PROVE UNCHANGED Port!vars
  BY DEF Port!vars, Pending, alive

LEMMA StopStep ==
  ASSUME alive, ~alive', Pending' = Pending, outbox' = outbox PROVE Port!Stop
  BY DEF Port!Stop, Pending, alive

LEMMA PortStep == Typed /\ [Next]_vars => [Port!Next]_Port!vars
<1> SUFFICES ASSUME Typed, [Next]_vars PROVE Port!Next \/ UNCHANGED Port!vars
  OBVIOUS
<1>t. /\ inbox \in Seq(Request) /\ outbox \in Seq(Reply) /\ verdict \in Verdict
      /\ pc \in Busy => cur \in Request
      /\ pc \notin Busy \cup {"dead"} => cur = None
  BY NoneIsNoCommand DEF Typed, TypeOK, InHand, Reply
<1>1. ASSUME NEW r \in Request, SendRequest(r) PROVE Port!Next
  <2>1. alive /\ alive' /\ cur' = cur /\ inbox' = Append(inbox, r) /\ outbox' = outbox
    BY <1>1 DEF SendRequest, dispatchVars, outVars, alive
  <2> QED
    BY <2>1, AskStep DEF Port!Next
<1>2. CASE ReadAnswer
  <2>1. /\ outbox # << >> /\ outbox' = Tail(outbox)
        /\ UNCHANGED <<inbox, cur, pc>>
    BY <1>2 DEF ReadAnswer, dispatchVars, outVars
  <2>2. Of(outbox') = Tail(Of(outbox)) /\ Of(outbox) # << >>
    BY <1>t, <2>1, OfTail, OfIsSeq, EmptySeq
  <2>3. Port!Take
    BY <2>1, <2>2 DEF Port!Take, Of, Pending, alive
  <2> QED
    BY <2>3 DEF Port!Next
<1>3. CASE Abandon \/ Cancel \/ HangUp
  <2>1. UNCHANGED <<inbox, cur, outbox, pc>>
    BY <1>3 DEF Abandon, Cancel, HangUp, dispatchVars, outVars
  <2> QED
    BY <2>1, Stutters DEF Pending, alive
<1>4. CASE Recv
  <2>1. /\ cur = None /\ inbox # << >> /\ inbox' = Tail(inbox) /\ cur' = Head(inbox)
        /\ outbox' = outbox /\ alive /\ alive'
    BY <1>4, <1>t DEF Recv, Busy, alive
  <2>2. cur' \in Request /\ cur' # None
    BY <1>t, <2>1, HeadTailProperties, NoneAssumption
  <2>3. Pending' = Pending
    BY <1>t, <2>1, <2>2, InFront DEF Pending
  <2> QED
    BY <2>1, <2>3, Stutters
<1>5. CASE RecvLifecycle
  <2> DEFINE a == [of |-> Head(inbox), verdict |-> "ok"]
  <2>1. /\ cur = None /\ inbox # << >> /\ inbox' = Tail(inbox) /\ alive
        /\ Head(inbox) \in Request /\ Pending = inbox
    BY <1>5, <1>t, HeadTailProperties DEF RecvLifecycle, Busy, alive, Pending
  <2>2. CASE hungup
    <3>1. cur' = Head(inbox) /\ cur' # None /\ outbox' = outbox /\ ~alive'
      BY <1>5, <2>1, <2>2, NoneAssumption DEF RecvLifecycle, alive
    <3>2. Pending' = Pending
      BY <1>t, <2>1, <3>1, InFront DEF Pending
    <3> QED
      BY <2>1, <3>1, <3>2, StopStep DEF Port!Next
  <2>3. CASE ~hungup
    <3>1. cur' = None /\ outbox' = Append(outbox, a) /\ alive'
      BY <1>5, <2>1, <2>3 DEF RecvLifecycle, alive
    <3>2. a \in Reply /\ a.of = Head(inbox)
      BY <2>1 DEF Reply, Verdict
    <3>3. Pending' = Tail(inbox)
      BY <2>1, <3>1 DEF Pending
    <3> QED
      BY <2>1, <3>1, <3>2, <3>3, ServeStep DEF Port!Next
  <2> QED
    BY <2>2, <2>3
<1>6. CASE SendAnswer
  <2> DEFINE a == [of |-> cur, verdict |-> verdict]
  <2>1. /\ cur \in Request /\ cur # None /\ cur' = None /\ inbox' = inbox
        /\ outbox' = Append(outbox, a) /\ alive /\ alive'
    BY <1>6, <1>t, NoneAssumption DEF SendAnswer, Busy, alive
  <2>2. a \in Reply /\ a.of = cur
    BY <1>t, <2>1 DEF Reply
  <2>3. Pending # << >> /\ Head(Pending) = cur /\ Pending' = Tail(Pending)
    BY <1>t, <2>1, InFront DEF Pending
  <2> QED
    BY <2>1, <2>2, <2>3, ServeStep DEF Port!Next
<1>7. CASE EndOfFile \/ CloseDatabase \/ SendFails \/ Dispatch \/ Handler \/ HandleSignal
  <2>1. UNCHANGED <<inbox, cur, outbox>> /\ alive
    BY <1>7 DEF EndOfFile, CloseDatabase, SendFails, Dispatch, Entry, Begin, Cleanup, Respond,
                Finally, Reset, Handler, BodyEnds, Capture, ScriptEnds, HandleSignal, Inside,
                serverVars, alive
  <2>2. CASE alive'
    BY <2>1, <2>2, Stutters DEF Pending, alive
  <2>3. CASE ~alive'
    BY <2>1, <2>3, StopStep DEF Port!Next, Pending
  <2> QED
    BY <2>2, <2>3
<1>8. CASE UNCHANGED vars
  BY <1>8, Stutters DEF vars, dispatchVars, outVars, Pending, alive
<1> QED
  BY <1>1, <1>2, <1>3, <1>4, <1>5, <1>6, <1>7, <1>8 DEF Next, Loop

\* Whatever strikes it, the worker is a queue that gives one answer to each request, in
\* order, until it stops: what ProjectExec takes for granted.
THEOREM ImplementsPort == Spec => PortSpec
<1>1. Init => Port!Init
  BY DEF Init, Port!Init, alive
<1> QED
  BY <1>1, InitTyped, TypedStep, PortStep, PTL DEF Spec, PortSpec, Port!Spec
=============================================================================
