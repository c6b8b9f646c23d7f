------------------------------- MODULE Activity -------------------------------
(***************************************************************************)
(* The stream of tool calls that the Web UI shows, and the overview bar's  *)
(* cache that listens to it: web/activity.py, web/api/overview.py and the  *)
(* browser's web-ui/src/stores/activityStore.ts.                           *)
(*                                                                         *)
(* ActivityMiddleware sits around the MCP application and sees every POST: *)
(* its start, its body when the application reads it, the chunks of its    *)
(* answer.  An event is the n-th tool call recorded.                       *)
(***************************************************************************)
EXTENDS Naturals, Sequences

CONSTANTS
  Call,          \* POST requests to the MCP application
  RpcId,         \* JSON-RPC ids, chosen by each MCP client on its own
  ToolCalls,     \* [Call -> Seq(RpcId)]: the tools/call messages in its body
  Writes,        \* the calls of tools that change the database
  Socket,        \* browsers' WebSockets
  MaxEvents,     \* ActivityStore._events.maxlen
  HistoryLimit,  \* events sent to a new socket
  KeepLast,      \* events a browser keeps
  None

ASSUME CallAssumption ==
  /\ None \notin Call \cup RpcId /\ Writes \subseteq Call
  /\ ToolCalls \in [Call -> Seq(RpcId)]
ASSUME LimitAssumption ==
  MaxEvents \in Nat \ {0} /\ HistoryLimit \in 1..MaxEvents /\ KeepLast \in Nat \ {0}

VARIABLES
  stage,     \* [Call]: none, started, received, answering, done, dropped
  capture,   \* ActivityMiddleware._current_capture: the call it belongs to
  rpc,       \* [Call]: its local rpc_id, None until captured
  log,       \* all events: [of, id, status, kind]
  pending,   \* ActivityStore._pending, [RpcId]: an event's number, or 0
  subs,      \* ActivityStore._connections
  history,   \* [Socket]: events of its history still to be sent
  live,      \* [Socket]: broadcasts on their way to it
  shown,     \* [Socket]: sequence of event -> status, as the browser shows it
  since,     \* history, [Socket]: number of events when it subscribed
  mixed,     \* history: the captures, or the ids, of two calls got mixed up
  overtaken, \* history, [Socket]: events of its history that a broadcast came before
  version,   \* the database: number of writes
  cache,     \* overview's cache: [version, at], or None
  scanning   \* an overview_scan is running, for a request or in the background

callVars == <<stage, capture, rpc, log, pending, mixed>>
sockVars == <<subs, history, live, shown, since, overtaken>>
overVars == <<version, cache, scanning>>
vars == <<callVars, sockVars, overVars>>

Status == {"pending", "completed", "failed"}
Kind   == {"read", "write", "unsafe"}
Event  == [of : Call, id : RpcId, status : Status, kind : Kind]
Notice == [event : Nat, status : Status]

Init ==
  /\ stage = [c \in Call |-> "none"] /\ capture = None /\ rpc = [c \in Call |-> None]
  /\ log = << >> /\ pending = [i \in RpcId |-> 0] /\ mixed = FALSE
  /\ subs = {} /\ history = [w \in Socket |-> << >>] /\ live = [w \in Socket |-> << >>]
  /\ shown = [w \in Socket |-> << >>] /\ since = [w \in Socket |-> 0]
  /\ overtaken = [w \in Socket |-> {}]
  /\ version = 0 /\ cache = None /\ scanning = FALSE

\* The ring buffer: the newest MaxEvents events.
Ring == {n \in 1..Len(log) : n > Len(log) - MaxEvents}

-----------------------------------------------------------------------------
(* ActivityMiddleware and ActivityStore. *)

\* A POST enters __call__, which leaves its capture function in the middleware.
Start(c) ==
  /\ stage[c] = "none"
  /\ stage'   = [stage EXCEPT ![c] = "started"]
  /\ capture' = c
  /\ UNCHANGED <<rpc, log, pending, mixed, sockVars, overVars>>

\* _broadcast: the event as it is now, to every connection.
Broadcast(notices) ==
  live' = [w \in Socket |-> IF w \in subs THEN live[w] \o notices ELSE live[w]]

\* The kind of every event: nobody passes one to ActivityEvent.
EventKind == "read"

\* Faulty variant: the capture is left out, so no answer has an id.
Receive_NoCapture(c) ==
  LET ids == ToolCalls[c]  first == Len(log) IN
  /\ stage[c] = "started"
  /\ stage'   = [stage EXCEPT ![c] = "received"]
  /\ log'     = log \o [i \in 1..Len(ids) |->
                  [of |-> c, id |-> ids[i], status |-> "pending", kind |-> EventKind]]
  /\ pending' = [i \in RpcId |-> IF \E j \in 1..Len(ids) : ids[j] = i
                                 THEN first + (CHOOSE j \in 1..Len(ids) : ids[j] = i)
                                 ELSE pending[i]]
  /\ mixed'   = (mixed \/ \E j \in 1..Len(ids) : capture # c \/ pending[ids[j]] # 0)
  /\ Broadcast([i \in 1..Len(ids) |-> [event |-> first + i, status |-> "pending"]])
  /\ UNCHANGED <<capture, rpc, subs, history, shown, since, overtaken, overVars>>

\* The application has read the body: _on_request records each tool call, and
\* gives its id to the capture that is in the middleware by now.
Receive(c) ==
  LET ids == ToolCalls[c]  first == Len(log) IN
  /\ stage[c] = "started"
  /\ stage'   = [stage EXCEPT ![c] = "received"]
  /\ log'     = log \o [i \in 1..Len(ids) |->
                  [of |-> c, id |-> ids[i], status |-> "pending", kind |-> EventKind]]
  /\ pending' = [i \in RpcId |-> IF \E j \in 1..Len(ids) : ids[j] = i
                                 THEN first + (CHOOSE j \in 1..Len(ids) : ids[j] = i)
                                 ELSE pending[i]]
  /\ rpc'     = IF ids = << >> THEN rpc ELSE [rpc EXCEPT ![capture] = ids[Len(ids)]]
  /\ mixed'   = (mixed \/ \E j \in 1..Len(ids) : capture # c \/ pending[ids[j]] # 0)
  /\ Broadcast([i \in 1..Len(ids) |-> [event |-> first + i, status |-> "pending"]])
  /\ UNCHANGED <<capture, subs, history, shown, since, overtaken, overVars>>

\* record_complete: nothing for an id that is not pending.
record_complete(c, status) ==
  LET n == IF rpc[c] = None THEN 0 ELSE pending[rpc[c]] IN
  IF n = 0 THEN UNCHANGED <<log, pending, live>>
  ELSE /\ log'     = [log EXCEPT ![n].status = status]
       /\ pending' = [pending EXCEPT ![rpc[c]] = 0]
       /\ Broadcast(<<[event |-> n, status |-> status]>>)

\* The tool has run, and the answer starts.
FirstChunk(c) ==
  /\ stage[c] = "received"
  /\ stage'   = [stage EXCEPT ![c] = "answering"]
  /\ version' = IF c \in Writes THEN version + 1 ELSE version
  /\ UNCHANGED <<capture, rpc, log, pending, mixed, sockVars, cache, scanning>>

\* The last chunk of the answer.
LastChunk(c) ==
  /\ stage[c] = "answering"
  /\ stage' = [stage EXCEPT ![c] = "done"]
  /\ \E status \in {"completed", "failed"} : record_complete(c, status)
  /\ UNCHANGED <<capture, rpc, mixed, subs, history, shown, since, overtaken, overVars>>

\* The client hangs up before the answer is over.
Drop(c) ==
  /\ stage[c] \in {"started", "received", "answering"}
  /\ stage' = [stage EXCEPT ![c] = "dropped"]
  /\ UNCHANGED <<capture, rpc, log, pending, mixed, sockVars, overVars>>

-----------------------------------------------------------------------------
(* The WebSocket and the browser. *)

\* get_history: the newest events of the ring, as they are now.
GetHistory ==
  LET k == IF Len(log) < HistoryLimit THEN Len(log) ELSE HistoryLimit IN
  [i \in 1..k |-> [event |-> Len(log) - k + i, status |-> log[Len(log) - k + i].status]]

\* Faulty variant: the socket subscribes when its history has been sent.
Connect_Late(w) ==
  /\ w \notin subs /\ history[w] = << >>
  /\ \/ since[w] = 0 /\ history' = [history EXCEPT ![w] = GetHistory] /\ subs' = subs
     \/ subs' = subs \cup {w} /\ UNCHANGED history
  /\ since' = [since EXCEPT ![w] = Len(log)]
  /\ UNCHANGED <<callVars, live, shown, overtaken, overVars>>

\* activity_ws: the socket subscribes, then its history is read and sent.
Connect(w) ==
  /\ w \notin subs
  /\ subs'    = subs \cup {w}
  /\ history' = [history EXCEPT ![w] = GetHistory]
  /\ since'   = [since EXCEPT ![w] = Len(log)]
  /\ UNCHANGED <<callVars, live, shown, overtaken, overVars>>

\* addEvent: an event the browser has is replaced; another one is appended, and the
\* first ones make room.
addEvent(w, n) ==
  LET old  == shown[w]
      rest == IF Len(old) < KeepLast THEN old ELSE Tail(old) IN
  shown' = [shown EXCEPT ![w] =
    IF \E i \in 1..Len(old) : old[i].event = n.event
    THEN [i \in 1..Len(old) |-> IF old[i].event = n.event THEN n ELSE old[i]]
    ELSE Append(rest, n)]

\* Each event of the history is awaited ...
SendHistory(w) ==
  /\ history[w] # << >>
  /\ addEvent(w, Head(history[w]))
  /\ history' = [history EXCEPT ![w] = Tail(@)]
  /\ UNCHANGED <<callVars, subs, live, since, overtaken, overVars>>

\* ... while broadcasts are tasks of their own.
SendLive(w) ==
  /\ live[w] # << >>
  /\ addEvent(w, Head(live[w]))
  /\ live' = [live EXCEPT ![w] = Tail(@)]
  /\ overtaken' = [overtaken EXCEPT ![w] = @ \cup
       {e \in {Head(live[w]).event} : \E i \in 1..Len(history[w]) : history[w][i].event = e}]
  /\ UNCHANGED <<callVars, subs, history, since, overVars>>

-----------------------------------------------------------------------------
(* The overview bar. *)

\* _has_writes_since
HasWritesSince(n) ==
  \E e \in Ring : e > n /\ log[e].kind \in {"write", "unsafe"} /\ log[e].status = "completed"

\* GET overview: the first one scans; later ones are served from the cache, and
\* start a rescan in the background if there were writes (and the cooldown is over).
Overview ==
  /\ ~scanning
  /\ scanning' = (cache = None \/ HasWritesSince(cache.at))
  /\ UNCHANGED <<callVars, sockVars, version, cache>>

\* The scan's result becomes the cache.
ScanEnds ==
  /\ scanning
  /\ scanning' = FALSE
  /\ cache' = [version |-> version, at |-> Len(log)]
  /\ UNCHANGED <<callVars, sockVars, version>>

\* overview_scan fails or takes longer than 120 s: nothing is cached.
ScanFails ==
  /\ scanning
  /\ scanning' = FALSE
  /\ UNCHANGED <<callVars, sockVars, version, cache>>

-----------------------------------------------------------------------------
Next ==
  \/ \E c \in Call : Start(c) \/ Receive(c) \/ FirstChunk(c) \/ LastChunk(c) \/ Drop(c)
  \/ \E w \in Socket : Connect(w) \/ SendHistory(w) \/ SendLive(w)
  \/ Overview \/ ScanEnds \/ ScanFails

Spec == Init /\ [][Next]_vars

\* Calls go on, the browser asks for the overview again and again, and scans end.
FairSpec ==
  /\ Spec
  /\ \A c \in Call : WF_vars(Receive(c)) /\ WF_vars(FirstChunk(c)) /\ WF_vars(LastChunk(c))
  /\ WF_vars(Overview) /\ SF_vars(ScanEnds)

-----------------------------------------------------------------------------
(* Properties. *)

\* Every variable has its type.
TypeOK ==
  /\ stage \in [Call -> {"none", "started", "received", "answering", "done", "dropped"}]
  /\ capture \in Call \cup {None} /\ rpc \in [Call -> RpcId \cup {None}]
  /\ log \in Seq(Event) /\ pending \in [RpcId -> 0..Len(log)] /\ mixed \in BOOLEAN
  /\ subs \in SUBSET Socket
  /\ history \in [Socket -> Seq(Notice)] /\ live \in [Socket -> Seq(Notice)]
  /\ shown \in [Socket -> Seq(Notice)] /\ since \in [Socket -> Nat]
  /\ overtaken \in [Socket -> SUBSET Nat]
  /\ version \in Nat /\ cache \in [version : Nat, at : Nat] \cup {None}
  /\ scanning \in BOOLEAN

\* The event of a call ends when the call does, not before and not with another
\* one's answer, as long as no two calls get mixed up: another POST entering the
\* middleware before the body is read, or the same JSON-RPC id in two MCP sessions.
\* (Of a batch, only the last event ends.)
EventEndsWithItsCall ==
  ~mixed => \A n \in 1..Len(log) :
    LET c == log[n].of IN
    /\ log[n].status # "pending" => stage[c] = "done"
    /\ stage[c] = "done" /\ Len(ToolCalls[c]) = 1 => log[n].status # "pending"

\* A browser that has received all that was sent to it shows every event since it
\* connected, or is full of others; each once, and with its present status.  But an
\* event of its history may come after the broadcast of its end, and then is shown
\* pending for ever.
BrowserUpToDate ==
  \A w \in subs : history[w] = << >> /\ live[w] = << >> =>
    /\ \A i, j \in 1..Len(shown[w]) : shown[w][i].event = shown[w][j].event => i = j
    /\ \A n \in (since[w] + 1)..Len(log) :
         Len(shown[w]) = KeepLast \/ \E i \in 1..Len(shown[w]) : shown[w][i].event = n
    /\ \A i \in 1..Len(shown[w]) : shown[w][i].event \notin overtaken[w] =>
         shown[w][i].status = log[shown[w][i].event].status

\* What the stream is for, and the code does not ensure: all that a browser shows has its
\* present status.
ShownAsItIs ==
  \A w \in subs : history[w] = << >> /\ live[w] = << >> =>
    \A i \in 1..Len(shown[w]) : shown[w][i].status = log[shown[w][i].event].status

\* ... and an event ends with its own call, whichever ids the clients choose.
EndsWithItsCallAlways ==
  \A n \in 1..Len(log) : log[n].status # "pending" => stage[log[n].of] = "done"

\* "caching and rate-limited rescan": the overview catches up with the writes, as
\* long as it is asked for.  It never does.
OverviewCatchesUp == []<>(cache # None => cache.version = version)
=============================================================================
