------------------------------- MODULE Lifespan -------------------------------
(***************************************************************************)
(* Who creates the server's AppState, who shuts it down, and who works     *)
(* with it meanwhile: _lifespan, ensure_state and get_state of             *)
(* server/app.py, the startup of the web application, and _serve.          *)
(*                                                                         *)
(* FastMCP enters _lifespan for every session.  The first session that     *)
(* finds no state makes one, after awaiting the discovery of the plugins,  *)
(* and shuts it down when it ends; the others borrow it.  With the Web UI  *)
(* the state is made before any session, and belongs to none.              *)
(***************************************************************************)
EXTENDS Naturals

CONSTANTS
  Session,
  MaxStates   \* bound on the states made

ASSUME StatesAssumption == MaxStates \in Nat

State == 1..MaxStates
NoState == 0

VARIABLES
  web,      \* --web
  phase,    \* of the process: starting, aborting (a signal came while starting),
            \* serving, stopping (_serve awaits shutdown()), exiting (uvicorn ends
            \* the sessions, for 5 s), cancelling (serve_task is cancelled), stopped
  target,   \* the state that _serve is shutting down
  before,   \* history: how many states were made before the signal
  sess,     \* [Session]: none, discovering, owning, borrowing, closing, done
  own,      \* [Session]: the state it made
  current,  \* server.app._state
  made,     \* the states made are 1..made
  closed,   \* those whose shutdown() has ended
  collided  \* history: two sessions were discovering at once

lifespan == <<web, phase, target, before, sess, own, current, made, closed, collided>>

Live == (1..made) \ closed

LifespanInit ==
  /\ web \in BOOLEAN
  /\ phase   = IF web THEN "starting" ELSE "serving"
  /\ target  = NoState /\ before = 0
  /\ sess    = [k \in Session |-> "none"]
  /\ own     = [k \in Session |-> NoState]
  /\ current = NoState
  /\ made    = 0
  /\ closed  = {}
  /\ collided = FALSE

\* AppState(_config), start(), and the global is set: no await in between.
NewState ==
  /\ made < MaxStates
  /\ made'    = made + 1
  /\ current' = made + 1

-----------------------------------------------------------------------------
\* _CombinedApp holds back the end of uvicorn's startup until ensure_state has
\* discovered the plugins (which may fail: no tools) and made the state.
Startup ==
  /\ phase = "starting"
  /\ phase' = "serving"
  /\ NewState
  /\ UNCHANGED <<web, target, before, sess, own, closed, collided>>

\* Faulty variant: every session makes a state.
Enter_Always(k) ==
  /\ phase \in {"serving", "stopping", "exiting"} /\ sess[k] = "none"
  /\ sess'  = [sess EXCEPT ![k] = "discovering"]
  /\ collided' = (collided \/ \E j \in Session \ {k} : sess[j] = "discovering")
  /\ UNCHANGED <<web, phase, target, before, own, current, made, closed>>

\* A session enters _lifespan.
Enter(k) ==
  /\ phase \in {"serving", "stopping", "exiting"} /\ sess[k] = "none"
  /\ IF current # NoState
     THEN sess' = [sess EXCEPT ![k] = "borrowing"] /\ UNCHANGED collided
     ELSE /\ sess'  = [sess EXCEPT ![k] = "discovering"]
          /\ collided' = (collided \/ \E j \in Session \ {k} : sess[j] = "discovering")
  /\ UNCHANGED <<web, phase, target, before, own, current, made, closed>>

\* discover_tools returns, with tools or without; _state is not looked at again.
Discovered(k) ==
  /\ sess[k] = "discovering" /\ phase # "cancelling"
  /\ NewState
  /\ sess' = [sess EXCEPT ![k] = "owning"]
  /\ own'  = [own EXCEPT ![k] = made']
  /\ UNCHANGED <<web, phase, target, before, closed, collided>>

\* Faulty variant: whoever leaves shuts down the state it worked with.
Leave_AnyCloses(k) ==
  /\ sess[k] \in {"discovering", "borrowing", "owning"}
  /\ sess' = [sess EXCEPT ![k] = IF @ = "discovering" THEN "done" ELSE "closing"]
  /\ own'  = [own EXCEPT ![k] = IF sess[k] = "borrowing" THEN current ELSE @]
  /\ UNCHANGED <<web, phase, target, before, current, made, closed, collided>>

\* The session ends, or is cancelled because the server exits, even while it
\* discovers.
Leave(k) ==
  /\ sess[k] \in {"discovering", "borrowing", "owning"}
  /\ sess' = [sess EXCEPT ![k] = IF @ = "owning" THEN "closing" ELSE "done"]
  /\ UNCHANGED <<web, phase, target, before, own, current, made, closed, collided>>

\* The owner's shutdown() ends, and _state becomes None, whichever it was.
OwnerCloses(k) ==
  /\ sess[k] = "closing"
  /\ sess'    = [sess EXCEPT ![k] = "done"]
  /\ closed'  = closed \cup {own[k]}
  /\ current' = NoState
  /\ UNCHANGED <<web, phase, target, before, own, made, collided>>

\* It is cancelled, by the server that exits, while it awaits shutdown(): what is open
\* stays open, and _state is left.
CloseIsCut(k) ==
  /\ phase \in {"exiting", "cancelling"} /\ sess[k] = "closing"
  /\ sess' = [sess EXCEPT ![k] = "done"]
  /\ UNCHANGED <<web, phase, target, before, own, current, made, closed, collided>>

-----------------------------------------------------------------------------
(* _serve *)

\* Faulty variant: the sessions are trusted to shut down the state.
Signal_NoShutdown ==
  /\ phase \in {"starting", "serving"}
  /\ target' = current /\ before' = made
  /\ phase' = IF phase = "starting" THEN "aborting" ELSE "exiting"
  /\ UNCHANGED <<web, sess, own, current, made, closed, collided>>

\* SIGINT or SIGTERM wakes _serve (or _serve_stdio): the state of this moment.  The
\* handler is there before uvicorn starts, when there is none.
Signal ==
  /\ target' = current /\ before' = made
  /\ \/ phase = "starting" /\ phase' = "aborting"
     \/ phase = "serving" /\ current = NoState /\ phase' = "exiting"
     \/ phase = "serving" /\ current # NoState /\ phase' = "stopping"
  /\ UNCHANGED <<web, sess, own, current, made, closed, collided>>

\* Its shutdown() ends; should_exit.
ServerCloses ==
  /\ phase = "stopping"
  /\ phase'   = "exiting"
  /\ closed'  = closed \cup {target}
  /\ current' = NoState
  /\ UNCHANGED <<web, target, before, sess, own, made, collided>>

\* uvicorn has not returned after 5 s (_serve_stdio does not wait for it): what is
\* left is cancelled, once.
GiveUp ==
  /\ phase = "exiting"
  /\ phase' = "cancelling"
  /\ UNCHANGED <<web, target, before, sess, own, current, made, closed, collided>>

Exit ==
  /\ phase \in {"exiting", "cancelling"} /\ \A k \in Session : sess[k] \in {"none", "done"}
  /\ phase' = "stopped"
  /\ UNCHANGED <<web, target, before, sess, own, current, made, closed, collided>>

\* ensure_state makes its state all the same, and uvicorn returns without serving; or
\* it is cancelled after 5 s.
Abort ==
  /\ phase = "aborting"
  /\ phase' = "stopped"
  /\ NewState \/ UNCHANGED <<made, current>>
  /\ UNCHANGED <<web, target, before, sess, own, closed, collided>>

LifespanNext ==
  \/ Startup \/ Signal \/ ServerCloses \/ GiveUp \/ Exit \/ Abort
  \/ \E k \in Session : Enter(k) \/ Discovered(k) \/ Leave(k) \/ OwnerCloses(k) \/ CloseIsCut(k)

\* shutdown() ends, the 5 s pass, and a session that is cancelled ends.
LifespanSpec ==
  /\ LifespanInit /\ [][LifespanNext]_lifespan
  /\ WF_lifespan(ServerCloses) /\ WF_lifespan(GiveUp) /\ WF_lifespan(Exit) /\ WF_lifespan(Abort)
  /\ \A k \in Session :
       WF_lifespan(OwnerCloses(k)) /\ WF_lifespan(phase = "cancelling" /\ Leave(k))

-----------------------------------------------------------------------------
(* Properties. *)

\* Every variable has its type.
LifespanTypeOK ==
  /\ web \in BOOLEAN /\ before \in 0..MaxStates
  /\ phase \in {"starting", "aborting", "serving", "stopping", "exiting", "cancelling", "stopped"}
  /\ sess   \in [Session -> {"none", "discovering", "owning", "borrowing", "closing", "done"}]
  /\ own    \in [Session -> State \cup {NoState}]
  /\ target \in State \cup {NoState} /\ current \in State \cup {NoState}
  /\ made   \in 0..MaxStates
  /\ closed \in SUBSET State
  /\ collided \in BOOLEAN

\* The server works with one state at a time: a second set of projects over the
\* same directories only comes from two sessions that discovered plugins at once,
\* or from one that opens while the server stops.
OneStateUnlessCollided ==
  \A m, n \in Live : m # n => collided \/ phase \notin {"starting", "serving"}

\* With the Web UI the state lives from the end of the startup to the signal,
\* whichever sessions come and go.
WebKeepsItsState == web /\ phase = "serving" => current \in Live

\* No state that there was at the signal is left open, with its workers: not the one in
\* use, nor, unless sessions raced, one whose owner's own shutdown() is cut short.
OldAreClosed == target \notin Live /\ (collided \/ Live \cap 1..before = {})

\* A signal stops the server, whenever it comes, and closes what there was.
StopClosesStates ==
  phase \in {"aborting", "stopping", "exiting", "cancelling"} ~> phase = "stopped" /\ OldAreClosed

\* What one would expect of a server that has stopped, and the code does not ensure: the
\* state of a startup that a signal cut short is shut down by nobody, nor is one made
\* for a session that opened while the server stopped, if its shutdown() is cut.
NothingLeftOpen == phase = "stopped" => Live = {}

\* What get_state() says, and the code does not ensure without the Web UI: it
\* raises only if the server is not started.  The end of the session that made the
\* state takes it from the others.
SessionsHaveState ==
  phase = "serving" => \A k \in Session : sess[k] \in {"borrowing", "owning"} => current \in Live
=============================================================================
