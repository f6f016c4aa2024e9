--------------------------- MODULE TransportWorker ---------------------------
(***************************************************************************)
(* What workers/jsmpeg.js and workers/webrtc.js share: one worker process  *)
(* of one kind, its place in the runtime's life (workers/runtime.js), the  *)
(* admission of a publish, going live, and the end of a session.           *)
(*                                                                         *)
(* A handler is one action per stretch between two awaits.  A session that *)
(* ends leaves the worker's map at once and its `finish` is written later. *)
(***************************************************************************)
EXTENDS Sfu

CONSTANTS JsmpegSession, \* bound: the publish attempts a JSMPEG worker sees
          WebrtcSession, \* bound: the publish attempts a WebRTC worker sees
          MaxPublishers, \* maxPublishersPerWorker
          MaxTrouble     \* bound: failed calls, crashes, SIGTERMs, and end requests not in Requested

ASSUME TransportAssumption ==
  /\ JsmpegSession \subseteq Session
  /\ WebrtcSession \subseteq Session
  /\ MaxPublishers \in Nat \ {0}
  /\ MaxTrouble \in Nat

VARIABLES kind,     \* which of the two programs the worker runs
          process,  \* the process, and what it believes of its row
          conn,     \* Session -> what the process holds for this publish
          sweep,    \* the loop of onDrainDeadline or onLost
          faults,   \* calls that have failed
          incidents \* what the outside world has done

trouble == <<faults, incidents>>

\* The worker row of this process.
self == 1

Process == [pc : {"up", "exiting", "gone"}, me : {"ready", "draining", "lost"},
            deadlineHandled : BOOLEAN]

\* phase "admitting"  admit() awaits the database
\*       "admitted"   the row is inserted, the answer not yet handled
\*       "held"       in `channels` or `sessions`
\*       "ending"     out of the map, its finish counted in pendingEnds
\*       "done"       nothing in flight
\*       "left"       admitted, and dropped without a finish
\* here: the encoder's request or socket is open.  joined: the encoder has its
\* answer (the WHIP resource exists, the socket is a signaling client).
\* media: its media has arrived.  live: the process has set `live`.  going: how
\* far the move to live is.  timer: a grace timer is set.  handle: an egress
\* handle is open.  watched: somebody watches.
Conn == [phase : {"idle", "admitting", "admitted", "held", "ending", "done", "left"},
         mode : {"none", "jsmpeg", "whip", "browser"},
         here : BOOLEAN, joined : BOOLEAN, media : BOOLEAN, live : BOOLEAN,
         going : {"no", "info", "transition"}, timer : {"none", "producers", "ice"},
         handle : BOOLEAN, watched : BOOLEAN]
NoConn == [phase |-> "idle", mode |-> "none", here |-> FALSE, joined |-> FALSE,
           media |-> FALSE, live |-> FALSE, going |-> "no", timer |-> "none",
           handle |-> FALSE, watched |-> FALSE]

\* at: the session the loop awaits the end of.  todo: the ones behind it.
Sweep == [at : SUBSET Session, todo : SUBSET Session]
NoSweep == [at |-> {}, todo |-> {}]

TransportTypeOK ==
  /\ kind \in {"jsmpeg", "webrtc"}
  /\ process \in Process
  /\ conn \in [Session -> Conn]
  /\ sweep \in Sweep
  /\ faults \in 0..MaxTrouble
  /\ incidents \in 0..MaxTrouble

\* A worker that has registered and become ready.
TransportInit ==
  /\ worker = [w \in Worker |-> [state |-> IF w = self THEN "ready" ELSE "none", age |-> 0]]
  /\ session = [s \in Session |-> NoSession]
  /\ told = [s \in Session |-> <<>>]
  /\ kind \in {"jsmpeg", "webrtc"}
  /\ process = [pc |-> "up", me |-> "ready", deadlineHandled |-> FALSE]
  /\ conn = [s \in Session |-> NoConn]
  /\ sweep = NoSweep
  /\ faults = 0
  /\ incidents = 0

Up == process.pc \in {"up", "exiting"}
In(phase) == {s \in Session : conn[s].phase = phase}
Fault == faults + incidents < MaxTrouble /\ faults' = faults + 1
Incident == faults + incidents < MaxTrouble /\ incidents' = incidents + 1

\* The synchronous half of endChannel and endSessionRecord: out of the map,
\* timers and egress handles gone.  JSMPEG closes its viewers and taps; WebRTC
\* closes the room and leaves the sockets of its viewers open.
Ended(c) == [c EXCEPT !.phase = "ending", !.handle = FALSE,
                      !.here = @ /\ c.mode = "browser",
                      !.timer = IF @ = "ice" THEN "ice" ELSE "none",
                      !.watched = @ /\ c.mode # "jsmpeg"]

\* endSession(id): an entry is ended; without one the record is finished all
\* the same, in case it is still open.
EndSession(s) ==
  IF conn[s].phase = "held"
  THEN conn' = [conn EXCEPT ![s] = Ended(@)] /\ closeSession({s})
  ELSE conn' = [conn EXCEPT ![s].phase = IF @ = "done" THEN "ending" ELSE @] /\ UNCHANGED sfu

-----------------------------------------------------------------------------
(* The runtime's hooks                                                     *)

\* Drained by a SIGTERM or because a newer generation is ready.
Drain ==
  /\ process.pc = "up" /\ worker[self].state = "ready"
  /\ Incident
  /\ drain(self)
  /\ UNCHANGED <<session, told, sfu, kind, process, conn, sweep, faults>>

\* beat(): given up on, the worker starts onLost.
Beat ==
  /\ process.pc = "up"
  /\ heartbeat(self)
  /\ IF Alive(self)
     THEN process' = [process EXCEPT !.me = worker[self].state] /\ UNCHANGED sweep
     ELSE /\ process' = [process EXCEPT !.me = "lost", !.pc = "exiting"]
          /\ sweep' = [at |-> {}, todo |-> In("held")]
  /\ UNCHANGED <<sfu, kind, conn, trouble>>

\* Mutant of EndRequested: only what the map holds can be ended.
EndRequestedOfHeld(s) ==
  /\ process.pc = "up"
  /\ s \in endRequests(self) /\ conn[s].phase = "held"
  /\ conn' = [conn EXCEPT ![s] = Ended(@)]
  /\ closeSession({s})
  /\ UNCHANGED <<store, kind, process, sweep, trouble>>

\* onEndRequested.  With no entry in the map the finish is all there is to do.
EndRequested(s) ==
  /\ process.pc = "up"
  /\ s \in endRequests(self)
  /\ IF conn[s].phase = "held"
     THEN conn' = [conn EXCEPT ![s] = Ended(@)] /\ closeSession({s}) /\ UNCHANGED <<session, told>>
     ELSE finish(s) /\ UNCHANGED <<conn, sfu>>
  /\ UNCHANGED <<worker, kind, process, sweep, trouble>>

\* Mutant of DrainDeadline: the deadline passes and the loop is not started.
DrainDeadlineIdle ==
  /\ process.pc = "up" /\ process.me = "draining" /\ ~process.deadlineHandled
  /\ process' = [process EXCEPT !.deadlineHandled = TRUE]
  /\ UNCHANGED <<store, sfu, kind, conn, sweep, trouble>>

\* onDrainDeadline, once (a day by default, so no admission is in flight): a
\* loop over what the map holds now.
DrainDeadline ==
  /\ process.pc = "up" /\ process.me = "draining" /\ ~process.deadlineHandled
  /\ In("admitting") \cup In("admitted") = {}
  /\ process' = [process EXCEPT !.deadlineHandled = TRUE]
  /\ sweep' = [at |-> {}, todo |-> In("held")]
  /\ UNCHANGED <<store, sfu, kind, conn, trouble>>

\* The loop awaits one end after the other.
SweepNext(s) ==
  /\ Up
  /\ sweep.at = {} /\ s \in sweep.todo
  /\ IF conn[s].phase = "held"
     THEN /\ conn' = [conn EXCEPT ![s] = Ended(@)]
          /\ closeSession({s})
          /\ sweep' = [at |-> {s}, todo |-> sweep.todo \ {s}]
     ELSE /\ sweep' = [sweep EXCEPT !.todo = @ \ {s}]
          /\ UNCHANGED <<conn, sfu>>
  /\ UNCHANGED <<store, kind, process, trouble>>

\* exitWhenIdle(): activeCount() is the map's size plus pendingEnds.
ExitWhenIdle ==
  /\ process.pc = "up" /\ process.me = "draining"
  /\ In("held") \cup In("ending") = {}
  /\ process' = [process EXCEPT !.pc = "exiting"]
  /\ UNCHANGED <<store, sfu, kind, conn, sweep, trouble>>

WriteStop ==
  /\ process.pc = "exiting" /\ Alive(self)
  /\ stop(self)
  /\ UNCHANGED <<session, told, sfu, kind, process, conn, sweep, trouble>>

\* closeAll, and the process is gone.  A lost worker does not wait longer than
\* five seconds for its loop.
Torn ==
  /\ process' = [process EXCEPT !.pc = "gone"]
  /\ conn' = [s \in Session |->
       IF session[s].state = "none" THEN NoConn
       ELSE [NoConn EXCEPT !.phase = "done", !.mode = conn[s].mode, !.media = conn[s].media]]
  /\ room' = [s \in Session |-> NoRoom]
  /\ calls' = [s \in Session |-> {}]
  /\ sweep' = NoSweep

Exit ==
  /\ process.pc = "exiting" /\ ~Alive(self)
  /\ Torn
  /\ UNCHANGED <<store, kind, trouble>>

Crash ==
  /\ Up /\ Incident
  /\ Torn
  /\ UNCHANGED <<store, kind, faults>>

-----------------------------------------------------------------------------
(* A publish                                                               *)

Attempts == IF kind = "jsmpeg" THEN JsmpegSession ELSE WebrtcSession
Modes == IF kind = "jsmpeg" THEN {"jsmpeg"} ELSE {"whip", "browser"}

\* The checks admit() makes before it awaits.
Publish(s, m) ==
  /\ process.pc = "up" /\ process.me = "ready"
  /\ s \in Attempts /\ m \in Modes /\ conn[s] = NoConn
  /\ Cardinality(In("held")) < MaxPublishers
  /\ conn' = [conn EXCEPT ![s] = [NoConn EXCEPT !.phase = "admitting", !.mode = m, !.here = TRUE]]
  /\ UNCHANGED <<store, sfu, kind, process, sweep, trouble>>

Admit(s, d) ==
  /\ Up /\ conn[s].phase = "admitting"
  /\ admit(s, d, self)
  /\ conn' = [conn EXCEPT ![s].phase = "admitted"]
  /\ UNCHANGED <<worker, sfu, kind, process, sweep, trouble>>

\* duplicate_publisher: the request is answered with an error and closed.
Refuse(s, d) ==
  /\ Up /\ conn[s].phase = "admitting"
  /\ Refused(d)
  /\ conn' = [conn EXCEPT ![s] = NoConn]
  /\ UNCHANGED <<store, sfu, kind, process, sweep, trouble>>

\* The transition to live commits.  Refused (the coordinator failed the record
\* meanwhile), it ends what the map still holds.
GoLive(s) ==
  /\ Up /\ conn[s].going = "transition"
  /\ transition(s, "live")
  /\ LET c == [conn[s] EXCEPT !.going = "no"]
     IN  IF c.phase = "held" /\ ~canTransition(session[s].state, "live")
         THEN conn' = [conn EXCEPT ![s] = Ended(c)] /\ closeSession({s})
         ELSE conn' = [conn EXCEPT ![s] = c] /\ UNCHANGED sfu
  /\ UNCHANGED <<worker, kind, process, sweep, trouble>>

\* The finish of an end commits.
FinishEnd(s) ==
  /\ Up /\ conn[s].phase = "ending"
  /\ finish(s)
  /\ conn' = [conn EXCEPT ![s].phase = "done"]
  /\ sweep' = [sweep EXCEPT !.at = @ \ {s}]
  /\ UNCHANGED <<worker, sfu, kind, process, trouble>>

\* A call to the database fails; nobody repeats it.  A failed admission drops
\* the publish.  A failed end leaves the loop that awaits it.  A failed move to
\* live leaves `live` set: it is not tried again.
CallFails(s) ==
  /\ Up /\ Fault
  /\ \/ conn[s].phase = "admitting" /\ conn' = [conn EXCEPT ![s] = NoConn] /\ UNCHANGED sweep
     \/ /\ conn[s].phase = "ending"
        /\ conn' = [conn EXCEPT ![s].phase = "done"]
        /\ sweep' = IF s \in sweep.at THEN NoSweep ELSE sweep
     \/ conn[s].going # "no" /\ conn' = [conn EXCEPT ![s].going = "no"] /\ UNCHANGED sweep
  /\ UNCHANGED <<store, sfu, kind, process, incidents>>

=============================================================================
