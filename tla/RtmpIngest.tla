------------------------------ MODULE RtmpIngest ------------------------------
(***************************************************************************)
(* The RTMP ingest workers: workers/runtime.js (registration, heartbeat,   *)
(* drain, exit) with the hooks of workers/rtmp-ingest.js (admission of a   *)
(* publish, publishers, pendingEnds).                                      *)
(*                                                                         *)
(* A worker is a single-threaded event loop whose handlers await the       *)
(* database, so a handler is one action per stretch between two awaits.    *)
(* What a worker knows of its own row (`runtime.me`) is what its last      *)
(* heartbeat returned: process[w].me, which the row may have left behind.  *)
(***************************************************************************)
EXTENDS IngestStore

CONSTANTS MaxPublishers, \* config.rtmp.maxPublishersPerWorker
          MaxTrouble     \* bound: failed calls, crashes, SIGTERMs and end requests

ASSUME WorkerAssumption == MaxPublishers \in Nat \ {0} /\ MaxTrouble \in Nat

VARIABLES process, \* Worker -> the OS process: where it is and what it believes
          conn,    \* Session -> the encoder's connection behind this publish attempt
          faults,  \* how many calls (or whole coordinator ticks) have failed
          incidents,  \* how often the outside world has interfered
          coordinator \* the coordinator's place in its tick (see IngestSystem)

trouble == <<faults, incidents>>
ingest == <<process, conn, trouble>>

\* me, deadlineHandled: what a process that leaves no longer reads is dropped.
Process == [pc : {"off", "starting", "up", "exiting", "gone"},
            me : {"starting", "ready", "draining", "lost"},
            deadlineHandled : BOOLEAN]
Leaving(me) == [pc |-> "exiting", me |-> me, deadlineHandled |-> FALSE]
Gone == [pc |-> "gone", me |-> "lost", deadlineHandled |-> FALSE]

\* phase "admitting"   admit() awaits the database
\*       "admitted"    the row is inserted, its answer not yet handled
\*       "publishing"  an entry of the publishers map
\*       "ending"      donePublish ran: out of the map, counted in pendingEnds
\*       "overtaken"   prePublish ignored it: its connection published another one
\*       "done"        nothing left of it
\* socket: the connection, named by the publish that opened it; an encoder may
\* send a second publish while the first is being admitted.  {}: it is closed, or
\* does not matter any more.
\* here: the encoder being admitted is still connected (session.isStarting).
\* goingLive: the transition to live is in flight.
Socket == SUBSET Session
Conn == [phase : {"idle", "admitting", "admitted", "publishing", "ending", "overtaken", "done"},
         definition : Definition \cup {NoDefinition}, worker : Worker \cup {NoWorker},
         socket : Socket, here : BOOLEAN, goingLive : BOOLEAN]
NoConn == [phase |-> "idle", definition |-> NoDefinition, worker |-> NoWorker,
           socket |-> {}, here |-> FALSE, goingLive |-> FALSE]

IngestTypeOK ==
  /\ process \in [Worker -> Process]
  /\ conn \in [Session -> Conn]
  /\ faults \in 0..MaxTrouble
  /\ incidents \in 0..MaxTrouble

IngestInit ==
  /\ process = [w \in Worker |-> [pc |-> "off", me |-> "starting", deadlineHandled |-> FALSE]]
  /\ conn = [s \in Session |-> NoConn]
  /\ faults = 0
  /\ incidents = 0

Running(w) == process[w].pc \in {"up", "exiting"}
RunningFor(s) == conn[s].worker \in Worker /\ Running(conn[s].worker)
publishers(w) == {s \in Session : conn[s].worker = w /\ conn[s].phase = "publishing"}
pendingEnds(w) == {s \in Session : conn[s].worker = w /\ conn[s].phase = "ending"}
\* Admissions whose answer is still on its way.  activeCount() has no term for them.
inFlight(w) == {s \in Session : conn[s].worker = w /\ conn[s].phase \in {"admitting", "admitted"}}

\* Another publish of its connection is in the map: publishers.has(session.id).
Overtaken(s) ==
  \E t \in Session \ {s} : conn[t].socket = conn[s].socket /\ conn[t].phase = "publishing"

\* The sockets of the given publishes close: donePublish takes the publisher out of
\* the map, and what was being admitted on the same connection finds it gone.
Cut(c) == [c EXCEPT !.here = FALSE, !.socket = {},
                    !.phase = IF @ = "publishing" THEN "ending" ELSE @]
Shut(closing) == [s \in Session |->
  IF \E t \in closing : conn[t].socket = conn[s].socket THEN Cut(conn[s]) ELSE conn[s]]

\* onLost and endAll: stopNms of every publisher of the worker.
Dropped(w) == Shut(publishers(w))

\* A refused admission rejects its connection, unless that publishes by now: then
\* prePublish returns before it looks at the answer.
Rejected(s) == [IF Overtaken(s) THEN conn ELSE Shut({s}) EXCEPT ![s] = NoConn]

\* The process is gone and its sockets with it.
Torn(w) == [s \in Session |->
  IF conn[s].worker # w THEN conn[s]
  ELSE IF session[s].state = "none" THEN NoConn
  ELSE [conn[s] EXCEPT !.phase = "done", !.here = FALSE, !.socket = {},
                         !.goingLive = FALSE]]

Fault == faults + incidents < MaxTrouble /\ faults' = faults + 1
Incident == faults + incidents < MaxTrouble /\ incidents' = incidents + 1

-----------------------------------------------------------------------------
(* The runtime: workers/runtime.js                                         *)

Register(w) ==
  /\ process[w].pc = "off"
  /\ register(w)
  /\ process' = [process EXCEPT ![w].pc = "starting"]
  /\ UNCHANGED <<session, told, conn, trouble, coordinator>>

\* ready(): a row that was drained or lost meanwhile stays so, and the worker
\* finds out at its next beat.
BecomeReady(w) ==
  /\ process[w].pc = "starting"
  /\ ready(w)
  /\ process' = [process EXCEPT ![w].pc = "up",
                                ![w].me = IF worker[w].state = "starting" THEN "ready" ELSE @]
  /\ UNCHANGED <<session, told, conn, trouble, coordinator>>

\* SIGTERM: drainNow() marks the row; the beat it then runs is Beat.
Sigterm(w) ==
  /\ process[w].pc = "up"
  /\ Incident
  /\ drain(w)
  /\ UNCHANGED <<session, told, process, conn, faults, coordinator>>

\* Mutant of Beat: a worker that was given up on does not notice.
BeatUnaware(w) ==
  /\ process[w].pc = "up"
  /\ heartbeat(w)
  /\ process' = [process EXCEPT ![w].me = IF Alive(w) THEN worker[w].state ELSE @]
  /\ UNCHANGED <<conn, trouble, coordinator>>

\* beat(): the heartbeat write, and what the returned row tells the worker.  A
\* worker that was given up on drops its transports (onLost) and leaves.
Beat(w) ==
  /\ process[w].pc = "up"
  /\ heartbeat(w)
  /\ IF Alive(w)
     THEN /\ process' = [process EXCEPT ![w].me =
                           IF worker[w].state = "starting" THEN @ ELSE worker[w].state]
          /\ UNCHANGED conn
     ELSE /\ process' = [process EXCEPT ![w] = Leaving("lost")]
          /\ conn' = Dropped(w)
  /\ UNCHANGED <<trouble, coordinator>>

\* Mutant of EndRequested: only a publisher in the map can be ended.
EndRequestedOfPublisher(w, s) ==
  /\ process[w].pc = "up"
  /\ s \in endRequests(w) \cap publishers(w)
  /\ conn' = Shut({s})
  /\ UNCHANGED <<store, process, trouble, coordinator>>

\* The part of a beat that follows the row: onEndRequested for each session of
\* the worker an owner asked to end.  endSession() closes its publisher; with no
\* publisher in the map it finishes the record itself.
EndRequested(w, s) ==
  /\ process[w].pc = "up"
  /\ s \in endRequests(w)
  /\ IF s \in publishers(w)
     THEN conn' = Shut({s}) /\ UNCHANGED <<session, told>>
     ELSE finish(s) /\ UNCHANGED conn
  /\ UNCHANGED <<worker, process, trouble, coordinator>>

\* Mutant of DrainDeadline: the deadline passes and nobody is dropped.
DrainDeadlineIdle(w) ==
  /\ process[w].pc = "up" /\ process[w].me = "draining" /\ ~process[w].deadlineHandled
  /\ process' = [process EXCEPT ![w].deadlineHandled = TRUE]
  /\ UNCHANGED <<store, conn, trouble, coordinator>>

\* The drain deadline passed (a day by default, so no admission is still in
\* flight): onDrainDeadline, once, ends what is left.
DrainDeadline(w) ==
  /\ process[w].pc = "up" /\ process[w].me = "draining" /\ ~process[w].deadlineHandled
  /\ inFlight(w) = {}
  /\ process' = [process EXCEPT ![w].deadlineHandled = TRUE]
  /\ conn' = Dropped(w)
  /\ UNCHANGED <<store, trouble, coordinator>>

\* exitWhenIdle(): activeCount() = publishers.size + pendingEnds is 0.
ExitWhenIdle(w) ==
  /\ process[w].pc = "up" /\ process[w].me = "draining"
  /\ publishers(w) = {} /\ pendingEnds(w) = {}
  /\ process' = [process EXCEPT ![w] = Leaving("draining")]
  /\ UNCHANGED <<store, conn, trouble, coordinator>>

\* The stopped row is written before the process goes.
WriteStop(w) ==
  /\ process[w].pc = "exiting" /\ process[w].me = "draining"
  /\ Alive(w)
  /\ stop(w)
  /\ UNCHANGED <<session, told, ingest, coordinator>>

Exit(w) ==
  /\ process[w].pc = "exiting"
  /\ ~Alive(w)
  /\ process' = [process EXCEPT ![w] = Gone]
  /\ conn' = Torn(w)
  /\ UNCHANGED <<store, trouble, coordinator>>

\* The process dies without a word (SIGKILL, out of memory), or leaves after
\* its stop write failed.
Crash(w) ==
  /\ process[w].pc \in {"starting", "up", "exiting"}
  /\ Incident
  /\ process' = [process EXCEPT ![w] = Gone]
  /\ conn' = Torn(w)
  /\ UNCHANGED <<store, faults, coordinator>>

-----------------------------------------------------------------------------
(* A publish: workers/rtmp-ingest.js                                       *)

\* A publish comes in on a connection of its own, or on one whose earlier publish
\* is still being admitted: only a connection that publishes already is turned
\* away.  The checks are those admit() makes before it first awaits.
Publish(s, d, w) ==
  /\ conn[s] = NoConn
  /\ process[w].pc = "up" /\ process[w].me = "ready"
  /\ Cardinality(publishers(w)) < MaxPublishers
  /\ \E socket \in {{s}} \cup {conn[t].socket : t \in {t \in inFlight(w) : conn[t].here}} :
       /\ \A t \in Session : conn[t].socket = socket =>
            t \in inFlight(w) /\ conn[t].here
       /\ conn' = [conn EXCEPT ![s] = [phase |-> "admitting", definition |-> d, worker |-> w,
                                       socket |-> socket, here |-> TRUE, goingLive |-> FALSE]]
  /\ UNCHANGED <<store, process, trouble, coordinator>>

\* admit() commits.
Admit(s) ==
  /\ conn[s].phase = "admitting" /\ RunningFor(s)
  /\ admit(s, conn[s].definition, conn[s].worker)
  /\ conn' = [conn EXCEPT ![s].phase = "admitted"]
  /\ UNCHANGED <<worker, process, trouble, coordinator>>

\* duplicate_publisher: no row was inserted.
RefusePublish(s) ==
  /\ conn[s].phase = "admitting" /\ RunningFor(s)
  /\ Refused(conn[s].definition)
  /\ conn' = Rejected(s)
  /\ UNCHANGED <<store, process, trouble, coordinator>>

\* prePublish and postPublish: the publisher enters the map and the transition
\* to live starts.  Neither looks at the drain state again.
StartPublishing(s) ==
  /\ conn[s].phase = "admitted" /\ conn[s].here /\ ~Overtaken(s) /\ RunningFor(s)
  /\ conn' = [conn EXCEPT ![s].phase = "publishing", ![s].here = FALSE,
                          ![s].goingLive = TRUE]
  /\ UNCHANGED <<store, process, trouble, coordinator>>

\* prePublish on a connection that publishes another session by now: it returns
\* before it takes the answer, and nobody finishes the row that was inserted.
Overtake(s) ==
  /\ conn[s].phase = "admitted" /\ conn[s].here /\ Overtaken(s) /\ RunningFor(s)
  /\ conn' = [conn EXCEPT ![s].phase = "overtaken", ![s].here = FALSE, ![s].socket = {}]
  /\ UNCHANGED <<store, process, trouble, coordinator>>

\* Mutant of FinishAbandoned: a publisher that left early is just forgotten.
ForgetAbandoned(s) ==
  /\ conn[s].phase = "admitted" /\ ~conn[s].here /\ RunningFor(s)
  /\ conn' = [conn EXCEPT ![s].phase = "done"]
  /\ UNCHANGED <<store, process, trouble, coordinator>>

\* The publisher left while it was being admitted.
FinishAbandoned(s) ==
  /\ conn[s].phase = "admitted" /\ ~conn[s].here /\ RunningFor(s)
  /\ finish(s)
  /\ conn' = [conn EXCEPT ![s].phase = "done"]
  /\ UNCHANGED <<worker, process, trouble, coordinator>>

\* The transition to live commits; refused, it closes the transport.
GoLive(s) ==
  /\ conn[s].goingLive /\ RunningFor(s)
  /\ transition(s, "live")
  /\ LET refused == conn[s].phase = "publishing" /\ ~canTransition(session[s].state, "live")
     IN  conn' = [IF refused THEN Shut({s}) ELSE conn EXCEPT ![s].goingLive = FALSE]
  /\ UNCHANGED <<worker, process, trouble, coordinator>>

\* The encoder goes: while it is being admitted only the flag tells; a
\* publisher's donePublish takes it out of the map at once.
EncoderLeaves(s) ==
  /\ conn[s].here \/ conn[s].phase = "publishing"
  /\ RunningFor(s)
  /\ conn' = Shut({s})
  /\ UNCHANGED <<store, process, trouble, coordinator>>

\* The finish of donePublish commits.
FinishEnd(s) ==
  /\ conn[s].phase = "ending" /\ RunningFor(s)
  /\ finish(s)
  /\ conn' = [conn EXCEPT ![s].phase = "done"]
  /\ UNCHANGED <<worker, process, trouble, coordinator>>

\* The database call a connection is waiting on fails: nobody retries it.  A
\* failed admission rejects the publish; a failed finish or transition is logged.
CallFails(s) ==
  /\ RunningFor(s) /\ Fault
  /\ \/ conn[s].phase = "admitting" /\ conn' = Rejected(s)
     \/ conn[s].phase = "admitted" /\ ~conn[s].here /\ conn' = [conn EXCEPT ![s].phase = "done"]
     \/ conn[s].phase = "ending" /\ conn' = [conn EXCEPT ![s].phase = "done"]
     \/ conn[s].goingLive /\ conn' = [conn EXCEPT ![s].goingLive = FALSE]
  /\ UNCHANGED <<store, process, incidents, coordinator>>

=============================================================================
