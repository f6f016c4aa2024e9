---------------------------- MODULE TransportSystem ----------------------------
(***************************************************************************)
(* A JSMPEG or a WebRTC worker with what surrounds it: the coordinator,    *)
(* which gives up on a silent worker and fails the sessions nobody renews, *)
(* and owners.  The coordinator's tick and the clock in detail are         *)
(* IngestSystem's; here a silence longer than the lease is an event: of a  *)
(* process that is gone it is certain, of one that is up it is an incident *)
(* (a stall), so leases are never seen running down.                       *)
(***************************************************************************)
EXTENDS JsmpegIngest, WebrtcIngest

CONSTANT Requested  \* bound: the sessions whose end is asked for beside the trouble counted

ASSUME RequestedAssumption == Requested \subseteq Session

vars == <<worker, session, told, room, calls, kind, process, conn, sweep, faults, incidents>>

TypeOK == StoreTypeOK /\ SfuTypeOK /\ TransportTypeOK

Init == SfuInit /\ TransportInit

here_ == <<room, calls, kind, process, conn, sweep>>

-----------------------------------------------------------------------------
(* Coordinator and owners *)

Silent == IF process.pc = "gone" THEN UNCHANGED incidents ELSE Incident

Lose ==
  /\ Alive(self) /\ Silent
  /\ lose(self)
  /\ UNCHANGED <<session, told, here_, faults>>

\* A session of a worker given up on, of one that stopped, or one whose lease
\* ran out in a stall that a beat ended too late (orphans are judged first and
\* failed after).
FailSession(s) ==
  /\ Open(s)
  /\ IF Alive(self) THEN Silent ELSE UNCHANGED incidents
  /\ transition(s, "failed")
  /\ UNCHANGED <<worker, here_, faults>>

RequestEnd(s) ==
  /\ IF s \in Requested THEN UNCHANGED incidents ELSE Incident
  /\ requestEnd(s)
  /\ UNCHANGED <<here_, faults>>

Coordinator == Lose \/ \E s \in Session : FailSession(s)

\* What the coordinator owes: a silence that is certain.
CoordinatorDuty == process.pc = "gone" /\ Coordinator

WorkerDuty ==
  \/ DrainDeadline \/ ExitWhenIdle \/ WriteStop \/ Exit
  \/ \E s \in Session : SweepNext(s)

\* What the database answers, and the end requests a beat picks up.
Commits(s) ==
  \/ \E d \in Definition : Admit(s, d) \/ Refuse(s, d)
  \/ Accept(s) \/ Admitted(s)
  \/ GoLive(s) \/ FinishEnd(s) \/ EndRequested(s)

Next ==
  \/ Coordinator \/ Beat \/ WorkerDuty \/ Drain \/ Crash
  \/ \E s \in Session :
       \/ RequestEnd(s) \/ CallFails(s)
       \/ \E m \in Modes : Publish(s, m)
       \/ Commits(s) \/ JsmpegStep(s) \/ WebrtcStep(s)

Spec == Init /\ [][Next]_vars

\* Timers fire, the database answers, and the coordinator finds a process that
\* is gone; encoders, viewers, owners and operators owe nothing, and mediasoup
\* is not even assumed to answer.
Fairness ==
  /\ WF_vars(CoordinatorDuty)
  /\ WF_vars(Beat)
  /\ WF_vars(WorkerDuty)
  /\ \A s \in Session : WF_vars(Commits(s))
  /\ \A s \in WebrtcSession : WF_vars(ProducerGrace(s))

FairSpec == Spec /\ Fairness

-----------------------------------------------------------------------------
(* Properties *)

\* A session goes live on media, not on a connection: on the first bytes of a
\* POST (jsmpeg.js), on a browser's first video producer, and for WHIP, whose
\* producers exist before its media can flow, only once ICE has connected
\* (webrtc.js).
LiveHasMedia == \A s \in Session : session[s].state = "live" => conn[s].media

\* What will, or may yet, end the session: an admission or an end in flight, a
\* POST, a socket, a WHIP resource or the request that is setting one up.
SETUP == {"router", "transport", "connect", "produce"}
Behind(s) ==
  \/ conn[s].phase \in {"admitted", "ending"}
  \/ /\ conn[s].phase = "held"
     /\ IF conn[s].mode = "whip" THEN conn[s].joined \/ calls[s] \cap SETUP # {} ELSE conn[s].here

\* The encoder went during its admission (see EarlyLeaverCloses).
LeftEarly(s) ==
  \/ conn[s].phase = "left"
  \/ conn[s].phase = "held" /\ conn[s].mode = "browser" /\ ~conn[s].joined

\* A record that is open with nothing behind it: the beat renews its lease for
\* as long as the worker lives, and its stream stays locked.
Locked(s) == Open(s) /\ process.pc # "gone" /\ ~Behind(s) /\ ~LeftEarly(s)

\* RTP sent out that neither a handle nor an open request would close.
Astray(s) == room[s].plain # {} /\ ~conn[s].handle /\ "egressAudio" \notin calls[s]

\* Whatever fails in the setting up of a transport, whichever way a session
\* ends and however much has failed before, a record is locked in no other step
\* than one in which a call of its own fails: one lock at most per failed call.
LocksCostFaults ==
  [][\A s \in Session : Locked(s)' /\ ~Locked(s) =>
       faults' > faults /\ \A t \in Session \ {s} : Locked(t)' => Locked(t)]_vars

\* Readers are let go with what they read: no viewer or tap of a channel that
\* ended, and RTP goes astray in no other step than one in which a call fails
\* (the second of two consumers cannot be opened).
ReadersAccounted ==
  [][\A s \in Session :
       /\ (conn[s].mode = "jsmpeg" /\ conn[s].watched => conn[s].phase = "held")'
       /\ Astray(s)' /\ ~Astray(s) => faults' > faults]_vars

\* "running sessions stay until they leave or the drain deadline passes.  Then
\* the process exits by itself" (jsmpeg.js), unless a call failed: an end that
\* fails stops the loop of the deadline, which runs once.  From "draining" a row
\* goes to "stopped" or "lost" only.
DrainCompletes == []<>(worker[self].state # "draining" \/ faults > 0)

\* An owner's request to end a session is carried out wherever its publish
\* was, and again by a later beat when the call failed: there is no rest with one
\* outstanding (a request is not taken back, a closed session not opened again).
EndRequestsHonoured == []<>(\A s \in Session : ~(Open(s) /\ session[s].desired = "end"))

\* A live browser session whose producers went, and did not come back, closes
\* (webrtc.js, producer-removed), unless a second router replaced its room or a
\* produce was answered after its transport had closed: a stray producer goes
\* without an event (sfu.js), and with it the session may stay open.
SilentBrowserCloses ==
  \A s \in WebrtcSession :
    \/ <>(room[s].stray # {})
    \/ (session[s].state = "live" /\ conn[s].mode = "browser" /\ ~hasProducers(s)) ~>
         (~Open(s) \/ hasProducers(s) \/ room[s].spare \/ faults > 0)

\* "ends when the POST closes" (jsmpeg.js): the record of an encoder that has
\* gone is closed.
EarlyLeaverCloses ==
  \A s \in Session : (Open(s) /\ ~conn[s].here) ~> ~Open(s)

\* "a router's lifetime is exactly the session's" (sfu.js): no router is left
\* under the id of a session whose record is closed and whose end is done.
RouterFollowsSession ==
  \A s \in Session : hasRouter(s) => Open(s) \/ conn[s].phase # "done"

=============================================================================
