----------------------------- MODULE WebrtcIngest -----------------------------
(***************************************************************************)
(* workers/webrtc.js and workers/webrtc/signaling.js: WHIP publishers (one *)
(* POST sets everything up, then mediasoup's events speak), browser        *)
(* broadcasters (a socket and its messages), viewers, and the RTP egress   *)
(* API.  A browser's messages are handled as they arrive: it may send one  *)
(* before the last is answered.                                            *)
(***************************************************************************)
EXTENDS TransportWorker

CONSTANT Lingering  \* bound: whether a broadcaster asks for more once its session has ended

ASSUME WebrtcAssumption == Lingering \in BOOLEAN

Whip(s) == Up /\ conn[s].mode = "whip"
Browser(s) == Up /\ conn[s].mode = "browser"
\* A message of a broadcaster that is a client of the signaling server.
Says(s) ==
  /\ Browser(s) /\ conn[s].joined /\ conn[s].here
  /\ conn[s].phase = "held" \/ Lingering
Webrtc(s) == Whip(s) \/ Browser(s)
elsewhere == <<worker, session, told, kind, process, sweep, faults, incidents>>

\* goLive, up to its await.
Lively(c) == [c EXCEPT !.media = TRUE, !.live = @ \/ c.phase = "held",
                       !.going = IF ~c.live /\ c.phase = "held" THEN "transition" ELSE @]

\* The answer of admit(): the session is in the map.  WHIP goes on to its
\* transport; a socket that closed meanwhile is never upgraded, so its close
\* handler is never set.
Admitted(s) ==
  /\ Webrtc(s) /\ conn[s].phase = "admitted"
  /\ conn' = [conn EXCEPT ![s].phase = "held", ![s].joined = Browser(s) /\ conn[s].here]
  /\ IF Whip(s) THEN Request(s, "router") ELSE UNCHANGED sfu
  /\ UNCHANGED elsewhere

-----------------------------------------------------------------------------
(* Answers of mediasoup                                                    *)

RouterIsUp(s) ==
  /\ Webrtc(s)
  /\ \E c \in Creating : RouterCreated(s, c)
  /\ UNCHANGED <<conn, elsewhere>>

TransportIsUp(s) ==
  /\ Webrtc(s)
  /\ Answered(s, "transport", [room[s] EXCEPT !.transport = "new"],
              IF Whip(s) THEN {"connect"} ELSE {})
  /\ UNCHANGED <<conn, elsewhere>>

Connected(s) ==
  /\ Webrtc(s) /\ room[s].transport # "none"
  /\ Answered(s, "connect", [room[s] EXCEPT !.transport = "connected"],
              IF Whip(s) THEN {"produce"} ELSE {})
  /\ UNCHANGED <<conn, elsewhere>>

\* The session ended meanwhile: WHIP asks for the router's capabilities, which
\* makes a router again, and then finds no transport to produce on.
ConnectedLate(s) ==
  /\ Webrtc(s) /\ room[s].transport = "none"
  /\ Answered(s, "connect", room[s],
              IF Whip(s) /\ ~hasRouter(s) THEN {"capabilities"} ELSE {})
  /\ UNCHANGED <<conn, elsewhere>>

\* WHIP: producers for what was offered (one at a time in the code), the
\* answer, the resource.
WhipAnswers(s, kinds) ==
  /\ Whip(s) /\ kinds # {}
  /\ Answered(s, "produce", [room[s] EXCEPT !.producing = kinds], {})
  /\ conn' = [conn EXCEPT ![s].joined = TRUE]
  /\ UNCHANGED elsewhere

\* Mutant of WhipRefused: the error is sent and the session stays in the map.
WhipRefusedOnly(s) ==
  /\ Whip(s)
  /\ Answered(s, "produce", room[s], {})
  /\ UNCHANGED <<conn, elsewhere>>

\* No offered codec is usable, or an encoding is invalid: the offer is refused
\* and the session, if it has not ended yet, ends.
WhipRefused(s) ==
  /\ Whip(s) /\ "produce" \in calls[s]
  /\ IF conn[s].phase = "held"
     THEN conn' = [conn EXCEPT ![s] = Ended(@)] /\ closeSession({s})
     ELSE Answered(s, "produce", room[s], {}) /\ UNCHANGED conn
  /\ UNCHANGED elsewhere

\* Mutant of Produced: any first producer takes a browser live.
ProducedAny(s, k) ==
  /\ Browser(s)
  /\ Answered(s, "produce", [room[s] EXCEPT !.producing = @ \cup {k}], {})
  /\ conn' = [conn EXCEPT ![s] = [Lively(@) EXCEPT !.media = conn[s].media \/ k = "video"]]
  /\ UNCHANGED elsewhere

\* producer-added: a browser goes live with its first video producer.
Produced(s, k) ==
  /\ Browser(s)
  /\ Answered(s, "produce", [room[s] EXCEPT !.producing = @ \cup {k}], {})
  /\ conn' = [conn EXCEPT ![s] = IF k = "video" THEN Lively(@) ELSE @]
  /\ UNCHANGED elsewhere

\* produce is answered after its transport or its room is gone: the producer it
\* announces takes the session live, and stays in the room if that is the same.
ProducedLate(s, k) ==
  /\ Browser(s)
  /\ \/ Answered(s, "late", [room[s] EXCEPT !.stray = @ \cup {k}], {})
     \/ Answered(s, "lost", room[s], {})
  /\ conn' = [conn EXCEPT ![s] = IF k = "video" THEN Lively(@) ELSE @]
  /\ UNCHANGED elsewhere

\* A request fails.  WHIP ends the session if it has not ended yet, except when
\* what fails is read between its steps and thrown (webrtc.js:254); a browser
\* gets an error message, an egress caller a 502.
RequestFails(s) ==
  /\ Webrtc(s) /\ Fault
  /\ \E c \in calls[s] :
       \/ /\ Whip(s) /\ c \notin {"viewer", "egressVideo", "egressAudio"}
          /\ conn[s].phase = "held"
          /\ conn' = [conn EXCEPT ![s] = Ended(@)]
          /\ closeSession({s})
       \/ /\ \/ Browser(s) \/ conn[s].phase # "held"
             \/ c \in {"produce", "viewer", "egressVideo", "egressAudio"}
          /\ calls' = [calls EXCEPT ![s] = @ \ {c}]
          /\ UNCHANGED <<room, conn>>
  /\ UNCHANGED <<store, kind, process, sweep, incidents>>

-----------------------------------------------------------------------------
(* The broadcaster                                                         *)

\* sfu-get-capabilities is answered at once when the room has its router.
AskCapabilities(s) ==
  /\ Says(s) /\ ~hasRouter(s)
  /\ Request(s, "capabilities")
  /\ UNCHANGED <<conn, elsewhere>>

\* sfu-create-transport (one at a time: a bound).
AskTransport(s) ==
  /\ Says(s) /\ room[s].transport = "none" /\ calls[s] \cap {"router", "transport"} = {}
  /\ Request(s, IF hasRouter(s) THEN "transport" ELSE "router")
  /\ UNCHANGED <<conn, elsewhere>>

AskConnect(s) ==
  /\ Says(s) /\ room[s].transport = "new"
  /\ Request(s, "connect")
  /\ UNCHANGED <<conn, elsewhere>>

AskProduce(s) ==
  /\ Says(s) /\ room[s].transport # "none" /\ room[s].producing # Kind
  /\ Request(s, "produce")
  /\ UNCHANGED <<conn, elsewhere>>

\* producer-removed, once for each producer of the transport that closes: with
\* the last one of the room the grace period starts.  A stray is still open
\* then, and its own end is not announced.
Removed(s) == [conn[s] EXCEPT !.timer =
  IF conn[s].phase = "held" /\ room[s].producing # {} /\ room[s].stray = {}
  THEN "producers" ELSE @]

StopProduce(s) ==
  /\ Says(s)
  /\ closePeer(s)
  /\ conn' = [conn EXCEPT ![s] = Removed(s)]
  /\ UNCHANGED elsewhere

\* Mutant of ProducerGrace: the timer looks for the producers only when it is set.
ProducerGraceBlind(s) ==
  /\ Browser(s) /\ conn[s].timer = "producers"
  /\ conn' = [conn EXCEPT ![s].timer = "none"]
  /\ UNCHANGED <<sfu, elsewhere>>

\* The two seconds are over: with no producer again, a live session ends.
ProducerGrace(s) ==
  /\ Browser(s) /\ conn[s].timer = "producers"
  /\ LET c == [conn[s] EXCEPT !.timer = "none"]
     IN  IF c.phase = "held" /\ c.live /\ ~hasProducers(s)
         THEN conn' = [conn EXCEPT ![s] = Ended(c)] /\ closeSession({s})
         ELSE conn' = [conn EXCEPT ![s] = c] /\ UNCHANGED sfu
  /\ UNCHANGED elsewhere

\* The socket closes: closePeer, then endSession.  Before the upgrade nobody
\* listens.
SocketCloses(s) ==
  /\ Browser(s) /\ conn[s].here
  /\ LET c == [conn[s] EXCEPT !.here = FALSE]
     IN  IF ~c.joined THEN conn' = [conn EXCEPT ![s] = c] /\ UNCHANGED sfu
         ELSE IF c.phase = "held"
         THEN conn' = [conn EXCEPT ![s] = Ended(c)] /\ closeSession({s})
         ELSE /\ conn' = [conn EXCEPT ![s] = [c EXCEPT !.phase = IF @ = "done" THEN "ending" ELSE @]]
              /\ closePeer(s)
  /\ UNCHANGED elsewhere

-----------------------------------------------------------------------------
(* A WHIP publisher, as mediasoup's events and its requests tell of it     *)

IceConnects(s) ==
  /\ Whip(s) /\ conn[s].joined /\ conn[s].here
  /\ ~conn[s].media \/ conn[s].timer = "ice"
  /\ conn' = [conn EXCEPT ![s] =
       LET c == [@ EXCEPT !.timer = "none"] IN IF c.media THEN c ELSE Lively(c)]
  /\ UNCHANGED <<sfu, elsewhere>>

IceDisconnects(s) ==
  /\ Whip(s) /\ conn[s].joined /\ conn[s].here /\ conn[s].timer = "none"
  /\ conn' = [conn EXCEPT ![s].timer = "ice"]
  /\ UNCHANGED <<sfu, elsewhere>>

\* Fifteen seconds later: ends a session that never went live.
IceGrace(s) ==
  /\ Whip(s) /\ conn[s].timer = "ice"
  /\ LET c == [conn[s] EXCEPT !.timer = "none"]
     IN  IF c.live THEN conn' = [conn EXCEPT ![s] = c] /\ UNCHANGED sfu
         ELSE IF c.phase = "held"
         THEN conn' = [conn EXCEPT ![s] = Ended(c)] /\ closeSession({s})
         ELSE conn' = [conn EXCEPT ![s] = [c EXCEPT !.phase = "ending"]] /\ UNCHANGED sfu
  /\ UNCHANGED elsewhere

\* ICE failed, DTLS closed, or a DELETE of the resource.
WhipEnds(s) ==
  /\ Whip(s) /\ conn[s].joined /\ conn[s].here
  /\ EndSession(s)
  /\ UNCHANGED elsewhere

-----------------------------------------------------------------------------
(* Viewers and egress                                                      *)

\* A viewer's socket is taken where the session's router is.
ViewerJoins(s) ==
  /\ Webrtc(s) /\ hasRouter(s) /\ ~conn[s].watched
  /\ conn' = [conn EXCEPT ![s].watched = TRUE]
  /\ UNCHANGED <<sfu, elsewhere>>

\* sfu-viewer-create-transport asks for the router again: if it is gone
\* meanwhile, one is made.
ViewerAsks(s) ==
  /\ Webrtc(s) /\ conn[s].watched /\ ~hasRouter(s)
  /\ Request(s, "viewer")
  /\ UNCHANGED <<conn, elsewhere>>

ViewerLeaves(s) ==
  /\ Webrtc(s) /\ conn[s].watched
  /\ conn' = [conn EXCEPT ![s].watched = FALSE]
  /\ UNCHANGED <<sfu, elsewhere>>

\* GET /rtp/<session>: a plain consumer for the video, then one for the audio
\* if there is any and the caller wants it, then the handle.
OpenEgress(s) ==
  /\ Webrtc(s) /\ conn[s].phase = "held" /\ ~conn[s].handle
  /\ "video" \in producers(s) /\ calls[s] \cap {"egressVideo", "egressAudio"} = {}
  /\ room[s].plain = {}
  /\ Request(s, "egressVideo")
  /\ UNCHANGED <<conn, elsewhere>>

VideoOut(s, audio) ==
  /\ Webrtc(s)
  /\ audio => "audio" \in producers(s)
  /\ Answered(s, "egressVideo", [room[s] EXCEPT !.plain = {"video"}],
              IF audio THEN {"egressAudio"} ELSE {})
  /\ conn' = [conn EXCEPT ![s].handle = ~audio]
  /\ UNCHANGED elsewhere

AudioOut(s) ==
  /\ Webrtc(s)
  /\ Answered(s, "egressAudio", [room[s] EXCEPT !.plain = @ \cup {"audio"}], {})
  /\ conn' = [conn EXCEPT ![s].handle = TRUE]
  /\ UNCHANGED elsewhere

\* Mutant of CloseEgress: only the handle's first transport is closed.
CloseEgressFirst(s) ==
  /\ Webrtc(s) /\ conn[s].phase = "held" /\ conn[s].handle
  /\ conn' = [conn EXCEPT ![s].handle = FALSE]
  /\ closePlainConsumer(s, {"video"})
  /\ UNCHANGED <<calls, elsewhere>>

\* DELETE /rtp/<session>/<handle>
CloseEgress(s) ==
  /\ Webrtc(s) /\ conn[s].phase = "held" /\ conn[s].handle
  /\ conn' = [conn EXCEPT ![s].handle = FALSE]
  /\ closePlainConsumer(s, Kind)
  /\ UNCHANGED <<calls, elsewhere>>

-----------------------------------------------------------------------------
\* What mediasoup answers and the timers do, and what peers ask.
WebrtcAnswers(s) ==
  \/ RouterIsUp(s) \/ TransportIsUp(s) \/ Connected(s) \/ ConnectedLate(s)
  \/ \E kinds \in SUBSET Kind : WhipAnswers(s, kinds)
  \/ WhipRefused(s)
  \/ \E k \in Kind : Produced(s, k) \/ ProducedLate(s, k)
  \/ ProducerGrace(s) \/ IceGrace(s)
  \/ \E audio \in BOOLEAN : VideoOut(s, audio)
  \/ AudioOut(s)

WebrtcStep(s) ==
  \/ WebrtcAnswers(s) \/ RequestFails(s)
  \/ AskCapabilities(s) \/ AskTransport(s) \/ AskConnect(s) \/ AskProduce(s)
  \/ StopProduce(s) \/ SocketCloses(s)
  \/ IceConnects(s) \/ IceDisconnects(s) \/ WhipEnds(s)
  \/ ViewerJoins(s) \/ ViewerAsks(s) \/ ViewerLeaves(s)
  \/ OpenEgress(s) \/ CloseEgress(s)

=============================================================================
