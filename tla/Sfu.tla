--------------------------------- MODULE Sfu ---------------------------------
(***************************************************************************)
(* The mediasoup SFU of a WebRTC worker, workers/webrtc/sfu.js: the map of *)
(* rooms, one Router per session, and the requests to mediasoup that its   *)
(* callers await.                                                          *)
(*                                                                         *)
(* calls[s] names the awaits in flight about session s.  mediasoup answers *)
(* a request though its transport or router was closed meanwhile; what the *)
(* answer then changes is dropped with the room, except for createRouter,  *)
(* which sets the map, and for produce, which announces a producer.        *)
(***************************************************************************)
EXTENDS IngestStore

CONSTANT MaxCalls  \* bound: requests about one session in flight when another is made

ASSUME SfuAssumption == MaxCalls \in Nat \ {0}

VARIABLES room, \* Session -> what `routers` holds under its id
          calls \* Session -> the requests in flight

sfu == <<room, calls>>

Kind == {"audio", "video"}

\* transport: the broadcaster's, while it is open.  producing: the kinds with a
\* producer on it.  stray: the kinds with a producer of an earlier transport,
\* closed before the producer was answered, whose end nothing announces.
\* plain: the kinds sent out over PlainRTP.  spare: a second router was made
\* under this id and the map forgot the first.
Room == [router : BOOLEAN, transport : {"none", "new", "connected"},
         producing : SUBSET Kind, stray : SUBSET Kind, plain : SUBSET Kind,
         spare : BOOLEAN]
NoRoom == [router |-> FALSE, transport |-> "none", producing |-> {}, stray |-> {},
           plain |-> {}, spare |-> FALSE]

\* capabilities, router, viewer: createRouter, for getRouterCapabilities, for
\* the broadcaster's createTransport and for a viewer's.  late: a produce whose
\* transport was closed; lost: one whose room was replaced.
Creating == {"capabilities", "router", "viewer"}
Call == Creating \cup {"transport", "connect", "produce", "late", "lost",
                      "egressVideo", "egressAudio"}
Become(S, from, to) == IF S \cap from = {} THEN {} ELSE {to}

SfuTypeOK ==
  /\ room \in [Session -> Room]
  /\ calls \in [Session -> SUBSET Call]

SfuInit ==
  /\ room = [s \in Session |-> NoRoom]
  /\ calls = [s \in Session |-> {}]

hasRouter(s) == room[s].router
producers(s) == room[s].producing \cup room[s].stray
hasProducers(s) == producers(s) # {}

\* Emptied: the room as closeSession leaves it; a spare router is out of reach.
\* A connect is answered all the same, and its WHIP caller goes on.
Emptied(r) == [NoRoom EXCEPT !.spare = r.spare]
Outlasting == Creating \cup {"connect"}
closeSession(S) ==
  /\ room' = [s \in Session |-> IF s \in S THEN Emptied(room[s]) ELSE room[s]]
  /\ calls' = [s \in Session |-> IF s \in S THEN calls[s] \cap Outlasting ELSE calls[s]]

\* closePeer of the broadcaster: its transport, its producers, the strays last,
\* and with each producer the consumers it feeds.
PeerClosed(r) == [r EXCEPT !.transport = "none", !.producing = {}, !.stray = {}, !.plain = {}]
closePeer(s) ==
  /\ room' = [room EXCEPT ![s] = PeerClosed(@)]
  /\ calls' = [calls EXCEPT ![s] = (@ \ {"connect", "produce", "egressVideo", "egressAudio"})
                                     \cup Become(@, {"produce"}, "late")]

\* The PlainRTP transports of an egress handle, with their consumers.
closePlainConsumer(s, kinds) == room' = [room EXCEPT ![s].plain = @ \ kinds]

\* getOrCreateRouter looks in the map, awaits createRouter and only then sets
\* the map: whatever is there by then is replaced.
RouterCreated(s, c) ==
  /\ c \in calls[s] \cap Creating
  /\ room' = [room EXCEPT ![s] = [NoRoom EXCEPT !.router = TRUE,
                                                 !.spare = room[s].spare \/ hasRouter(s)]]
  /\ calls' = [calls EXCEPT ![s] = ((@ \cap Creating) \ {c})
                 \cup Become(@, {"produce", "late", "lost"}, "lost")
                 \cup (IF c = "router" THEN {"transport"} ELSE {})]

\* The request c of session s is answered, the room becomes r, and its caller
\* goes on to make the requests in next.
Answered(s, c, r, next) ==
  /\ c \in calls[s]
  /\ room' = [room EXCEPT ![s] = r]
  /\ calls' = [calls EXCEPT ![s] = (@ \ {c}) \cup next]

\* A caller makes request c.
Request(s, c) ==
  /\ c \notin calls[s] /\ Cardinality(calls[s]) < MaxCalls
  /\ calls' = [calls EXCEPT ![s] = @ \cup {c}]
  /\ UNCHANGED room

=============================================================================
